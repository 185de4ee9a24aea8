--------------------------- MODULE RoomFlowProofs ---------------------------
(***************************************************************************)
(* One room from hand to hand (RoomFlow) for any number of calls, timers   *)
(* and restarts: there is always something that will end the hand or the   *)
(* settlement, a settlement is recorded once, and a timeout acts on the    *)
(* turn its timer was set for, but for the exceptions the properties name. *)
(*                                                                         *)
(* The invariant follows who carries the flow: a timer that is live, or a  *)
(* call that has yet to set it.                                            *)
(***************************************************************************)
EXTENDS RoomFlow, WellFoundedInduction, FiniteSetTheorems, TLAPS

----------------------------------------------------------------------------
(* The invariant *)

\* Where a call goes on after one that it makes.
Thens == {"idle", "act", "ready", "join", "store"}

\* A hand that goes on has moves left, and only a hand has a turn.
Dealt(tb) ==
  /\ tb.stage = "ACTION" => tb.left > 0
  /\ tb.live => tb.stage \in {"ACTION", "GONE"}
  /\ tb.stalled => tb.stage \in {"ACTION", "GONE"} \/ tb.posted
Tables == {tb \in Table : Dealt(tb)}

Calls == {c \in Jobs : /\ c.then \in IF c.at = "left" THEN {"leaving", "save"} ELSE Thens
                       /\ c.snap \in Tables
                       /\ c.at = "timedOut" => c.next \in {"ACTION", "SETTLEMENT"}
                       /\ c.at = "arm" /\ c.kind = "action" => c.rest > 1}

\* What is cleared is in its map, and what is free is not.
Timers == {t \in Timer : /\ t.st = "dead" => t.mapped
                         /\ t.st = "free" => ~t.mapped}

Typed ==
  /\ table \in Tables /\ saved \in Tables
  /\ timers \in [Slot -> Timers]
  /\ job \in [Job -> Calls]
  /\ lock \in Job \cup {NoJob}
  /\ crashes \in 0..MaxCrashes /\ recorded \in 0..2
  /\ restarted \in BOOLEAN /\ twice \in BOOLEAN

\* Call j is about to set a timer.
Arms(j, k) == job[j].at = "arm" /\ job[j].kind = k

\* A call at c will see to it that a timer of kind k is set, or that none is needed.
Carrying(c, k) ==
  \/ c.at = "arm" /\ c.kind = k
  \/ k = "action" /\ Turning(c)
  \/ /\ k = "settlement"
     /\ \/ c.at \in {"record", "acted"}
        \/ c.at \in {"timedOut", "left", "leaving"} /\ c.next = "SETTLEMENT" /\ c.then # "save"

Carries(j, k) == Carrying(job[j], k)

\* A timer that has been cleared and is in its map will be replaced.
Expected ==
  table.stage # "GONE" =>
    \A s \in Slot : timers[s].st = "dead" => \E j \in Job : Arms(j, timers[s].kind)

\* The stage needs a timer.
Wanted ==
  \/ table.ends[KindOf(table.stage)] # NoTime
  \/ crashes = 0 /\ table.stage \in {"ACTION", "SETTLEMENT"}

Astray == table.stalled \/ Crossed \/ Abandoned

Flowing ==
  table.stage # "GONE" /\ ~Astray /\ Wanted =>
    Runs(KindOf(table.stage)) \/ \E j \in Job : Carries(j, KindOf(table.stage))

\* A timer of a turn is live and is not in the map.
Loose == \E s \in Slot : timers[s].st = "live" /\ timers[s].kind = "action" /\ ~timers[s].mapped

LateTimer(s) ==
  timers[s].st = "live" /\ timers[s].kind = "action" /\ timers[s].late /\ timers[s].mapped

\* Call j, which is over before the second tick, replaces timer s before it is due.
Replaces(j, s) == Arms(j, "action") /\ timers[s].rest >= IF job[j].aged THEN 1 ELSE 2

\* When the call that moved the turn has gone on, what is late will be replaced or
\* leaves another timer loose.
OnTime ==
  table.stage = "ACTION" /\ ~Astray /\ ~table.posted /\ (\A j \in Job : ~Turning(job[j])) =>
    /\ \A s \in Slot : LateTimer(s) => Loose \/ \E j \in Job : Replaces(j, s)
    /\ \A j \in Job : Arms(j, "action") /\ job[j].late =>
         Runs("action") \/ \E i \in Job \ {j} : Arms(i, "action")

Records(j) == job[j].at = "record"

\* Without restarts, a hand that goes on has been recorded only while a call is at it;
\* and as long as no two calls are, there is one at most, and the table waits for it.
Recording ==
  /\ crashes = 0 /\ recorded > 0 /\ table.stage \notin {"WAITING", "GONE"} =>
       \E j \in Job : Records(j)
  /\ ~twice => \A j \in Job : Records(j) =>
       /\ recorded > 0 /\ table.stage \in {"SETTLEMENT", "GONE"}
       /\ \A i \in Job : Records(i) => i = j

Sound == Typed /\ Expected /\ OnTime /\ Recording

IInv ==
  /\ Sound
  /\ restarted => crashes > 0
  /\ ~restarted => Flowing

\* What a step may do, as the two action properties say.
RecordsOnce ==
  \A j \in Job :
    /\ job'[j].at = "record" /\ job[j].at # "record" /\ recorded > 0
         => crashes > 0 \/ \E i \in Job \ {j} : job[i].at = "record"
    /\ job[j].at = "record" /\ job'[j].at = "reset" /\ ~twice
         => table.stage = "SETTLEMENT"

Overtakes(s) ==
  /\ timers[s].st = "live" /\ timers[s].late /\ timers'[s].st = "free"
  /\ table'.left < table.left /\ crashes' = crashes

Excused ==
  \/ \E t \in Slot : timers[t].st = "live" /\ timers[t].kind = "action" /\ ~timers[t].mapped
  \/ \E j \in Job : Turning(job[j])
  \/ table.posted \/ table.stalled \/ Crossed

InTime == \A s \in Slot : Overtakes(s) => Excused

----------------------------------------------------------------------------
(* The records *)

LEMMA NoTimeIsNone == NoTime \notin Nat /\ ActionTicks \in Nat /\ SettlementTicks \in Nat
                        /\ ReadyTicks \in Nat /\ SoloTicks \in Nat /\ MaxMoves \in Nat /\ MaxMoves > 0
BY TimeAssumption, BoundAssumption

LEMMA FreeIs == Free \in Timers /\ Free.st = "free"
BY DEF Free, Timer, Timers, Kind

LEMMA NewTableIs ==
  /\ NewTable \in Tables
  /\ NewTable.stage = "WAITING" /\ ~NewTable.live /\ ~NewTable.stalled /\ ~NewTable.posted
  /\ NewTable.left = 0 /\ NewTable.ends = [k \in Kind |-> NoTime]
<1>1. 0 \in 0..MaxMoves
  BY NoTimeIsNone
<1> QED BY <1>1 DEF NewTable, Tables, Table, Dealt, Stage

LEMMA IdleIs ==
  /\ Idle \in Calls /\ Idle.at = "idle" /\ Idle.then = "idle" /\ Idle.kind = "action"
  /\ ~Idle.late /\ ~Idle.aged /\ Idle.next = "WAITING" /\ Idle.snap = NewTable
  /\ Idle.rest = 0
<1>1. NewTable \in Tables /\ NewTable \in Table
  BY NewTableIs DEF Tables
<1>2. Idle \in Jobs
  BY <1>1 DEF Idle, Jobs, At, Kind, Stage
<1> QED BY <1>1, <1>2 DEF Idle, Calls, Thens

LEMMA GoOnIs ==
  ASSUME NEW then \in Thens, NEW nj, nj = GoOn(then)
  PROVE  nj \in Calls /\ nj.at = then /\ nj.then = "idle" /\ ~nj.late /\ ~Turning(nj)
<1>1. PICK c : c = Idle
  OBVIOUS
<1>2. nj = [c EXCEPT !.at = then]
  BY <1>1 DEF GoOn
<1>3. c \in Jobs /\ c.then = "idle" /\ c.snap \in Tables /\ ~c.late
  BY <1>1, IdleIs DEF Calls
<1>4. then \in At /\ then \notin {"timedOut", "arm", "left", "acted", "leaving", "counted", "readied"}
      /\ "idle" \in Thens
  BY DEF Thens, At
<1>5. nj \in Jobs /\ nj.at = then /\ nj.then = "idle" /\ nj.snap = c.snap /\ ~nj.late
  BY <1>2, <1>3, <1>4 DEF Jobs
<1> QED BY <1>3, <1>4, <1>5 DEF Calls, Turning

LEMMA SnapshotIs ==
  ASSUME NEW tb \in Tables
  PROVE  Snapshot(tb) \in Tables
BY NewTableIs DEF Snapshot

LEMMA WritingIs ==
  ASSUME NEW at \in At, NEW then \in Thens, NEW next \in Stage, NEW tb \in Tables,
         at # "arm", at # "left", at = "timedOut" => next \in {"ACTION", "SETTLEMENT"},
         NEW nj, nj = Writing(at, then, next, tb)
  PROVE  nj \in Calls /\ nj.at = at /\ nj.then = then /\ nj.next = next /\ ~nj.late
<1>1. PICK c : c = Idle
  OBVIOUS
<1>2. PICK snap : snap = Snapshot(tb)
  OBVIOUS
<1>3. nj = [c EXCEPT !.at = at, !.then = then, !.next = next, !.snap = snap]
  BY <1>1, <1>2 DEF Writing
<1>4. c \in Jobs /\ ~c.late
  BY <1>1, IdleIs DEF Calls
<1>5. snap \in Tables /\ snap \in Table /\ then \in At
  BY <1>2, SnapshotIs DEF Tables, Thens, At
<1>6. nj \in Jobs /\ nj.at = at /\ nj.then = then /\ nj.next = next /\ nj.snap = snap /\ ~nj.late
  BY <1>3, <1>4, <1>5 DEF Jobs
<1> QED BY <1>5, <1>6 DEF Calls

\* What a call waits for that has moved the turn.
LEMMA TurningIs ==
  ASSUME NEW c \in Calls, c.at \in {"acted", "timedOut", "leaving", "counted", "readied"}
  PROVE  Turning(c) /\ c.then # "save"
BY DEF Turning, Calls, Thens

LEMMA ArmingIs ==
  ASSUME NEW k \in Kind, NEW ticks \in Nat, NEW then \in Thens, NEW tb \in Tables,
         k = "action" => ticks > 1, NEW nj, nj = Arming(k, ticks, then, tb)
  PROVE  nj \in Calls /\ nj.at = "arm" /\ nj.kind = k /\ ~nj.late /\ nj.rest = ticks
<1>1. PICK c : c = Idle
  OBVIOUS
<1>2. PICK snap : snap = Snapshot(tb)
  OBVIOUS
<1>3. nj = [c EXCEPT !.at = "arm", !.then = then, !.kind = k, !.rest = ticks, !.snap = snap]
  BY <1>1, <1>2 DEF Arming
<1>4. c \in Jobs /\ ~c.late
  BY <1>1, IdleIs DEF Calls
<1>5. snap \in Tables /\ snap \in Table /\ then \in At /\ "arm" \in At
  BY <1>2, SnapshotIs DEF Tables, Thens, At
<1>6. /\ nj \in Jobs /\ nj.at = "arm" /\ nj.kind = k /\ ~nj.late /\ nj.rest = ticks /\ nj.then = then
      /\ nj.snap = snap
  BY <1>3, <1>4, <1>5 DEF Jobs
<1> QED BY <1>5, <1>6 DEF Calls

----------------------------------------------------------------------------
(* The table *)

LEMMA BeginIs ==
  ASSUME NEW old \in Tables, NEW k \in Kind, NEW ticks \in Nat, NEW tb, tb = Begin(old, k, ticks)
  PROVE  /\ tb \in Tables /\ tb.stage = old.stage /\ tb.left = old.left /\ tb.live = old.live
         /\ ~tb.stalled /\ tb.ends[k] = ticks
         /\ tb.posted <=> old.posted /\ k # KindOf(old.stage)
         /\ \A x \in Kind \ {k} : tb.ends[x] = IF k = "action" THEN old.ends[x] ELSE NoTime
<1>1. old \in Table /\ Dealt(old)
  BY DEF Tables
<1>2. PICK ends : ends = [x \in Kind |-> IF x = k THEN ticks
                                         ELSE IF k = "action" THEN old.ends[x] ELSE NoTime]
  OBVIOUS
<1>3. ends \in [Kind -> Nat \cup {NoTime}]
  BY <1>1, <1>2 DEF Table
<1>4. PICK posted \in BOOLEAN : posted = (old.posted /\ k # KindOf(old.stage))
  <2>1. old.posted \in BOOLEAN
    BY <1>1 DEF Table
  <2> QED BY <2>1
<1>5. tb = [old EXCEPT !.stalled = FALSE, !.posted = posted, !.ends = ends]
  BY <1>2, <1>4 DEF Begin
<1>6. /\ tb \in Table /\ tb.ends = ends /\ tb.stage = old.stage /\ tb.left = old.left
      /\ tb.live = old.live /\ ~tb.stalled /\ tb.posted = posted
  BY <1>1, <1>3, <1>5 DEF Table
<1>7. tb \in Tables
  BY <1>1, <1>6 DEF Tables, Dealt
<1> QED BY <1>2, <1>4, <1>6, <1>7

LEMMA StartHandIs ==
  ASSUME NEW live \in BOOLEAN, NEW tb, tb = StartHand(live)
  PROVE  tb \in Tables /\ tb.stage = "ACTION" /\ tb.left = MaxMoves
<1>1. NewTable \in Table
  BY NewTableIs DEF Tables
<1>2. PICK old : old = NewTable
  OBVIOUS
<1>3. tb = [old EXCEPT !.stage = "ACTION", !.live = live, !.left = MaxMoves]
  BY <1>2 DEF StartHand
<1>4. old \in Table /\ MaxMoves \in 0..MaxMoves /\ "ACTION" \in Stage
  BY <1>1, <1>2, NoTimeIsNone DEF Stage
<1>5. tb \in Table /\ tb.stage = "ACTION" /\ tb.left = MaxMoves
  BY <1>3, <1>4 DEF Table
<1> QED BY <1>5, NoTimeIsNone DEF Tables, Dealt

LEMMA MovesAre ==
  ASSUME NEW old \in Tables, old.stage = "ACTION", NEW tb \in Moves(old)
  PROVE  /\ tb \in Tables /\ tb.stage \in {"ACTION", "SETTLEMENT"}
         /\ tb.left < old.left /\ tb.ends["action"] = NoTime
         /\ \A k \in Kind \ {"action"} : tb.ends[k] = old.ends[k]
<1>1. old \in Table /\ old.left > 0 /\ old.left \in 0..MaxMoves /\ MaxMoves \in Nat
  BY NoTimeIsNone DEF Tables, Dealt, Table
<1>2. PICK to \in {<<"SETTLEMENT", FALSE>>}
                    \cup IF old.left > 1 THEN {"ACTION"} \X BOOLEAN ELSE {} :
        tb = [old EXCEPT !.stage = to[1], !.live = to[2], !.stalled = FALSE, !.left = @ - 1,
                         !.ends.action = NoTime]
  BY DEF Moves
<1>3. /\ to[1] \in {"ACTION", "SETTLEMENT"} /\ to[2] \in BOOLEAN
      /\ to[1] = "ACTION" => old.left > 1
      /\ to[2] => to[1] = "ACTION"
  <2>1. CASE to = <<"SETTLEMENT", FALSE>>
    BY <2>1
  <2>2. CASE to # <<"SETTLEMENT", FALSE>>
    <3>1. old.left > 1 /\ to \in {"ACTION"} \X BOOLEAN
      BY <2>2
    <3>2. PICK live \in BOOLEAN : to = <<"ACTION", live>>
      BY <3>1
    <3> QED BY <3>1, <3>2
  <2> QED BY <2>1, <2>2
<1>4. PICK left : left = old.left - 1
  OBVIOUS
<1>5. left \in 0..MaxMoves /\ left < old.left /\ (old.left > 1 => left > 0)
  BY <1>1, <1>4
<1>6. PICK ends : ends = [old.ends EXCEPT !.action = NoTime]
  OBVIOUS
<1>7. ends \in [Kind -> Nat \cup {NoTime}] /\ ends["action"] = NoTime
  BY <1>1, <1>6 DEF Table, Kind
<1>8. tb = [old EXCEPT !.stage = to[1], !.live = to[2], !.stalled = FALSE, !.left = left,
                       !.ends = ends]
  BY <1>2, <1>4, <1>6
<1>9. PICK stage \in {"ACTION", "SETTLEMENT"} : stage = to[1]
  BY <1>3
<1>10. PICK live \in BOOLEAN : live = to[2]
  BY <1>3
<1>11. tb = [old EXCEPT !.stage = stage, !.live = live, !.stalled = FALSE, !.left = left,
                        !.ends = ends]
  BY <1>8, <1>9, <1>10
<1>12. tb \in Table /\ tb.stage = stage /\ tb.left = left /\ tb.live = live /\ ~tb.stalled
       /\ tb.ends = ends
  BY <1>1, <1>5, <1>7, <1>11 DEF Table, Stage
<1>13. tb.stage = "ACTION" => tb.left > 0
  BY <1>3, <1>5, <1>9, <1>12
<1>14. tb.live => tb.stage = "ACTION"
  BY <1>3, <1>9, <1>10, <1>12
<1>15. \A k \in Kind \ {"action"} : ends[k] = old.ends[k]
  BY <1>1, <1>6 DEF Table
<1> QED BY <1>5, <1>7, <1>12, <1>13, <1>14, <1>15 DEF Tables, Dealt

LEMMA KindOfIs ==
  ASSUME NEW stage \in Stage
  PROVE  KindOf(stage) \in Kind
BY DEF KindOf, Stage, Kind

\* What time does to a table.
LEMMA LaterIs ==
  ASSUME NEW tb \in Tables
  PROVE  /\ Later(tb) \in Tables /\ Later(tb).stage = tb.stage
         /\ Later(tb).left = tb.left /\ Later(tb).live = tb.live /\ Later(tb).stalled = tb.stalled
         /\ Later(tb).posted = tb.posted
         /\ \A k \in Kind : Later(tb).ends[k] = NoTime <=> tb.ends[k] = NoTime
<1>1. tb \in Table /\ Dealt(tb)
  BY DEF Tables
<1>2. PICK ends : ends = [k \in Kind |-> IF tb.ends[k] \in {0, NoTime} THEN tb.ends[k]
                                         ELSE tb.ends[k] - 1]
  OBVIOUS
<1>3. ASSUME NEW k \in Kind
      PROVE  ends[k] \in Nat \cup {NoTime} /\ (ends[k] = NoTime <=> tb.ends[k] = NoTime)
  <2>1. tb.ends[k] \in Nat \cup {NoTime}
    BY <1>1 DEF Table
  <2>2. CASE tb.ends[k] \in {0, NoTime}
    BY <1>2, <2>1, <2>2
  <2>3. CASE tb.ends[k] \notin {0, NoTime}
    <3>1. tb.ends[k] \in Nat /\ tb.ends[k] > 0
      BY <2>1, <2>3
    <3>2. ends[k] = tb.ends[k] - 1
      BY <1>2, <2>3
    <3>3. ends[k] \in Nat
      BY <3>1, <3>2
    <3> QED BY <2>3, <3>3, NoTimeIsNone
  <2> QED BY <2>2, <2>3
<1>4. ends \in [Kind -> Nat \cup {NoTime}]
  BY <1>2, <1>3
<1>5. Later(tb) = [tb EXCEPT !.ends = ends]
  BY <1>2 DEF Later
<1>6. /\ Later(tb) \in Table /\ Later(tb).ends = ends /\ Later(tb).stage = tb.stage
      /\ Later(tb).left = tb.left /\ Later(tb).live = tb.live /\ Later(tb).stalled = tb.stalled
      /\ Later(tb).posted = tb.posted
  BY <1>1, <1>4, <1>5 DEF Table
<1> QED BY <1>1, <1>3, <1>6 DEF Tables, Dealt

----------------------------------------------------------------------------
(* The timer maps *)

\* Two timers that differ at most in being late.
Alike(a, b) == a.st = b.st /\ a.kind = b.kind /\ a.mapped = b.mapped /\ a.rest = b.rest

LEMMA ClearIs ==
  ASSUME NEW ts \in [Slot -> Timers], NEW k \in Kind, NEW cl, cl = ClearTimer(ts, k)
  PROVE  /\ cl \in [Slot -> Timers]
         /\ \A s \in Slot :
              /\ cl[s].mapped = ts[s].mapped /\ cl[s].kind = ts[s].kind
              /\ Entry(ts, k, s) => cl[s].st = "dead" /\ cl[s].kind = k
              /\ ~Entry(ts, k, s) => cl[s] = ts[s]
<1>1. ASSUME NEW s \in Slot
      PROVE  /\ cl[s] \in Timers /\ cl[s].mapped = ts[s].mapped /\ cl[s].kind = ts[s].kind
             /\ Entry(ts, k, s) => cl[s].st = "dead" /\ cl[s].kind = k
             /\ ~Entry(ts, k, s) => cl[s] = ts[s]
  <2>1. PICK old : old = ts[s]
    OBVIOUS
  <2>2. old \in Timers
    BY <2>1
  <2>3. PICK new : new = [old EXCEPT !.st = "dead", !.rest = 0]
    OBVIOUS
  <2>4. new \in Timer /\ new.st = "dead" /\ new.kind = old.kind /\ new.mapped = old.mapped
    BY <2>2, <2>3 DEF Timers, Timer
  <2>7. Entry(ts, k, s) => new \in Timers
    BY <2>1, <2>4 DEF Timers, Entry
  <2>5. cl[s] = IF Entry(ts, k, s) THEN new ELSE old
    BY <2>1, <2>3 DEF ClearTimer
  <2>6. Entry(ts, k, s) => old.kind = k
    BY <2>1 DEF Entry
  <2> QED BY <2>1, <2>2, <2>4, <2>5, <2>6, <2>7
<1>2. cl = [s \in Slot |-> cl[s]]
  BY DEF ClearTimer
<1> QED BY <1>1, <1>2

LEMMA DeleteIs ==
  ASSUME NEW ts \in [Slot -> Timers], NEW k \in Kind, NEW dl, dl = DeleteEntry(ts, k)
  PROVE  /\ dl \in [Slot -> Timers]
         /\ \A s \in Slot :
              /\ ~Entry(ts, k, s) => dl[s] = ts[s]
              /\ Entry(ts, k, s) /\ ts[s].st = "dead" => dl[s] = Free
              /\ Entry(ts, k, s) /\ ts[s].st # "dead" =>
                   dl[s].st = ts[s].st /\ dl[s].kind = k /\ ~dl[s].mapped
<1>1. ASSUME NEW s \in Slot
      PROVE  /\ dl[s] \in Timers
             /\ ~Entry(ts, k, s) => dl[s] = ts[s]
             /\ Entry(ts, k, s) /\ ts[s].st = "dead" => dl[s] = Free
             /\ Entry(ts, k, s) /\ ts[s].st # "dead" =>
                  dl[s].st = ts[s].st /\ dl[s].kind = k /\ ~dl[s].mapped
  <2>1. PICK old : old = ts[s]
    OBVIOUS
  <2>2. old \in Timers
    BY <2>1
  <2>3. dl[s] = IF ~Entry(ts, k, s) THEN old
                ELSE IF old.st = "dead" THEN Free ELSE [old EXCEPT !.mapped = FALSE]
    BY <2>1 DEF DeleteEntry
  <2>4. Entry(ts, k, s) => old.kind = k /\ old.mapped
    BY <2>1 DEF Entry
  <2>5. PICK new : new = [old EXCEPT !.mapped = FALSE]
    OBVIOUS
  <2>6. new \in Timer /\ new.st = old.st /\ new.kind = old.kind /\ ~new.mapped
    BY <2>2, <2>5 DEF Timers, Timer
  <2>7. old.st # "dead" => new \in Timers
    BY <2>6 DEF Timers
  <2> QED BY <2>1, <2>2, <2>3, <2>4, <2>5, <2>6, <2>7, FreeIs
<1>2. dl = [s \in Slot |-> dl[s]]
  BY DEF DeleteEntry
<1> QED BY <1>1, <1>2

\* clearTimeout, and delete: the entry is gone.
LEMMA ClearedAndDeleted ==
  ASSUME NEW ts \in [Slot -> Timers], NEW k \in Kind,
         NEW dl, dl = DeleteEntry(ClearTimer(ts, k), k)
  PROVE  /\ dl \in [Slot -> Timers]
         /\ \A s \in Slot : /\ Entry(ts, k, s) => dl[s] = Free
                            /\ ~Entry(ts, k, s) => dl[s] = ts[s]
<1>1. PICK cl : cl = ClearTimer(ts, k)
  OBVIOUS
<1>2. cl \in [Slot -> Timers]
      /\ \A s \in Slot : /\ cl[s].mapped = ts[s].mapped /\ cl[s].kind = ts[s].kind
                         /\ Entry(ts, k, s) => cl[s].st = "dead" /\ cl[s].kind = k
                         /\ ~Entry(ts, k, s) => cl[s] = ts[s]
  BY <1>1, ClearIs
<1>3. \A s \in Slot : Entry(cl, k, s) <=> Entry(ts, k, s)
  BY <1>2 DEF Entry
<1>4. dl = DeleteEntry(cl, k)
  BY <1>1
<1>5. /\ dl \in [Slot -> Timers]
      /\ \A s \in Slot : /\ ~Entry(cl, k, s) => dl[s] = cl[s]
                         /\ Entry(cl, k, s) /\ cl[s].st = "dead" => dl[s] = Free
  BY <1>2, <1>4, DeleteIs
<1> QED BY <1>2, <1>3, <1>5

LEMMA RoundIs ==
  ASSUME NEW ts \in [Slot -> Timers], NEW cl, cl = ClearRoundTimers(ts)
  PROVE  /\ cl \in [Slot -> Timers]
         /\ \A s \in Slot : cl[s] = IF ts[s].mapped THEN Free ELSE ts[s]
BY FreeIs DEF ClearRoundTimers

LEMMA LeastSlot ==
  ASSUME NEW S \in SUBSET Slot, S # {}
  PROVE  \E x \in S : \A y \in S : x <= y
<1> DEFINE R == StrictSubsetOrdering(Nat)
           T == {1 .. n : n \in S}
<1>0. Slot \subseteq Nat
  BY BoundAssumption DEF Slot
<1>1. IsWellFoundedOn(R, FiniteSubsetsOf(Nat))
  BY FS_StrictSubsetOrderingWellFounded
<1>2. ASSUME NEW n \in S PROVE 1 .. n \in FiniteSubsetsOf(Nat)
  <2>1. n \in Nat
    BY <1>0
  <2> QED BY <2>1, FS_Interval DEF FiniteSubsetsOf
<1>3. T \subseteq FiniteSubsetsOf(Nat) /\ T # {}
  BY <1>2
<1>4. PICK m \in T : \A x \in T : ~(<<x, m>> \in R)
  <2> HIDE DEF T, R
  <2> QED BY <1>1, <1>3, WFMin
<1>5. PICK i \in S : m = 1 .. i
  BY <1>4
<1>6. ASSUME NEW j \in S PROVE i <= j
  <2> SUFFICES ASSUME ~(i <= j) PROVE FALSE
    OBVIOUS
  <2>0. i \in Nat /\ j \in Nat /\ j < i /\ i > 0
    BY <1>0 DEF Slot
  <2>1. 1 .. j \subseteq 1 .. i /\ i \in 1 .. i /\ i \notin 1 .. j
    BY <2>0
  <2>2. <<1 .. j, 1 .. i>> \in R
    <3>1. 1 .. i \subseteq Nat /\ 1 .. j \subseteq Nat
      OBVIOUS
    <3> QED BY <2>1, <3>1 DEF StrictSubsetOrdering
  <2> QED BY <1>4, <1>5, <2>2
<1> QED BY <1>5, <1>6

LEMMA SetIs ==
  ASSUME NEW ts \in [Slot -> Timers], NEW k \in Kind, NEW rest \in Nat, NEW late \in BOOLEAN,
         FreeSlots(ts, k) # {}, NEW st, st = SetTimer(ts, k, rest, late)
  PROVE  /\ st \in [Slot -> Timers]
         /\ \E x \in Slot :
              /\ ts[x].st = "free" \/ (Entry(ts, k, x) /\ ts[x].st = "dead")
              /\ st[x].st = "live" /\ st[x].kind = k /\ st[x].mapped
              /\ st[x].late = late /\ st[x].rest = rest
              /\ \A s \in Slot \ {x} :
                   /\ ~Entry(ts, k, s) => st[s] = ts[s]
                   /\ Entry(ts, k, s) /\ ts[s].st = "dead" => st[s] = Free
                   /\ Entry(ts, k, s) /\ ts[s].st # "dead" =>
                        st[s].st = ts[s].st /\ st[s].kind = k /\ ~st[s].mapped
<1> DEFINE x == CHOOSE x \in FreeSlots(ts, k) : \A y \in FreeSlots(ts, k) : x <= y
           new == [st |-> "live", kind |-> k, mapped |-> TRUE, late |-> late, rest |-> rest]
<1>0. PICK dl : dl = DeleteEntry(ts, k)
  OBVIOUS
<1>1. FreeSlots(ts, k) \in SUBSET Slot
  BY DEF FreeSlots
<1>2. x \in FreeSlots(ts, k)
  BY <1>1, LeastSlot
<1>3. x \in Slot /\ dl[x].st = "free"
  BY <1>0, <1>2 DEF FreeSlots
<1>4. new \in Timers
  BY DEF Timers, Timer
<1>5. st = [dl EXCEPT ![x] = new]
  BY <1>0 DEF SetTimer
<1>6. new.st = "live" /\ new.kind = k /\ new.mapped /\ new.late = late /\ new.rest = rest
  BY DEF new
<1> HIDE DEF x, new
<1>7. /\ dl \in [Slot -> Timers]
      /\ \A s \in Slot :
           /\ ~Entry(ts, k, s) => dl[s] = ts[s]
           /\ Entry(ts, k, s) /\ ts[s].st = "dead" => dl[s] = Free
           /\ Entry(ts, k, s) /\ ts[s].st # "dead" =>
                dl[s].st = ts[s].st /\ dl[s].kind = k /\ ~dl[s].mapped
  BY <1>0, DeleteIs
<1>8. st \in [Slot -> Timers] /\ st[x] = new /\ \A s \in Slot \ {x} : st[s] = dl[s]
  BY <1>3, <1>4, <1>5, <1>7
<1>9. ts[x].st = "free" \/ (Entry(ts, k, x) /\ ts[x].st = "dead")
  BY <1>3, <1>7
<1> QED BY <1>3, <1>6, <1>7, <1>8, <1>9

LEMMA FiredIs ==
  ASSUME timers \in [Slot -> Timers], NEW s \in Slot, NEW fd, fd = Fired(s)
  PROVE  /\ fd \in [Slot -> Timers]
         /\ \A t \in Slot \ {s} : fd[t] = timers[t]
         /\ timers[s].mapped => /\ fd[s].st = "dead" /\ fd[s].kind = timers[s].kind
                                /\ fd[s].mapped
         /\ ~timers[s].mapped => fd[s] = Free
<1>1. PICK old : old = timers[s]
  OBVIOUS
<1>2. old \in Timers
  BY <1>1
<1>3. PICK new : new = IF old.mapped THEN [old EXCEPT !.st = "dead"] ELSE Free
  OBVIOUS
<1>4. /\ new \in Timers
      /\ old.mapped => new.st = "dead" /\ new.kind = old.kind /\ new.mapped
      /\ ~old.mapped => new = Free
  BY <1>2, <1>3, FreeIs DEF Timers, Timer
<1>5. fd = [timers EXCEPT ![s] = new]
  BY <1>1, <1>3 DEF Fired
<1> QED BY <1>1, <1>4, <1>5

----------------------------------------------------------------------------
(* One step of a call *)

\* The same call, a tick or a move later.
SameCall(a, b) == a.at = b.at /\ a.then = b.then /\ a.kind = b.kind /\ a.rest = b.rest
                  /\ a.next = b.next /\ a.snap = b.snap

\* Call j has gone on as nj; the table is tb, the timers are ts.
Goes(j, nj, tb, ts, moved) ==
  /\ table' = tb
  /\ \A s \in Slot : Alike(timers'[s], ts[s]) /\ (timers'[s].late => ts[s].late \/ moved)
  /\ SameCall(job'[j], nj) /\ (job'[j].late => nj.late)
  /\ \A i \in Job \ {j} : /\ SameCall(job'[i], job[i]) /\ job'[i].aged = job[i].aged
                          /\ job'[i].late => job[i].late \/ moved
  /\ recorded' = IF nj.at = "record" THEN (IF recorded = 0 THEN 1 ELSE 2)
                 ELSE IF table.stage = "WAITING" /\ tb.stage = "ACTION" THEN 0 ELSE recorded
  /\ twice' = ((twice \/ (nj.at = "record" /\ recorded > 0))
                /\ \E i \in Job : job'[i].at = "record")
  /\ crashes' = crashes

\* What the step leaves of the types.
StaysTyped ==
  /\ table' \in Tables /\ timers' \in [Slot -> Timers] /\ job' \in [Job -> Calls]
  /\ recorded' \in 0..2 /\ twice' \in BOOLEAN

LEMMA StepGoes ==
  ASSUME Typed, NEW j \in Job, NEW nj \in Calls, NEW tb \in Tables,
         NEW ts \in [Slot -> Timers], NEW moved \in BOOLEAN,
         Step(j, nj, tb, ts, moved), crashes' = crashes
  PROVE  Goes(j, nj, tb, ts, moved) /\ StaysTyped
<1>1. job \in [Job -> Calls]
  BY DEF Typed
<1>2. table' = tb
  BY DEF Step
<1>3. ASSUME NEW s \in Slot
      PROVE  /\ timers'[s] \in Timers /\ Alike(timers'[s], ts[s])
             /\ timers'[s].late => ts[s].late \/ moved
  <2>1. PICK old : old = ts[s]
    OBVIOUS
  <2>2. old \in Timers
    BY <2>1
  <2>3. PICK new : new = [old EXCEPT !.late = TRUE]
    OBVIOUS
  <2>4. new \in Timers /\ Alike(new, old)
    BY <2>2, <2>3 DEF Timers, Timer, Alike
  <2>5. timers'[s] = IF moved /\ ts[s].st = "live" /\ ts[s].kind = "action" THEN new ELSE old
    BY <2>1, <2>3 DEF Step
  <2>6. Alike(old, old)
    BY DEF Alike
  <2> QED BY <2>1, <2>2, <2>4, <2>5, <2>6
<1>4. timers' \in [Slot -> Timers]
  <2>1. timers' = [s \in Slot |-> timers'[s]]
    BY DEF Step
  <2> QED BY <1>3, <2>1
<1>5. /\ job'[j] \in Calls /\ SameCall(job'[j], nj) /\ (job'[j].late => nj.late)
  <2>1. PICK aged \in BOOLEAN : aged = (job[j].aged /\ nj.at # "idle")
    <3>1. job[j].aged \in BOOLEAN
      BY <1>1 DEF Calls, Jobs
    <3> QED BY <3>1
  <2>2. job'[j] = [nj EXCEPT !.aged = aged]
    BY <2>1 DEF Step
  <2>3. nj \in Jobs
    BY DEF Calls
  <2>4. job'[j] \in Jobs /\ SameCall(job'[j], nj) /\ job'[j].late = nj.late
    BY <2>2, <2>3 DEF Jobs, SameCall
  <2> QED BY <2>4 DEF Calls, SameCall
<1>6. ASSUME NEW i \in Job \ {j}
      PROVE  /\ job'[i] \in Calls /\ SameCall(job'[i], job[i]) /\ job'[i].aged = job[i].aged
             /\ job'[i].late => job[i].late \/ moved
  <2>1. PICK old : old = job[i]
    OBVIOUS
  <2>2. old \in Calls /\ old \in Jobs
    BY <1>1, <2>1 DEF Calls
  <2>3. PICK new : new = [old EXCEPT !.late = TRUE]
    OBVIOUS
  <2>4. new \in Jobs /\ SameCall(new, old) /\ new.aged = old.aged
    BY <2>2, <2>3 DEF Jobs, SameCall
  <2>5. new \in Calls
    BY <2>2, <2>4 DEF Calls, SameCall
  <2>6. job'[i] = IF moved /\ job[i].at = "arm" /\ job[i].kind = "action" THEN new ELSE old
    BY <2>1, <2>3 DEF Step
  <2>7. SameCall(old, old)
    BY DEF SameCall
  <2> QED BY <2>1, <2>2, <2>4, <2>5, <2>6, <2>7
<1>7. job' \in [Job -> Calls]
  <2>1. job' = [i \in Job |-> job'[i]]
    BY DEF Step
  <2>2. \A i \in Job : job'[i] \in Calls
    BY <1>5, <1>6
  <2> QED BY <2>1, <2>2
<1>8. /\ recorded' = IF nj.at = "record" THEN (IF recorded = 0 THEN 1 ELSE 2)
                     ELSE IF table.stage = "WAITING" /\ tb.stage = "ACTION" THEN 0 ELSE recorded
      /\ twice' = ((twice \/ (nj.at = "record" /\ recorded > 0))
                    /\ \E i \in Job : job'[i].at = "record")
  BY DEF Step
<1>9. recorded' \in 0..2 /\ twice' \in BOOLEAN
  BY <1>8 DEF Typed
<1> QED BY <1>2, <1>3, <1>4, <1>5, <1>6, <1>7, <1>8, <1>9 DEF Goes, StaysTyped

----------------------------------------------------------------------------
(* What a step leaves of each part of the invariant *)

\* A timer is cleared only by a call that will set it again.
LEMMA ExpectedKept ==
  ASSUME Expected, NEW j \in Job, NEW nj \in Calls, NEW tb \in Tables,
         NEW ts \in [Slot -> Timers], NEW moved \in BOOLEAN,
         Goes(j, nj, tb, ts, moved),
         tb.stage # "GONE" =>
           /\ table.stage # "GONE"
           /\ \A s \in Slot : ts[s].st = "dead" =>
                \/ nj.at = "arm" /\ nj.kind = ts[s].kind
                \/ /\ timers[s].st = "dead" /\ timers[s].kind = ts[s].kind
                   /\ ~Arms(j, timers[s].kind)
  PROVE  Expected'
<1> SUFFICES ASSUME table'.stage # "GONE", NEW s \in Slot, timers'[s].st = "dead"
             PROVE  \E i \in Job : job'[i].at = "arm" /\ job'[i].kind = timers'[s].kind
  BY DEF Expected, Arms
<1>1. tb.stage # "GONE" /\ ts[s].st = "dead" /\ ts[s].kind = timers'[s].kind
  BY DEF Goes, Alike
<1>2. CASE nj.at = "arm" /\ nj.kind = ts[s].kind
  BY <1>1, <1>2 DEF Goes, SameCall
<1>3. CASE /\ timers[s].st = "dead" /\ timers[s].kind = ts[s].kind
           /\ ~Arms(j, timers[s].kind)
  <2>1. PICK i \in Job : Arms(i, timers[s].kind)
    BY <1>1, <1>3 DEF Expected
  <2>2. i # j
    BY <1>3, <2>1
  <2> QED BY <1>1, <1>3, <2>1, <2>2 DEF Goes, SameCall, Arms
<1> QED BY <1>1, <1>2, <1>3

\* A settlement is recorded by whoever finds it, and the table reset by whoever has.
LEMMA RecordingKept ==
  ASSUME Typed, Recording, NEW j \in Job, NEW nj \in Calls, NEW tb \in Tables,
         NEW ts \in [Slot -> Timers], NEW moved \in BOOLEAN,
         Goes(j, nj, tb, ts, moved),
         nj.at = "record" => /\ table.stage = "SETTLEMENT" /\ tb.stage = "SETTLEMENT"
                             /\ ~Records(j),
         nj.at = "reset" => Records(j) /\ table.stage # "GONE",
         Records(j) => tb.stage \in {"WAITING", "GONE"},
         \/ tb.stage = table.stage
         \/ tb.stage = "GONE"
         \/ Records(j) /\ tb.stage = "WAITING"
         \/ table.stage = "WAITING" /\ tb.stage = "ACTION"
         \/ table.stage = "ACTION" /\ tb.stage = "SETTLEMENT"
  PROVE  Recording' /\ RecordsOnce
<1>1. /\ job'[j].at = nj.at /\ table' = tb /\ crashes' = crashes
      /\ \A i \in Job \ {j} : job'[i].at = job[i].at
  BY DEF Goes, SameCall
<1>2. \A i \in Job : Records(i)' <=> job'[i].at = "record"
  BY DEF Records
<1>3. \A i \in Job \ {j} : Records(i)' <=> Records(i)
  BY <1>1, <1>2 DEF Records
<1>4. recorded \in Nat
  BY DEF Typed
<1>5. RecordsOnce
  <2>1. ASSUME NEW i \in Job, job'[i].at = "record", job[i].at # "record", recorded > 0, crashes = 0
        PROVE  \E h \in Job \ {i} : job[h].at = "record"
    <3>1. i = j
      BY <1>1, <2>1
    <3>2. table.stage = "SETTLEMENT"
      BY <1>1, <2>1, <3>1
    <3> QED BY <2>1, <3>2 DEF Recording, Records
  <2>2. ASSUME NEW i \in Job, job[i].at = "record", job'[i].at = "reset", ~twice
        PROVE  table.stage = "SETTLEMENT"
    <3>1. i = j
      BY <1>1, <2>2
    <3>2. table.stage # "GONE"
      BY <1>1, <2>2, <3>1
    <3> QED BY <2>2, <3>2 DEF Recording, Records
  <2>3. crashes \in Nat
    BY DEF Typed
  <2> QED BY <2>1, <2>2, <2>3 DEF RecordsOnce
<1>6. ASSUME crashes = 0, recorded' > 0, tb.stage \notin {"WAITING", "GONE"}
      PROVE  \E i \in Job : Records(i)'
  <2>1. CASE nj.at = "record"
    BY <1>1, <1>2, <2>1
  <2>2. CASE nj.at # "record"
    <3>1. recorded' = recorded /\ ~(table.stage = "WAITING" /\ tb.stage = "ACTION")
      BY <1>6, <2>2 DEF Goes
    <3>2. ~Records(j) /\ table.stage \notin {"WAITING", "GONE"}
      BY <1>6, <3>1
    <3>3. PICK i \in Job : Records(i)
      BY <1>6, <3>1, <3>2 DEF Recording
    <3> QED BY <1>3, <3>2, <3>3
  <2> QED BY <2>1, <2>2
<1>7. ASSUME ~twice', NEW i \in Job, Records(i)'
      PROVE  /\ recorded' > 0 /\ tb.stage \in {"SETTLEMENT", "GONE"}
             /\ \A h \in Job : Records(h)' => h = i
  <2>1. ~twice /\ ~(nj.at = "record" /\ recorded > 0)
    BY <1>2, <1>7 DEF Goes
  <2>2. \A h \in Job : Records(h) =>
          /\ recorded > 0 /\ table.stage \in {"SETTLEMENT", "GONE"}
          /\ \A g \in Job : Records(g) => g = h
    BY <2>1 DEF Recording
  <2>3. CASE nj.at = "record"
    <3>1. recorded = 0 /\ recorded' = 1
      BY <1>4, <2>1, <2>3 DEF Goes
    <3>2. \A h \in Job : ~Records(h)
      BY <2>2, <3>1
    <3>3. \A h \in Job : Records(h)' => h = j
      BY <1>3, <3>2
    <3> QED BY <1>7, <2>3, <3>1, <3>3
  <2>4. CASE nj.at # "record"
    <3>1. i # j /\ Records(i)
      BY <1>1, <1>2, <1>3, <1>7, <2>4
    <3>2. ~Records(j) /\ recorded > 0 /\ table.stage \in {"SETTLEMENT", "GONE"}
      BY <2>2, <3>1
    <3>3. tb.stage \in {"SETTLEMENT", "GONE"} /\ recorded' = recorded
      BY <2>4, <3>2 DEF Goes
    <3>4. \A h \in Job : Records(h)' => h = i
      BY <1>1, <1>2, <1>3, <2>2, <2>4, <3>1
    <3> QED BY <3>2, <3>3, <3>4
  <2> QED BY <2>3, <2>4
<1>8. Recording'
  BY <1>1, <1>6, <1>7 DEF Recording
<1> QED BY <1>5, <1>8

LEMMA SameCarrying ==
  ASSUME NEW a, NEW b, SameCall(a, b), NEW k
  PROVE  Carrying(a, k) <=> Carrying(b, k)
BY DEF SameCall, Carrying, Turning

\* Call j, or a timer, carries the flow on; or nothing has to.
LEMMA FlowsOn ==
  ASSUME NEW j \in Job, NEW nj \in Calls, NEW tb \in Tables,
         NEW ts \in [Slot -> Timers], NEW moved \in BOOLEAN,
         Goes(j, nj, tb, ts, moved),
         \/ tb.stage = "GONE" \/ Astray' \/ ~Wanted'
         \/ Carrying(nj, KindOf(tb.stage))
         \/ \E s \in Slot : ts[s].st = "live" /\ ts[s].kind = KindOf(tb.stage)
  PROVE  Flowing'
<1>1. table' = tb
  BY DEF Goes
<1>2. CASE tb.stage = "GONE" \/ Astray' \/ ~Wanted'
  BY <1>1, <1>2 DEF Flowing
<1>3. CASE Carrying(nj, KindOf(tb.stage))
  <2>1. SameCall(job'[j], nj)
    BY DEF Goes
  <2>2. Carrying(job'[j], KindOf(tb.stage))
    BY <1>3, <2>1, SameCarrying
  <2> QED BY <1>1, <2>2 DEF Flowing, Carries
<1>4. CASE \E s \in Slot : ts[s].st = "live" /\ ts[s].kind = KindOf(tb.stage)
  <2>1. PICK s \in Slot : ts[s].st = "live" /\ ts[s].kind = KindOf(tb.stage)
    BY <1>4
  <2>2. timers'[s].st = "live" /\ timers'[s].kind = KindOf(tb.stage)
    BY <2>1 DEF Goes, Alike
  <2> QED BY <1>1, <2>2 DEF Flowing, Runs
<1> QED BY <1>2, <1>3, <1>4

\* What carries the flow still does.
LEMMA FlowKept ==
  ASSUME Flowing, NEW j \in Job, NEW nj \in Calls, NEW tb \in Tables,
         NEW ts \in [Slot -> Timers], NEW moved \in BOOLEAN,
         Goes(j, nj, tb, ts, moved),
         tb.stage = table.stage, Astray => Astray', Wanted' => Wanted,
         \A s \in Slot : timers[s].st = "live" /\ timers[s].kind = KindOf(tb.stage)
           => ts[s].st = "live" /\ ts[s].kind = KindOf(tb.stage),
         Carries(j, KindOf(tb.stage)) => Carrying(nj, KindOf(tb.stage))
  PROVE  Flowing'
<1>1. table' = tb
  BY DEF Goes
<1> SUFFICES ASSUME tb.stage # "GONE", ~Astray', Wanted' PROVE Flowing'
  BY <1>1 DEF Flowing
<1>2. Runs(KindOf(tb.stage)) \/ \E i \in Job : Carries(i, KindOf(tb.stage))
  BY DEF Flowing
<1>3. CASE Runs(KindOf(tb.stage))
  <2>1. PICK s \in Slot : timers[s].st = "live" /\ timers[s].kind = KindOf(tb.stage)
    BY <1>3 DEF Runs
  <2>2. ts[s].st = "live" /\ ts[s].kind = KindOf(tb.stage)
    BY <2>1
  <2> QED BY <2>2, FlowsOn
<1>4. ASSUME NEW i \in Job, Carries(i, KindOf(tb.stage)) PROVE Flowing'
  <2>1. CASE i = j
    <3>1. Carrying(nj, KindOf(tb.stage))
      BY <1>4, <2>1
    <3> QED BY <3>1, FlowsOn
  <2>2. CASE i # j
    <3>1. SameCall(job'[i], job[i])
      BY <2>2 DEF Goes
    <3>2. Carrying(job'[i], KindOf(tb.stage))
      BY <1>4, <3>1, SameCarrying DEF Carries
    <3> QED BY <1>1, <3>2 DEF Flowing, Carries
  <2> QED BY <2>1, <2>2
<1> QED BY <1>2, <1>3, <1>4

\* The call that has moved the turn has yet to go on, or there is no turn.
LEMMA OnTimeLater ==
  ASSUME NEW j \in Job, NEW nj \in Calls, NEW tb \in Tables,
         NEW ts \in [Slot -> Timers], NEW moved \in BOOLEAN,
         Goes(j, nj, tb, ts, moved),
         Turning(nj) \/ tb.stage # "ACTION" \/ Astray' \/ tb.posted
  PROVE  OnTime'
<1>1. table' = tb /\ job'[j].at = nj.at /\ job'[j].then = nj.then
  BY DEF Goes, SameCall
<1> QED BY <1>1 DEF OnTime, Turning

\* The timers and the calls that set them are left alone.
LEMMA OnTimeKept ==
  ASSUME OnTime, NEW j \in Job, NEW nj \in Calls, NEW tb \in Tables,
         NEW ts \in [Slot -> Timers],
         Goes(j, nj, tb, ts, FALSE),
         tb.stage = "ACTION" => table.stage = "ACTION" /\ ~Turning(job[j]),
         Astray => Astray', table.posted => tb.posted,
         ~Arms(j, "action"), ~(nj.at = "arm" /\ nj.kind = "action"),
         \A s \in Slot : ts[s].st = "live" /\ ts[s].kind = "action" /\ ts[s].late /\ ts[s].mapped
           => LateTimer(s) /\ ts[s].rest = timers[s].rest,
         \A s \in Slot : timers[s].st = "live" /\ timers[s].kind = "action"
           => ts[s].st = "live" /\ ts[s].kind = "action" /\ (ts[s].mapped => timers[s].mapped)
  PROVE  OnTime'
<1>1. table' = tb /\ job'[j].at = nj.at /\ job'[j].kind = nj.kind
      /\ \A i \in Job \ {j} :
           /\ job'[i].at = job[i].at /\ job'[i].kind = job[i].kind /\ job'[i].aged = job[i].aged
           /\ job'[i].then = job[i].then
           /\ job'[i].late => job[i].late
  BY DEF Goes, SameCall
<1>2. \A s \in Slot : /\ timers'[s].st = ts[s].st /\ timers'[s].kind = ts[s].kind
                      /\ timers'[s].mapped = ts[s].mapped /\ timers'[s].rest = ts[s].rest
                      /\ timers'[s].late => ts[s].late
  BY DEF Goes, Alike
<1> SUFFICES ASSUME tb.stage = "ACTION", ~Astray', ~tb.posted, \A i \in Job : ~Turning(job'[i])
             PROVE  /\ \A s \in Slot : LateTimer(s)' => Loose' \/ \E i \in Job : Replaces(i, s)'
                    /\ \A i \in Job : Arms(i, "action")' /\ job'[i].late =>
                         Runs("action")' \/ \E h \in Job \ {i} : Arms(h, "action")'
  BY <1>1 DEF OnTime
<1>3. table.stage = "ACTION" /\ ~Astray /\ ~table.posted /\ \A i \in Job : ~Turning(job[i])
  BY <1>1 DEF Turning
<1>4. /\ \A s \in Slot : LateTimer(s) => Loose \/ \E i \in Job : Replaces(i, s)
      /\ \A i \in Job : Arms(i, "action") /\ job[i].late =>
           Runs("action") \/ \E h \in Job \ {i} : Arms(h, "action")
  BY <1>3 DEF OnTime
<1>5. \A i \in Job : (Arms(i, "action") => i # j) /\ (Arms(i, "action")' => i # j)
  BY <1>1 DEF Arms
<1>6. \A i \in Job : Arms(i, "action")' <=> Arms(i, "action")
  BY <1>1, <1>5 DEF Arms
<1>7. Loose => Loose'
  BY <1>2 DEF Loose
<1>8. Runs("action") => Runs("action")'
  BY <1>2 DEF Runs
<1>9. ASSUME NEW s \in Slot, LateTimer(s)'
      PROVE  Loose' \/ \E i \in Job : Replaces(i, s)'
  <2>1. LateTimer(s) /\ timers'[s].rest = timers[s].rest
    BY <1>2, <1>9 DEF LateTimer
  <2>2. CASE Loose
    BY <1>7, <2>2
  <2>3. ASSUME NEW i \in Job, Replaces(i, s) PROVE Replaces(i, s)'
    BY <1>1, <1>5, <1>6, <2>1, <2>3 DEF Replaces
  <2> QED BY <1>4, <2>1, <2>2, <2>3
<1>10. ASSUME NEW i \in Job, Arms(i, "action")', job'[i].late
       PROVE  Runs("action")' \/ \E h \in Job \ {i} : Arms(h, "action")'
  BY <1>1, <1>4, <1>5, <1>6, <1>8, <1>10
<1> QED BY <1>9, <1>10

\* scheduleActionTimeout: no timer in the map is live.
LEMMA OnTimeScheduled ==
  ASSUME NEW j \in Job, NEW nj \in Calls, NEW tb \in Tables,
         NEW ts \in [Slot -> Timers],
         Goes(j, nj, tb, ts, FALSE),
         nj.at = "arm", nj.kind = "action", ~nj.late,
         \A s \in Slot : ~(ts[s].st = "live" /\ ts[s].kind = "action" /\ ts[s].mapped)
  PROVE  OnTime'
<1>1. job'[j].at = "arm" /\ job'[j].kind = "action" /\ ~job'[j].late
  BY DEF Goes, SameCall
<1>2. \A s \in Slot : ~LateTimer(s)'
  BY DEF Goes, Alike, LateTimer
<1> QED BY <1>1, <1>2 DEF OnTime, Arms

\* No timer that is live goes, or the turn has not moved.
LEMMA NoneOvertaken ==
  ASSUME Typed, NEW j \in Job, NEW nj \in Calls, NEW tb \in Tables,
         NEW ts \in [Slot -> Timers], NEW moved \in BOOLEAN,
         Goes(j, nj, tb, ts, moved),
         \/ table.left <= tb.left
         \/ \A s \in Slot : timers[s].st = "live" => ts[s].st # "free"
  PROVE  InTime
<1>1. table' = tb /\ \A s \in Slot : timers'[s].st = ts[s].st
  BY DEF Goes, Alike
<1>2. tb.left \in Nat /\ table.left \in Nat
  BY NoTimeIsNone DEF Typed, Tables, Table
<1> QED BY <1>1, <1>2 DEF InTime, Overtakes

----------------------------------------------------------------------------
(* Kinds of steps *)

Kept == Expected' /\ OnTime' /\ Recording' /\ RecordsOnce /\ InTime

LEMMA StageIs ==
  ASSUME Typed
  PROVE  /\ table.stage \in Stage /\ KindOf(table.stage) \in Kind
         /\ table.stage = "ACTION" => KindOf(table.stage) = "action"
         /\ table.stage = "SETTLEMENT" => KindOf(table.stage) = "settlement"
         /\ table.stage \in {"WAITING", "GONE"} => KindOf(table.stage) = "ready"
BY DEF Typed, Tables, Table, Stage, KindOf, Kind

LEMMA TimerKinds ==
  ASSUME Typed, NEW s \in Slot
  PROVE  timers[s].kind \in Kind /\ timers[s].rest \in Nat
BY DEF Typed, Timers, Timer

\* A call goes on that carries nothing, and leaves the timers alone.
LEMMA TalksOn ==
  ASSUME Sound, NEW j \in Job, NEW nj \in Calls, NEW tb \in Tables,
         Goes(j, nj, tb, timers, FALSE),
         nj.at \in {"idle", "act", "ready", "join", "store", "save"},
         tb.stage = table.stage, tb.ends = table.ends, tb.stalled = table.stalled,
         tb.left = table.left, tb.posted = table.posted,
         job[j].at \notin {"arm", "record"}, Turning(job[j]) => table.stage # "ACTION",
         ~Carries(j, KindOf(table.stage))
  PROVE  Kept /\ (Flowing => Flowing')
<1>0. timers \in [Slot -> Timers] /\ Typed
  BY DEF Sound, Typed
<1>1. table' = tb /\ crashes' = crashes
  BY DEF Goes
<1>2. Astray' = Astray /\ Wanted' = Wanted
  <2>1. table'.ends = table.ends /\ table'.stage = table.stage /\ table'.stalled = table.stalled
        /\ table'.posted = table.posted
    BY <1>1
  <2> QED BY <1>1, <2>1 DEF Astray, Abandoned, Crossed, Wanted
<1>3. ~Records(j) /\ (\A k : ~Arms(j, k)) /\ nj.at \notin {"arm", "record", "reset"}
  BY DEF Records, Arms
<1>4. Expected'
  BY <1>0, <1>3, ExpectedKept DEF Sound
<1>5. Recording' /\ RecordsOnce
  BY <1>0, <1>3, RecordingKept DEF Sound
<1>6. InTime
  <2>1. table.left <= tb.left
    BY NoTimeIsNone DEF Sound, Typed, Tables, Table
  <2> QED BY <1>0, <2>1, NoneOvertaken
<1>7. OnTime'
  BY <1>0, <1>2, <1>3, OnTimeKept DEF Sound, LateTimer
<1>8. ASSUME Flowing PROVE Flowing'
  BY <1>0, <1>2, <1>8, FlowKept
<1> QED BY <1>4, <1>5, <1>6, <1>7, <1>8 DEF Kept

\* A call has moved the turn, or taken a player from the table.
LEMMA Turns ==
  ASSUME Sound, NEW j \in Job, NEW nj \in Calls, NEW tb \in Tables,
         NEW ts \in [Slot -> Timers], NEW moved \in BOOLEAN,
         Goes(j, nj, tb, ts, moved),
         Turning(nj), job[j].at \notin {"arm", "record"}, table.stage # "GONE",
         \A s \in Slot : ts[s].st = "dead" => timers[s].st = "dead" /\ timers[s].kind = ts[s].kind,
         \/ tb.stage = table.stage
         \/ tb.stage = "GONE"
         \/ table.stage = "WAITING" /\ tb.stage = "ACTION"
         \/ table.stage = "ACTION" /\ tb.stage = "SETTLEMENT"
  PROVE  Expected' /\ OnTime' /\ Recording' /\ RecordsOnce
<1>1. ~Records(j) /\ (\A k : ~Arms(j, k)) /\ nj.at \notin {"arm", "record", "reset"}
  BY DEF Records, Arms, Turning
<1>2. Expected'
  BY <1>1, ExpectedKept DEF Sound
<1>3. Recording' /\ RecordsOnce
  BY <1>1, RecordingKept DEF Sound
<1>4. OnTime'
  BY OnTimeLater
<1> QED BY <1>2, <1>3, <1>4

\* A call is about to set a timer of kind k, whose entry has been cleared.
LEMMA Schedules ==
  ASSUME Sound, NEW j \in Job, NEW nj \in Calls, NEW tb \in Tables,
         NEW ts \in [Slot -> Timers],
         Goes(j, nj, tb, ts, FALSE),
         nj.at = "arm",
         tb.stage = table.stage, tb.left = table.left, tb.ends[nj.kind] # NoTime,
         job[j].at \notin {"arm", "record"}, table.stage # "GONE",
         \A s \in Slot : ts[s].st = "dead" =>
           ts[s].kind = nj.kind \/ (timers[s].st = "dead" /\ timers[s].kind = ts[s].kind)
  PROVE  /\ Expected' /\ Recording' /\ RecordsOnce /\ InTime
         /\ nj.kind = KindOf(table.stage) => Flowing'
         /\ nj.kind # "action" /\ table.stage = "ACTION" => Astray'
<1>1. ~Records(j) /\ \A x : ~Arms(j, x)
  BY DEF Records, Arms
<1>2. Expected'
  BY <1>1, ExpectedKept DEF Sound
<1>3. Recording' /\ RecordsOnce
  BY <1>1, RecordingKept DEF Sound
<1>4. InTime
  <2>1. table.left <= tb.left
    BY NoTimeIsNone DEF Sound, Typed, Tables, Table
  <2> QED BY <2>1, NoneOvertaken DEF Sound
<1>5. ASSUME nj.kind = KindOf(table.stage) PROVE Flowing'
  BY <1>5, FlowsOn DEF Carrying
<1>6. ASSUME nj.kind # "action", table.stage = "ACTION" PROVE Astray'
  <2>1. table' = tb
    BY DEF Goes
  <2>2. nj.kind \in Kind
    BY DEF Calls, Jobs
  <2> QED BY <1>6, <2>1, <2>2 DEF Astray, Crossed
<1> QED BY <1>2, <1>3, <1>4, <1>5, <1>6

LEMMA ActionTimeoutScheduled ==
  ASSUME Sound, NEW j \in Job, NEW then \in Thens,
         ScheduleActionTimeout(j, then, table, timers), crashes' = crashes,
         job[j].at \notin {"arm", "record"}, table.stage # "GONE"
  PROVE  /\ StaysTyped /\ Kept
         /\ table.stage = "ACTION" => Flowing'
         /\ ~Carries(j, KindOf(table.stage)) /\ Flowing => Flowing'
<1>1. table \in Tables /\ table \in Table /\ timers \in [Slot -> Timers] /\ Typed
  BY DEF Sound, Typed, Tables
<1>2. "action" \in Kind /\ "arm" \notin Thens
  BY DEF Kind, Thens
<1>3. CASE table.stage = "ACTION"
  <2>1. PICK tb : tb = Begin(table, "action", ActionTicks)
    OBVIOUS
  <2>2. PICK ts : ts = ClearTimer(timers, "action")
    OBVIOUS
  <2>3. PICK nj : nj = Arming("action", ActionTicks, then, tb)
    OBVIOUS
  <2>4. tb \in Tables /\ tb.stage = table.stage /\ tb.left = table.left /\ tb.ends["action"] # NoTime
    BY <1>1, <1>2, <2>1, BeginIs, NoTimeIsNone
  <2>5. /\ ts \in [Slot -> Timers]
        /\ \A s \in Slot : /\ Entry(timers, "action", s) => ts[s].st = "dead" /\ ts[s].kind = "action"
                           /\ ~Entry(timers, "action", s) => ts[s] = timers[s]
    BY <1>1, <1>2, <2>2, ClearIs
  <2>6. nj \in Calls /\ nj.at = "arm" /\ nj.kind = "action" /\ ~nj.late
    BY <1>2, <2>3, <2>4, ArmingIs, NoTimeIsNone, TurnAssumption
  <2>7. Step(j, nj, tb, ts, FALSE)
    BY <1>3, <2>1, <2>2, <2>3 DEF ScheduleActionTimeout
  <2>8. Goes(j, nj, tb, ts, FALSE) /\ StaysTyped
    BY <1>1, <2>4, <2>5, <2>6, <2>7, StepGoes
  <2>9. Expected' /\ Recording' /\ RecordsOnce /\ InTime /\ Flowing'
    <3>1. KindOf(table.stage) = "action"
      BY <1>1, <1>3, StageIs
    <3>2. \A s \in Slot : ts[s].st = "dead" =>
            ts[s].kind = "action" \/ (timers[s].st = "dead" /\ timers[s].kind = ts[s].kind)
      BY <2>5
    <3>3. tb.ends[nj.kind] # NoTime
      BY <2>4, <2>6
    <3>4. \A s \in Slot : ts[s].st = "dead" =>
            ts[s].kind = nj.kind \/ (timers[s].st = "dead" /\ timers[s].kind = ts[s].kind)
      BY <2>6, <3>2
    <3>5. tb \in Tables /\ tb.stage = table.stage /\ tb.left = table.left
      BY <2>4
    <3> QED BY <2>5, <2>6, <2>8, <3>1, <3>3, <3>4, <3>5, Schedules
  <2>10. OnTime'
    <3>1. \A s \in Slot : ~(ts[s].st = "live" /\ ts[s].kind = "action" /\ ts[s].mapped)
      BY <2>5 DEF Entry
    <3> QED BY <2>4, <2>5, <2>6, <2>8, <3>1, OnTimeScheduled
  <2> QED BY <2>8, <2>9, <2>10 DEF Kept
<1>4. CASE table.stage # "ACTION"
  <2>1. PICK tb : tb = [table EXCEPT !.ends.action = NoTime]
    OBVIOUS
  <2>2. PICK ts : ts = DeleteEntry(ClearTimer(timers, "action"), "action")
    OBVIOUS
  <2>3. PICK nj : nj = GoOn(then)
    OBVIOUS
  <2>4. /\ tb \in Tables /\ tb.stage = table.stage /\ tb.left = table.left
        /\ tb.stalled = table.stalled /\ tb.posted = table.posted /\ tb.ends.action = NoTime
        /\ \A k \in Kind \ {"action"} : tb.ends[k] = table.ends[k]
    <3>1. PICK ends : ends = [table.ends EXCEPT !.action = NoTime]
      OBVIOUS
    <3>2. /\ ends \in [Kind -> Nat \cup {NoTime}] /\ ends.action = NoTime
          /\ \A k \in Kind \ {"action"} : ends[k] = table.ends[k]
      BY <1>1, <1>2, <3>1 DEF Table
    <3>3. tb = [table EXCEPT !.ends = ends]
      BY <2>1, <3>1
    <3>4. tb \in Table /\ tb.ends = ends /\ tb.stage = table.stage /\ tb.left = table.left
          /\ tb.stalled = table.stalled /\ tb.live = table.live /\ tb.posted = table.posted
      BY <1>1, <3>2, <3>3 DEF Table
    <3> QED BY <1>1, <3>2, <3>4 DEF Tables, Dealt
  <2>5. /\ ts \in [Slot -> Timers]
        /\ \A s \in Slot : /\ Entry(timers, "action", s) => ts[s] = Free
                           /\ ~Entry(timers, "action", s) => ts[s] = timers[s]
    BY <1>1, <1>2, <2>2, ClearedAndDeleted
  <2>6. nj \in Calls /\ nj.at \in Thens /\ ~nj.late
    BY <2>3, GoOnIs
  <2>7. Step(j, nj, tb, ts, FALSE)
    BY <1>4, <2>1, <2>2, <2>3 DEF ScheduleActionTimeout
  <2>8. Goes(j, nj, tb, ts, FALSE) /\ StaysTyped
    BY <1>1, <2>4, <2>5, <2>6, <2>7, StepGoes
  <2>9. ~Records(j) /\ (\A k : ~Arms(j, k)) /\ nj.at \notin {"arm", "record", "reset"}
    BY <2>6 DEF Records, Arms, Thens
  <2>10. Expected'
    <3>1. \A s \in Slot : ts[s].st = "dead" => ts[s] = timers[s]
      BY <2>5, FreeIs
    <3> QED BY <2>4, <2>5, <2>6, <2>8, <2>9, <3>1, ExpectedKept DEF Sound
  <2>11. Recording' /\ RecordsOnce
    BY <2>4, <2>5, <2>6, <2>8, <2>9, RecordingKept DEF Sound
  <2>12. InTime
    <3>1. table.left <= tb.left
      BY <1>1, <2>4, NoTimeIsNone DEF Table
    <3> QED BY <1>1, <2>4, <2>5, <2>6, <2>8, <3>1, NoneOvertaken
  <2>13. OnTime'
    BY <1>4, <2>4, <2>5, <2>6, <2>8, OnTimeLater
  <2>14. ASSUME ~Carries(j, KindOf(table.stage)), Flowing PROVE Flowing'
    <3>1. KindOf(table.stage) \in Kind \ {"action"}
      BY <1>1, <1>4, StageIs DEF Stage
    <3>2. table' = tb /\ crashes' = crashes
      BY <2>8 DEF Goes
    <3>3. Wanted' => Wanted
      BY <2>4, <3>1, <3>2 DEF Wanted
    <3>4. Astray => Astray'
      BY <1>4, <2>4, <3>2 DEF Astray, Abandoned, Crossed
    <3>5. \A s \in Slot : timers[s].st = "live" /\ timers[s].kind = KindOf(tb.stage)
            => ts[s].st = "live" /\ ts[s].kind = KindOf(tb.stage)
      BY <2>4, <2>5, <3>1 DEF Entry
    <3> QED BY <2>4, <2>5, <2>6, <2>8, <2>14, <3>3, <3>4, <3>5, FlowKept
  <2> QED BY <1>4, <2>8, <2>10, <2>11, <2>12, <2>13, <2>14 DEF Kept
<1> QED BY <1>3, <1>4

LEMMA PostHandFlowScheduled ==
  ASSUME Sound, NEW j \in Job, NEW then \in Thens,
         SchedulePostHandFlow(j, then, table, timers), crashes' = crashes,
         job[j].at \notin {"arm", "record"}, table.stage # "GONE"
  PROVE  StaysTyped /\ Kept /\ Flowing'
<1>1. table \in Tables /\ timers \in [Slot -> Timers] /\ Typed
  BY DEF Sound, Typed
<1>2. "settlement" \in Kind /\ table.stage \in Stage
  BY <1>1, StageIs DEF Kind
<1>0. PICK k \in Kind : k = "settlement"
  BY <1>2
<1>3. PICK tb : tb = Begin(table, k, SettlementTicks)
  OBVIOUS
<1>4. PICK ts : ts = ClearRoundTimers(timers)
  OBVIOUS
<1>5. PICK nj : nj = Arming("settlement", SettlementTicks, then, tb)
  OBVIOUS
<1>6. /\ tb \in Tables /\ tb.stage = table.stage /\ tb.left = table.left
      /\ tb.ends[k] # NoTime
      /\ \A x \in Kind \ {k} : tb.ends[x] = NoTime
  BY <1>0, <1>1, <1>3, BeginIs, NoTimeIsNone
<1>7. /\ ts \in [Slot -> Timers]
      /\ \A s \in Slot : ts[s] = IF timers[s].mapped THEN Free ELSE timers[s]
  BY <1>1, <1>4, RoundIs
<1>8. nj \in Calls /\ nj.at = "arm" /\ nj.kind = "settlement"
  BY <1>2, <1>5, <1>6, ArmingIs, NoTimeIsNone
<1>9. Goes(j, nj, tb, ts, FALSE) /\ StaysTyped
  <2>1. Step(j, nj, tb, ts, FALSE)
    BY <1>0, <1>3, <1>4, <1>5 DEF SchedulePostHandFlow
  <2> QED BY <1>1, <1>6, <1>7, <1>8, <2>1, StepGoes
<1>10. /\ Expected' /\ Recording' /\ RecordsOnce /\ InTime
       /\ nj.kind = KindOf(table.stage) => Flowing'
       /\ nj.kind # "action" /\ table.stage = "ACTION" => Astray'
  <2>1. \A s \in Slot : ts[s].st = "dead" =>
          ts[s].kind = nj.kind \/ (timers[s].st = "dead" /\ timers[s].kind = ts[s].kind)
    BY <1>7, FreeIs
  <2>2. tb.ends[nj.kind] # NoTime
    BY <1>0, <1>6, <1>8
  <2>3. tb \in Tables /\ tb.stage = table.stage /\ tb.left = table.left
    BY <1>6
  <2> QED BY <1>7, <1>8, <1>9, <2>1, <2>2, <2>3, Schedules
<1>11. OnTime'
  <2>1. tb.stage # "ACTION" \/ Astray'
    BY <1>6, <1>8, <1>10
  <2> QED BY <1>6, <1>7, <1>8, <1>9, <2>1, OnTimeLater
<1>12. Flowing'
  <2>1. CASE table.stage = "SETTLEMENT"
    BY <1>1, <1>8, <1>10, <2>1, StageIs
  <2>2. CASE table.stage = "ACTION"
    <3>1. Astray'
      BY <1>8, <1>10, <2>2
    <3> QED BY <1>6, <1>7, <1>8, <1>9, <3>1, FlowsOn
  <2>3. CASE table.stage = "WAITING"
    <3>1. table' = tb
      BY <1>9 DEF Goes
    <3>2. KindOf(tb.stage) = "ready" /\ "ready" \in Kind \ {"settlement"}
      BY <1>1, <1>6, <2>3, StageIs DEF Kind
    <3>3. ~Wanted'
      BY <1>0, <1>6, <2>3, <3>1, <3>2 DEF Wanted
    <3> QED BY <1>6, <1>7, <1>8, <1>9, <3>3, FlowsOn
  <2> QED BY <1>2, <2>1, <2>2, <2>3 DEF Stage
<1> QED BY <1>9, <1>10, <1>11, <1>12 DEF Kept

LEMMA AutoStartScheduled ==
  ASSUME Sound, NEW j \in Job, NEW then \in Thens, NEW ticks \in Nat,
         ScheduleAutoStart(j, then, ticks, table, timers), crashes' = crashes,
         job[j].at \in {"ready", "reset"}, table.stage # "GONE"
  PROVE  StaysTyped /\ Kept /\ (Flowing => Flowing')
<1>1. table \in Tables /\ timers \in [Slot -> Timers] /\ Typed
  BY DEF Sound, Typed
<1>2. "ready" \in Kind /\ table.stage \in Stage
  BY <1>1, StageIs DEF Kind
<1>0. PICK k \in Kind : k = "ready"
  BY <1>2
<1>3. PICK tb : tb = Begin(table, k, ticks)
  OBVIOUS
<1>4. PICK ts : ts = ClearTimer(timers, "ready")
  OBVIOUS
<1>5. PICK nj : nj = Arming("ready", ticks, then, tb)
  OBVIOUS
<1>6. /\ tb \in Tables /\ tb.stage = table.stage /\ tb.left = table.left
      /\ tb.ends[k] # NoTime /\ (tb.posted <=> table.posted /\ k # KindOf(table.stage))
      /\ \A x \in Kind \ {k} : tb.ends[x] = NoTime
  BY <1>0, <1>1, <1>3, BeginIs, NoTimeIsNone
<1>7. /\ ts \in [Slot -> Timers]
      /\ \A s \in Slot : /\ Entry(timers, "ready", s) => ts[s].st = "dead" /\ ts[s].kind = "ready"
                         /\ ~Entry(timers, "ready", s) => ts[s] = timers[s]
  BY <1>1, <1>2, <1>4, ClearIs
<1>8. nj \in Calls /\ nj.at = "arm" /\ nj.kind = "ready"
  BY <1>2, <1>5, <1>6, ArmingIs, NoTimeIsNone
<1>9. Goes(j, nj, tb, ts, FALSE) /\ StaysTyped
  <2>1. Step(j, nj, tb, ts, FALSE)
    BY <1>0, <1>3, <1>4, <1>5 DEF ScheduleAutoStart
  <2> QED BY <1>1, <1>6, <1>7, <1>8, <2>1, StepGoes
<1>10. /\ Expected' /\ Recording' /\ RecordsOnce /\ InTime
       /\ nj.kind = KindOf(table.stage) => Flowing'
       /\ nj.kind # "action" /\ table.stage = "ACTION" => Astray'
  <2>1. \A s \in Slot : ts[s].st = "dead" =>
          ts[s].kind = nj.kind \/ (timers[s].st = "dead" /\ timers[s].kind = ts[s].kind)
    BY <1>7, <1>8
  <2>2. tb.ends[nj.kind] # NoTime
    BY <1>0, <1>6, <1>8
  <2>3. tb \in Tables /\ tb.stage = table.stage /\ tb.left = table.left
    BY <1>6
  <2> QED BY <1>7, <1>8, <1>9, <2>1, <2>2, <2>3, Schedules
<1>11. OnTime'
  <2>1. tb.stage # "ACTION" \/ Astray'
    BY <1>6, <1>8, <1>10
  <2> QED BY <1>6, <1>7, <1>8, <1>9, <2>1, OnTimeLater
<1>12. ASSUME Flowing PROVE Flowing'
  <2>1. CASE table.stage = "WAITING"
    BY <1>1, <1>8, <1>10, <2>1, StageIs
  <2>2. CASE table.stage = "ACTION"
    <3>1. Astray'
      BY <1>8, <1>10, <2>2
    <3> QED BY <1>6, <1>7, <1>8, <1>9, <3>1, FlowsOn
  <2>3. CASE table.stage = "SETTLEMENT"
    <3>1. table' = tb /\ crashes' = crashes
      BY <1>9 DEF Goes
    <3>2. KindOf(tb.stage) = "settlement" /\ "settlement" \in Kind \ {"ready"}
      BY <1>1, <1>6, <2>3, StageIs DEF Kind
    <3>3. Wanted' => Wanted
      BY <1>0, <1>6, <2>3, <3>1, <3>2 DEF Wanted
    <3>4. Astray => Astray'
      <4>1. Astray => table.posted
        BY <1>1, <2>3 DEF Astray, Abandoned, Crossed, Tables, Dealt
      <4>2. table.posted => tb.posted
        BY <1>0, <1>6, <3>2
      <4> QED BY <1>6, <2>3, <3>1, <4>1, <4>2 DEF Astray, Abandoned
    <3>5. \A s \in Slot : timers[s].st = "live" /\ timers[s].kind = KindOf(tb.stage)
            => ts[s].st = "live" /\ ts[s].kind = KindOf(tb.stage)
      BY <1>7, <3>2 DEF Entry
    <3>6. ~Carries(j, KindOf(tb.stage))
      BY <3>2 DEF Carries, Carrying, Turning
    <3> QED BY <1>6, <1>7, <1>8, <1>9, <1>12, <3>3, <3>4, <3>5, <3>6, FlowKept
  <2> QED BY <1>2, <2>1, <2>2, <2>3 DEF Stage
<1> QED BY <1>9, <1>10, <1>11, <1>12 DEF Kept

\* The room is gone, or goes.
LEMMA Dissolved ==
  ASSUME Sound, NEW j \in Job, NEW nj \in Calls, NEW tb \in Tables,
         NEW ts \in [Slot -> Timers], NEW moved \in BOOLEAN,
         Goes(j, nj, tb, ts, moved),
         tb.stage = "GONE", tb.left = table.left, nj.at \notin {"record", "reset"}
  PROVE  Kept /\ Flowing'
<1>1. Expected'
  BY ExpectedKept DEF Sound
<1>2. Recording' /\ RecordsOnce
  BY RecordingKept DEF Sound
<1>3. OnTime'
  BY OnTimeLater
<1>4. InTime
  <2>1. table.left <= tb.left
    BY NoTimeIsNone DEF Sound, Typed, Tables, Table
  <2> QED BY <2>1, NoneOvertaken DEF Sound
<1>5. Flowing'
  BY FlowsOn
<1> QED BY <1>1, <1>2, <1>3, <1>4, <1>5 DEF Kept

----------------------------------------------------------------------------
(* The timer is set, and the table reset *)

LEMMA CallIs ==
  ASSUME Typed, NEW j \in Job
  PROVE  /\ job[j] \in Calls /\ job[j].at \in At /\ job[j].kind \in Kind
         /\ job[j].then \in IF job[j].at = "left" THEN {"leaving", "save"} ELSE Thens
         /\ job[j].rest \in Nat /\ job[j].late \in BOOLEAN /\ job[j].next \in Stage
         /\ job[j].aged \in BOOLEAN /\ job[j].snap \in Tables
         /\ job[j].at = "timedOut" => job[j].next \in {"ACTION", "SETTLEMENT"}
         /\ job[j].at = "arm" /\ job[j].kind = "action" => job[j].rest > 1
<1>1. PICK c \in Calls : c = job[j]
  BY DEF Typed
<1> QED BY <1>1 DEF Calls, Jobs

LEMMA OnTimeArmed ==
  ASSUME Typed, OnTime, NEW j \in Job, NEW nj \in Calls, NEW tb \in Tables,
         NEW ts \in [Slot -> Timers], NEW x \in Slot,
         Goes(j, nj, tb, ts, FALSE), tb = table,
         Arms(j, "action"), nj.at \in Thens,
         timers[x].st # "live", ts[x].st = "live", ts[x].kind = "action", ts[x].mapped,
         ts[x].late => job[j].late, ts[x].rest > 1,
         \A s \in Slot \ {x} :
           /\ ~Entry(timers, "action", s) => ts[s] = timers[s]
           /\ Entry(timers, "action", s) /\ timers[s].st # "dead" =>
                ts[s].st = timers[s].st /\ ts[s].kind = "action" /\ ~ts[s].mapped
           /\ Entry(timers, "action", s) /\ timers[s].st = "dead" => ts[s] = Free
  PROVE  OnTime'
<1>1. table' = table /\ job'[j].at \in Thens
      /\ \A i \in Job \ {j} :
           /\ job'[i].at = job[i].at /\ job'[i].kind = job[i].kind /\ job'[i].aged = job[i].aged
           /\ job'[i].then = job[i].then
           /\ job'[i].late => job[i].late
  BY DEF Goes, SameCall
<1>2. \A s \in Slot : /\ timers'[s].st = ts[s].st /\ timers'[s].kind = ts[s].kind
                      /\ timers'[s].mapped = ts[s].mapped /\ timers'[s].rest = ts[s].rest
                      /\ timers'[s].late => ts[s].late
  BY DEF Goes, Alike
<1>3. Astray' = Astray
  BY <1>1 DEF Astray, Abandoned, Crossed
<1> SUFFICES ASSUME table.stage = "ACTION", ~Astray, ~table.posted, \A i \in Job : ~Turning(job'[i])
             PROVE  /\ \A s \in Slot : LateTimer(s)' => Loose' \/ \E i \in Job : Replaces(i, s)'
                    /\ \A i \in Job : Arms(i, "action")' /\ job'[i].late =>
                         Runs("action")' \/ \E h \in Job \ {i} : Arms(h, "action")'
  BY <1>1, <1>3 DEF OnTime
<1>4. \A i \in Job : ~Turning(job[i])
  BY <1>1 DEF Arms, Turning
<1>5. \A i \in Job : Arms(i, "action") /\ job[i].late =>
        Runs("action") \/ \E h \in Job \ {i} : Arms(h, "action")
  BY <1>4 DEF OnTime
<1>6. ASSUME NEW s \in Slot, LateTimer(s)'
      PROVE  Loose' \/ \E i \in Job : Replaces(i, s)'
  <2>1. ts[s].st = "live" /\ ts[s].kind = "action" /\ ts[s].late /\ ts[s].mapped
    BY <1>2, <1>6 DEF LateTimer
  <2>2. s = x
    <3>1. ASSUME s # x PROVE FALSE
      <4>1. ~Entry(timers, "action", s)
        BY <2>1, <3>1, FreeIs
      <4> QED BY <2>1, <3>1, <4>1 DEF Entry
    <3> QED BY <3>1
  <2>3. Runs("action") \/ \E h \in Job \ {j} : Arms(h, "action")
    BY <1>5, <2>1, <2>2
  <2>4. CASE Runs("action")
    <3>1. PICK t \in Slot : timers[t].st = "live" /\ timers[t].kind = "action"
      BY <2>4 DEF Runs
    <3>2. ts[t].st = "live" /\ ts[t].kind = "action" /\ ~ts[t].mapped
      <4>1. t # x
        BY <3>1
      <4>2. CASE Entry(timers, "action", t)
        BY <3>1, <4>1, <4>2
      <4>3. CASE ~Entry(timers, "action", t)
        BY <3>1, <4>1, <4>3 DEF Entry
      <4> QED BY <4>2, <4>3
    <3> QED BY <1>2, <3>2 DEF Loose
  <2>5. ASSUME NEW h \in Job \ {j}, Arms(h, "action") PROVE Replaces(h, s)'
    <3>1. ts[x].rest \in Nat
      BY DEF Timers, Timer
    <3>2. timers'[s].rest > 1 /\ timers'[s].rest \in Nat
      BY <1>2, <2>2, <3>1
    <3> QED BY <1>1, <2>5, <3>2 DEF Replaces, Arms
  <2> QED BY <2>3, <2>4, <2>5
<1>7. ASSUME NEW i \in Job, Arms(i, "action")'
      PROVE  Runs("action")'
  BY <1>2 DEF Runs
<1> QED BY <1>6, <1>7

LEMMA Armed ==
  ASSUME Sound, NEW j \in Job, table.stage # "GONE", Arm(j)
  PROVE  StaysTyped /\ Kept /\ (Flowing => Flowing')
<1>0. PICK tb : tb = table
  OBVIOUS
<1>1. tb \in Tables /\ timers \in [Slot -> Timers] /\ Typed
  BY <1>0 DEF Sound, Typed
<1>2. PICK k \in Kind : k = job[j].kind
  BY <1>1, CallIs
<1>3. PICK rest \in Nat : rest = job[j].rest
  BY <1>1, CallIs
<1>4. PICK late \in BOOLEAN : late = job[j].late
  BY <1>1, CallIs
<1>5. PICK then \in Thens : then = job[j].then
  BY <1>1, CallIs DEF Arm
<1>6. job[j].at = "arm" /\ FreeSlots(timers, k) # {} /\ crashes' = crashes
  BY <1>2 DEF Arm, Continues
<1>7. PICK ts : ts = SetTimer(timers, k, rest, late)
  OBVIOUS
<1>8. PICK nj : nj = GoOn(then)
  OBVIOUS
<1>9. nj \in Calls /\ nj.at \in Thens
  BY <1>8, GoOnIs
<1>10. /\ ts \in [Slot -> Timers]
       /\ \E x \in Slot :
            /\ timers[x].st = "free" \/ (Entry(timers, k, x) /\ timers[x].st = "dead")
            /\ ts[x].st = "live" /\ ts[x].kind = k /\ ts[x].mapped
            /\ ts[x].late = late /\ ts[x].rest = rest
            /\ \A s \in Slot \ {x} :
                 /\ ~Entry(timers, k, s) => ts[s] = timers[s]
                 /\ Entry(timers, k, s) /\ timers[s].st = "dead" => ts[s] = Free
                 /\ Entry(timers, k, s) /\ timers[s].st # "dead" =>
                      ts[s].st = timers[s].st /\ ts[s].kind = k /\ ~ts[s].mapped
  BY <1>1, <1>6, <1>7, SetIs
<1>11. PICK x \in Slot :
            /\ timers[x].st = "free" \/ (Entry(timers, k, x) /\ timers[x].st = "dead")
            /\ ts[x].st = "live" /\ ts[x].kind = k /\ ts[x].mapped
            /\ ts[x].late = late /\ ts[x].rest = rest
            /\ \A s \in Slot \ {x} :
                 /\ ~Entry(timers, k, s) => ts[s] = timers[s]
                 /\ Entry(timers, k, s) /\ timers[s].st = "dead" => ts[s] = Free
                 /\ Entry(timers, k, s) /\ timers[s].st # "dead" =>
                      ts[s].st = timers[s].st /\ ts[s].kind = k /\ ~ts[s].mapped
  BY <1>10
<1>12. timers[x].st # "live"
  BY <1>11
<1>13. Goes(j, nj, tb, ts, FALSE) /\ StaysTyped
  <2>1. Step(j, nj, tb, ts, FALSE)
    BY <1>0, <1>2, <1>3, <1>4, <1>5, <1>7, <1>8 DEF Arm
  <2> QED BY <1>1, <1>6, <1>9, <1>10, <2>1, StepGoes
<1>14. Arms(j, k) /\ ~Records(j) /\ (\A y : Arms(j, y) => y = k)
       /\ nj.at \notin {"arm", "record", "reset"} /\ ~Turning(nj)
  BY <1>2, <1>6, <1>9 DEF Arms, Records, Thens, Turning
<1>15. Expected'
  <2>1. ASSUME NEW s \in Slot, ts[s].st = "dead"
        PROVE  /\ timers[s].st = "dead" /\ timers[s].kind = ts[s].kind
               /\ ~Arms(j, timers[s].kind)
    <3>1. s # x /\ ~Entry(timers, k, s)
      BY <1>11, <2>1, FreeIs
    <3>2. ts[s] = timers[s] /\ timers[s].mapped
      BY <1>1, <1>11, <2>1, <3>1 DEF Timers
    <3> QED BY <1>14, <2>1, <3>1, <3>2 DEF Entry
  <2> QED BY <1>0, <1>1, <1>9, <1>10, <1>13, <2>1, ExpectedKept DEF Sound
<1>16. Recording' /\ RecordsOnce
  BY <1>0, <1>1, <1>9, <1>10, <1>13, <1>14, RecordingKept DEF Sound
<1>17. \A s \in Slot : timers[s].st = "live" => s # x /\ ts[s].st = "live" /\ ts[s].kind = timers[s].kind
  <2>1. ASSUME NEW s \in Slot, timers[s].st = "live"
        PROVE  s # x /\ ts[s].st = "live" /\ ts[s].kind = timers[s].kind
    <3>1. s # x
      BY <1>12, <2>1
    <3>2. CASE Entry(timers, k, s)
      BY <1>11, <2>1, <3>1, <3>2 DEF Entry
    <3>3. CASE ~Entry(timers, k, s)
      BY <1>11, <2>1, <3>1, <3>3
    <3> QED BY <3>1, <3>2, <3>3
  <2> QED BY <2>1
<1>18. InTime
  BY <1>1, <1>9, <1>10, <1>13, <1>17, NoneOvertaken
<1>19. OnTime'
  <2>1. CASE k = "action"
    <3>1. rest > 1 /\ Arms(j, "action")
      BY <1>1, <1>2, <1>3, <1>6, <1>14, <2>1, CallIs
    <3>2. /\ ts[x].st = "live" /\ ts[x].kind = "action" /\ ts[x].mapped
          /\ ts[x].late => job[j].late
          /\ ts[x].rest > 1
      BY <1>4, <1>11, <2>1, <3>1
    <3>3. \A s \in Slot \ {x} :
            /\ ~Entry(timers, "action", s) => ts[s] = timers[s]
            /\ Entry(timers, "action", s) /\ timers[s].st # "dead" =>
                 ts[s].st = timers[s].st /\ ts[s].kind = "action" /\ ~ts[s].mapped
            /\ Entry(timers, "action", s) /\ timers[s].st = "dead" => ts[s] = Free
      BY <1>11, <2>1
    <3>4. OnTime
      BY DEF Sound
    <3> QED BY <1>0, <1>1, <1>9, <1>10, <1>12, <1>13, <3>1, <3>2, <3>3, <3>4, OnTimeArmed
  <2>2. CASE k # "action"
    <3>1. ~Arms(j, "action") /\ ~Turning(job[j])
      BY <1>6, <1>14, <2>2 DEF Turning
    <3>2. \A s \in Slot : ts[s].st = "live" /\ ts[s].kind = "action" => ts[s] = timers[s]
      <4>1. ASSUME NEW s \in Slot, ts[s].st = "live", ts[s].kind = "action" PROVE ts[s] = timers[s]
        <5>1. s # x
          BY <1>11, <2>2, <4>1
        <5>2. ~Entry(timers, k, s)
          BY <1>11, <2>2, <4>1, <5>1, FreeIs
        <5> QED BY <1>11, <5>1, <5>2
      <4> QED BY <4>1
    <3>3. \A s \in Slot : ts[s].st = "live" /\ ts[s].kind = "action" /\ ts[s].late /\ ts[s].mapped
            => LateTimer(s) /\ ts[s].rest = timers[s].rest
      BY <3>2 DEF LateTimer
    <3>4. \A s \in Slot : timers[s].st = "live" /\ timers[s].kind = "action"
            => ts[s].st = "live" /\ ts[s].kind = "action" /\ (ts[s].mapped => timers[s].mapped)
      BY <1>17, <3>2
    <3>5. Astray => Astray'
      BY <1>0, <1>13 DEF Goes, Astray, Abandoned, Crossed
    <3>6. OnTime
      BY DEF Sound
    <3> QED BY <1>0, <1>1, <1>9, <1>10, <1>13, <1>14, <3>1, <3>3, <3>4, <3>5, <3>6, OnTimeKept
  <2> QED BY <2>1, <2>2
<1>20. ASSUME Flowing PROVE Flowing'
  <2>1. CASE k = KindOf(table.stage)
    BY <1>0, <1>1, <1>9, <1>10, <1>11, <1>13, <2>1, FlowsOn
  <2>2. CASE k # KindOf(table.stage)
    <3>1. table' = table /\ crashes' = crashes
      BY <1>0, <1>13 DEF Goes
    <3>2. Astray' = Astray /\ Wanted' = Wanted
      BY <3>1 DEF Astray, Abandoned, Crossed, Wanted
    <3>3. ~Carries(j, KindOf(table.stage))
      BY <1>2, <1>6, <2>2 DEF Carries, Carrying, Turning
    <3>4. ~Carries(j, KindOf(tb.stage)) /\ tb.stage = table.stage
      BY <1>0, <3>3
    <3>5. \A s \in Slot : timers[s].st = "live" /\ timers[s].kind = KindOf(tb.stage)
            => ts[s].st = "live" /\ ts[s].kind = KindOf(tb.stage)
      BY <1>17
    <3> QED BY <1>1, <1>9, <1>10, <1>13, <1>20, <3>2, <3>4, <3>5, FlowKept
  <2> QED BY <2>1, <2>2
<1> QED BY <1>13, <1>15, <1>16, <1>18, <1>19, <1>20 DEF Kept

LEMMA ResetToWaiting ==
  ASSUME Sound, NEW j \in Job, table.stage # "GONE", Recorded(j)
  PROVE  StaysTyped /\ Kept /\ Flowing'
<1>1. timers \in [Slot -> Timers] /\ Typed
  BY DEF Sound, Typed
<1>2. PICK tb : tb = NewTable
  OBVIOUS
<1>3. PICK then \in Thens : then = job[j].then
  BY <1>1, CallIs DEF Recorded
<1>4. PICK nj : nj = Writing("reset", then, "WAITING", tb)
  OBVIOUS
<1>5. tb \in Tables /\ tb.stage = "WAITING" /\ tb.ends["ready"] = NoTime
  BY <1>2, NewTableIs DEF Kind
<1>6. nj \in Calls /\ nj.at = "reset"
  BY <1>4, <1>5, WritingIs DEF At, Stage
<1>7. job[j].at = "record" /\ crashes' = crashes /\ Step(j, nj, tb, timers, FALSE)
  BY <1>2, <1>3, <1>4 DEF Recorded, Continues
<1>8. Goes(j, nj, tb, timers, FALSE) /\ StaysTyped
  BY <1>1, <1>5, <1>6, <1>7, StepGoes
<1>9. Records(j) /\ \A k : ~Arms(j, k)
  BY <1>7 DEF Records, Arms
<1>10. Expected'
  BY <1>1, <1>5, <1>6, <1>8, <1>9, ExpectedKept DEF Sound
<1>11. Recording' /\ RecordsOnce
  BY <1>1, <1>5, <1>6, <1>8, <1>9, RecordingKept DEF Sound
<1>12. OnTime'
  BY <1>1, <1>5, <1>6, <1>8, OnTimeLater
<1>13. InTime
  BY <1>1, <1>5, <1>6, <1>8, NoneOvertaken
<1>14. Flowing'
  <2>1. table' = tb
    BY <1>8 DEF Goes
  <2>2. ~Wanted'
    BY <1>5, <2>1 DEF Wanted, KindOf
  <2> QED BY <1>1, <1>5, <1>6, <1>8, <2>2, FlowsOn
<1> QED BY <1>8, <1>10, <1>11, <1>12, <1>13, <1>14 DEF Kept

----------------------------------------------------------------------------
(* A countdown has run out *)

\* What the callback, or a call that finds the deadline passed, has made of the timers.
RunOut(ts, k) ==
  /\ \A s \in Slot : ts[s].st = "dead" => timers[s].st = "dead" /\ timers[s].kind = ts[s].kind
  /\ k = "action" => Excused \/ \A s \in Slot : timers[s].st = "live" /\ timers[s].late
                                                  => ts[s].st # "free"

LEMMA ExcusedInTime ==
  ASSUME NEW j \in Job, NEW nj \in Calls, NEW tb \in Tables,
         NEW ts \in [Slot -> Timers], NEW moved \in BOOLEAN,
         Goes(j, nj, tb, ts, moved),
         Excused \/ \A s \in Slot : timers[s].st = "live" /\ timers[s].late => ts[s].st # "free"
  PROVE  InTime
<1>1. \A s \in Slot : timers'[s].st = ts[s].st
  BY DEF Goes, Alike
<1> QED BY <1>1 DEF InTime, Overtakes

LEMMA ActionTimesOut ==
  ASSUME Sound, NEW j \in Job, job[j].at = "idle", table.stage = "ACTION", NEW then \in Thens,
         NEW ts0, NEW ts \in [Slot -> Timers], ts = DeleteEntry(ts0, "action"),
         RunOut(ts, "action"), FinalizeActionTimeout(j, then, ts0), crashes' = crashes
  PROVE  StaysTyped /\ Kept /\ Flowing'
<1>0. PICK old : old = table
  OBVIOUS
<1>1. old \in Tables /\ old.stage = "ACTION" /\ timers \in [Slot -> Timers] /\ Typed
  BY <1>0 DEF Sound, Typed
<1>2. \A s \in Slot : ts[s].st = "dead" => timers[s].st = "dead" /\ timers[s].kind = ts[s].kind
  BY DEF RunOut
<1>3. CASE table.live
  <2>1. PICK tb \in Moves(old) : Step(j, Writing("timedOut", then, tb.stage, tb), tb, ts, TRUE)
    BY <1>0, <1>3 DEF FinalizeActionTimeout
  <2>2. tb \in Tables /\ tb.stage \in {"ACTION", "SETTLEMENT"}
    BY <1>1, MovesAre
  <2>3. PICK stage \in {"ACTION", "SETTLEMENT"} : stage = tb.stage
    BY <2>2
  <2>4. PICK nj : nj = Writing("timedOut", then, stage, tb)
    OBVIOUS
  <2>5. nj \in Calls /\ nj.at = "timedOut" /\ nj.next = tb.stage
    BY <2>2, <2>3, <2>4, WritingIs DEF At, Stage
  <2>6. Goes(j, nj, tb, ts, TRUE) /\ StaysTyped
    BY <1>1, <2>1, <2>2, <2>3, <2>4, <2>5, StepGoes
  <2>7. Expected' /\ OnTime' /\ Recording' /\ RecordsOnce
    BY <1>2, <2>2, <2>5, <2>6, Turns, TurningIs
  <2>8. InTime
    BY <2>2, <2>5, <2>6, ExcusedInTime DEF RunOut
  <2>9. Flowing'
    <3>1. Carrying(nj, KindOf(tb.stage))
      BY <2>2, <2>5, TurningIs DEF Carrying, KindOf
    <3> QED BY <2>2, <2>5, <2>6, <3>1, FlowsOn
  <2> QED BY <2>6, <2>7, <2>8, <2>9 DEF Kept
<1>4. CASE ~table.live
  <2>1. PICK tb : tb = [old EXCEPT !.stalled = TRUE]
    OBVIOUS
  <2>2. tb \in Tables /\ tb.stage = "ACTION" /\ tb.stalled /\ tb.left = old.left
    BY <1>1, <2>1 DEF Tables, Table, Dealt
  <2>3. PICK nj : nj = GoOn(then)
    OBVIOUS
  <2>4. nj \in Calls /\ nj.at \in Thens
    BY <2>3, GoOnIs
  <2>5. Goes(j, nj, tb, ts, FALSE) /\ StaysTyped
    <3>1. tb = [table EXCEPT !.stalled = table.stage = "ACTION"]
      BY <1>0, <1>1, <2>1
    <3>2. Step(j, nj, tb, ts, FALSE)
      BY <1>4, <2>3, <3>1 DEF FinalizeActionTimeout
    <3> QED BY <1>1, <2>2, <2>4, <3>2, StepGoes
  <2>6. ~Records(j) /\ (\A k : ~Arms(j, k)) /\ nj.at \notin {"arm", "record", "reset"}
    BY <2>4 DEF Records, Arms, Thens
  <2>7. Expected'
    BY <1>2, <2>2, <2>4, <2>5, <2>6, ExpectedKept DEF Sound
  <2>8. Recording' /\ RecordsOnce
    BY <2>2, <2>4, <2>5, <2>6, RecordingKept DEF Sound
  <2>9. Astray'
    BY <2>2, <2>5 DEF Goes, Astray
  <2>10. OnTime' /\ Flowing'
    BY <2>2, <2>4, <2>5, <2>9, OnTimeLater, FlowsOn
  <2>11. InTime
    BY <2>2, <2>4, <2>5, ExcusedInTime DEF RunOut
  <2> QED BY <2>5, <2>7, <2>8, <2>10, <2>11 DEF Kept
<1> QED BY <1>3, <1>4

LEMMA ReadyRunsOut ==
  ASSUME Sound, NEW j \in Job, job[j].at = "idle", table.stage = "WAITING", NEW then \in Thens,
         NEW ts0, NEW ts \in [Slot -> Timers], ts = DeleteEntry(ts0, "ready"),
         RunOut(ts, "ready"), FinalizeReadyCountdown(j, then, ts0), crashes' = crashes
  PROVE  StaysTyped /\ Kept /\ Flowing'
<1>0. PICK old : old = table
  OBVIOUS
<1>1. old \in Tables /\ old \in Table /\ old.stage = "WAITING" /\ timers \in [Slot -> Timers] /\ Typed
  BY <1>0 DEF Sound, Typed, Tables
<1>2. \A s \in Slot : ts[s].st = "dead" => timers[s].st = "dead" /\ timers[s].kind = ts[s].kind
  BY DEF RunOut
<1>3. PICK nj : nj = [Idle EXCEPT !.at = "counted", !.then = then]
  OBVIOUS
<1>4. nj \in Calls /\ nj.at = "counted"
  <2>1. PICK c : c = Idle
    OBVIOUS
  <2>2. c \in Jobs /\ c.snap \in Tables
    BY <2>1, IdleIs DEF Calls
  <2>3. nj = [c EXCEPT !.at = "counted", !.then = then]
    BY <1>3, <2>1
  <2>4. "counted" \in At /\ then \in At
    BY DEF At, Thens
  <2>5. nj \in Jobs
    BY <2>2, <2>3, <2>4 DEF Jobs
  <2> QED BY <2>2, <2>3, <2>5 DEF Calls, Jobs
<1>5. ASSUME NEW live \in BOOLEAN, Step(j, nj, StartHand(live), ts, TRUE)
      PROVE  StaysTyped /\ Kept /\ Flowing'
  <2>1. PICK tb : tb = StartHand(live)
    OBVIOUS
  <2>2. tb \in Tables /\ tb.stage = "ACTION" /\ tb.left = MaxMoves
    BY <2>1, StartHandIs
  <2>3. Goes(j, nj, tb, ts, TRUE) /\ StaysTyped
    BY <1>1, <1>4, <1>5, <2>1, <2>2, StepGoes
  <2>4. Expected' /\ OnTime' /\ Recording' /\ RecordsOnce
    BY <1>0, <1>1, <1>2, <1>4, <2>2, <2>3, Turns, TurningIs
  <2>5. InTime
    <3>1. table.left <= tb.left
      BY <1>0, <1>1, <2>2, NoTimeIsNone DEF Table
    <3> QED BY <1>1, <1>4, <2>2, <2>3, <3>1, NoneOvertaken
  <2>6. Flowing'
    <3>1. Carrying(nj, KindOf(tb.stage))
      BY <1>4, <2>2, TurningIs DEF Carrying, KindOf
    <3> QED BY <1>4, <2>2, <2>3, <3>1, FlowsOn
  <2> QED BY <2>3, <2>4, <2>5, <2>6 DEF Kept
<1>6. ASSUME Step(j, nj, [table EXCEPT !.ends.ready = NoTime], ts, FALSE)
      PROVE  StaysTyped /\ Kept /\ Flowing'
  <2>1. PICK ends : ends = [old.ends EXCEPT !.ready = NoTime]
    OBVIOUS
  <2>2. ends \in [Kind -> Nat \cup {NoTime}] /\ ends["ready"] = NoTime
    BY <1>1, <2>1 DEF Table, Kind
  <2>3. PICK tb : tb = [old EXCEPT !.ends = ends]
    OBVIOUS
  <2>4. tb \in Table /\ tb.stage = "WAITING" /\ tb.ends = ends /\ tb.left = old.left
        /\ tb.live = old.live /\ tb.stalled = old.stalled /\ tb.posted = old.posted
    BY <1>1, <2>2, <2>3 DEF Table
  <2>5. tb \in Tables
    BY <1>1, <2>4 DEF Tables, Dealt
  <2>6. tb = [table EXCEPT !.ends.ready = NoTime]
    BY <1>0, <2>1, <2>3
  <2>7. Goes(j, nj, tb, ts, FALSE) /\ StaysTyped
    BY <1>1, <1>4, <1>6, <2>5, <2>6, StepGoes
  <2>8. Expected' /\ OnTime' /\ Recording' /\ RecordsOnce
    BY <1>0, <1>1, <1>2, <1>4, <2>4, <2>5, <2>7, Turns, TurningIs
  <2>9. InTime
    <3>1. table.left <= tb.left
      BY <1>0, <1>1, <2>4, NoTimeIsNone DEF Table
    <3> QED BY <1>1, <1>4, <2>5, <2>7, <3>1, NoneOvertaken
  <2>10. Flowing'
    <3>1. table' = tb
      BY <2>7 DEF Goes
    <3>2. ~Wanted'
      BY <2>2, <2>4, <3>1 DEF Wanted, KindOf
    <3> QED BY <1>4, <2>5, <2>7, <3>2, FlowsOn
  <2> QED BY <2>7, <2>8, <2>9, <2>10 DEF Kept
<1> QED BY <1>3, <1>5, <1>6 DEF FinalizeReadyCountdown

LEMMA SettlementRunsOut ==
  ASSUME Sound, NEW j \in Job, job[j].at = "idle", table.stage = "SETTLEMENT", NEW then \in Thens,
         NEW ts0, NEW ts \in [Slot -> Timers], ts = DeleteEntry(ts0, "settlement"),
         RunOut(ts, "settlement"), FinalizeSettlement(j, then, ts0), crashes' = crashes
  PROVE  StaysTyped /\ Kept /\ Flowing'
<1>0. PICK tb : tb = table
  OBVIOUS
<1>1. tb \in Tables /\ tb.stage = "SETTLEMENT" /\ timers \in [Slot -> Timers] /\ Typed
  BY <1>0 DEF Sound, Typed
<1>2. \A s \in Slot : ts[s].st = "dead" => timers[s].st = "dead" /\ timers[s].kind = ts[s].kind
  BY DEF RunOut
<1>3. PICK nj : nj = [Idle EXCEPT !.at = "record", !.then = then]
  OBVIOUS
<1>4. nj \in Calls /\ nj.at = "record"
  <2>1. PICK c : c = Idle
    OBVIOUS
  <2>2. c \in Jobs /\ c.snap \in Tables
    BY <2>1, IdleIs DEF Calls
  <2>3. nj = [c EXCEPT !.at = "record", !.then = then]
    BY <1>3, <2>1
  <2>4. "record" \in At /\ then \in At
    BY DEF At, Thens
  <2>5. nj \in Jobs
    BY <2>2, <2>3, <2>4 DEF Jobs
  <2> QED BY <2>2, <2>3, <2>5 DEF Calls, Jobs
<1>5. Goes(j, nj, tb, ts, FALSE) /\ StaysTyped
  <2>1. Step(j, nj, tb, ts, FALSE)
    BY <1>0, <1>3 DEF FinalizeSettlement
  <2> QED BY <1>1, <1>4, <2>1, StepGoes
<1>6. ~Records(j) /\ \A k : ~Arms(j, k)
  BY DEF Records, Arms
<1>7. Expected'
  BY <1>0, <1>1, <1>2, <1>4, <1>5, <1>6, ExpectedKept DEF Sound
<1>8. Recording' /\ RecordsOnce
  BY <1>0, <1>1, <1>4, <1>5, <1>6, RecordingKept DEF Sound
<1>9. OnTime'
  BY <1>1, <1>4, <1>5, OnTimeLater
<1>10. InTime
  <2>1. table.left <= tb.left
    BY <1>0, <1>1, NoTimeIsNone DEF Tables, Table
  <2> QED BY <1>1, <1>4, <1>5, <2>1, NoneOvertaken
<1>11. Flowing'
  <2>1. Carrying(nj, KindOf(tb.stage))
    BY <1>1, <1>4 DEF Carrying, KindOf
  <2> QED BY <1>1, <1>4, <1>5, <2>1, FlowsOn
<1> QED BY <1>5, <1>7, <1>8, <1>9, <1>10, <1>11 DEF Kept

LEMMA Finalizes ==
  ASSUME Sound, NEW j \in Job, job[j].at = "idle", table.stage # "GONE", NEW then \in Thens,
         NEW k, k = KindOf(table.stage), NEW ts0, NEW ts \in [Slot -> Timers],
         ts = DeleteEntry(ts0, k), RunOut(ts, k), Finalize(k, j, then, ts0), crashes' = crashes
  PROVE  StaysTyped /\ Kept /\ Flowing'
<1>1. table.stage \in Stage
  BY StageIs DEF Sound
<1>2. CASE table.stage = "ACTION"
  <2>1. k = "action"
    BY <1>2 DEF KindOf
  <2> QED BY <1>2, <2>1, ActionTimesOut DEF Finalize
<1>3. CASE table.stage = "WAITING"
  <2>1. k = "ready"
    BY <1>3 DEF KindOf
  <2> QED BY <1>3, <2>1, ReadyRunsOut DEF Finalize
<1>4. CASE table.stage = "SETTLEMENT"
  <2>1. k = "settlement"
    BY <1>4 DEF KindOf
  <2> QED BY <1>4, <2>1, SettlementRunsOut DEF Finalize
<1> QED BY <1>1, <1>2, <1>3, <1>4 DEF Stage

----------------------------------------------------------------------------
(* A call finds a table that has been restored *)

\* A deadline that has passed.
LEMMA RecoversPassed ==
  ASSUME Sound, NEW j \in Job, job[j].at = "idle", table.stage # "GONE", NEW then \in Thens,
         NEW k \in Kind, k = KindOf(table.stage), Finalize(k, j, then, timers), crashes' = crashes
  PROVE  StaysTyped /\ Kept /\ Flowing'
<1>1. timers \in [Slot -> Timers] /\ Typed
  BY DEF Sound, Typed
<1>2. PICK ts : ts = DeleteEntry(timers, k)
  OBVIOUS
<1>3. /\ ts \in [Slot -> Timers]
      /\ \A s \in Slot :
           /\ ~Entry(timers, k, s) => ts[s] = timers[s]
           /\ Entry(timers, k, s) /\ timers[s].st = "dead" => ts[s] = Free
           /\ Entry(timers, k, s) /\ timers[s].st # "dead" =>
                ts[s].st = timers[s].st /\ ts[s].kind = k /\ ~ts[s].mapped
  BY <1>1, <1>2, DeleteIs
<1>4. RunOut(ts, k)
  <2>1. ASSUME NEW s \in Slot, ts[s].st = "dead"
        PROVE  timers[s].st = "dead" /\ timers[s].kind = ts[s].kind
    BY <1>3, <2>1, FreeIs
  <2>2. ASSUME NEW s \in Slot, timers[s].st = "live" PROVE ts[s].st # "free"
    BY <1>3, <2>2
  <2> QED BY <2>1, <2>2 DEF RunOut
<1> QED BY <1>2, <1>3, <1>4, Finalizes

\* The timers in the maps may have been cleared, if they are not a turn's.
Emptied(ts, k) ==
  /\ \A s \in Slot : ts[s] = timers[s] \/ (timers[s].mapped /\ ts[s] = Free)
  /\ k = "action" => ts = timers

\* A deadline to come, for which there is no timer.
LEMMA RecoversFuture ==
  ASSUME Sound, NEW j \in Job, job[j].at = "idle", table.stage # "GONE", NEW then \in Thens,
         NEW k \in Kind, k = KindOf(table.stage), ~Has(k), NEW rest \in Nat,
         NEW ts \in [Slot -> Timers],
         Emptied(ts, k), FreeSlots(ts, k) # {}, crashes' = crashes,
         NEW late \in BOOLEAN, ~late, NEW st, st = SetTimer(ts, k, rest, late),
         NEW nj, nj = GoOn(then), Step(j, nj, table, st, FALSE)
  PROVE  StaysTyped /\ Kept /\ Flowing'
<1>0. PICK tb : tb = table
  OBVIOUS
<1>1. tb \in Tables /\ timers \in [Slot -> Timers] /\ Typed
  BY <1>0 DEF Sound, Typed
<1>4. nj \in Calls /\ nj.at \in Thens
  BY GoOnIs
<1>5. /\ st \in [Slot -> Timers]
      /\ \E x \in Slot :
           /\ ts[x].st = "free" \/ (Entry(ts, k, x) /\ ts[x].st = "dead")
           /\ st[x].st = "live" /\ st[x].kind = k /\ st[x].mapped
           /\ st[x].late = late /\ st[x].rest = rest
           /\ \A s \in Slot \ {x} :
                /\ ~Entry(ts, k, s) => st[s] = ts[s]
                /\ Entry(ts, k, s) /\ ts[s].st = "dead" => st[s] = Free
                /\ Entry(ts, k, s) /\ ts[s].st # "dead" =>
                     st[s].st = ts[s].st /\ st[s].kind = k /\ ~st[s].mapped
  BY SetIs
<1>6. \A s \in Slot : ~Entry(ts, k, s)
  BY FreeIs DEF Emptied, Has, Entry, Timers
<1>7. PICK x \in Slot : /\ st[x].st = "live" /\ st[x].kind = k /\ ~st[x].late
                        /\ \A s \in Slot \ {x} : st[s] = ts[s]
  BY <1>5, <1>6
<1>8. Goes(j, nj, tb, st, FALSE) /\ StaysTyped
  <2>1. Step(j, nj, tb, st, FALSE)
    BY <1>0
  <2> QED BY <1>1, <1>4, <1>5, <2>1, StepGoes
<1>9. ~Records(j) /\ (\A y : ~Arms(j, y)) /\ nj.at \notin {"arm", "record", "reset"}
  BY <1>4 DEF Records, Arms, Thens
<1>10. Expected'
  <2>1. \A s \in Slot : st[s].st = "dead" => timers[s].st = "dead" /\ timers[s].kind = st[s].kind
    BY <1>7, FreeIs DEF Emptied
  <2>2. st \in [Slot -> Timers] /\ Expected /\ tb.stage = table.stage
    BY <1>0, <1>5 DEF Sound
  <2> QED BY <1>1, <1>4, <1>8, <1>9, <2>1, <2>2, ExpectedKept
<1>11. Recording' /\ RecordsOnce
  BY <1>0, <1>1, <1>4, <1>5, <1>8, <1>9, RecordingKept DEF Sound
<1>12. InTime
  <2>1. table.left <= tb.left
    BY <1>0, <1>1, NoTimeIsNone DEF Tables, Table
  <2> QED BY <1>1, <1>4, <1>5, <1>8, <2>1, NoneOvertaken
<1>13. Flowing'
  <2>1. st[x].st = "live" /\ st[x].kind = KindOf(tb.stage)
    BY <1>0, <1>7
  <2> QED BY <1>1, <1>4, <1>5, <1>8, <2>1, FlowsOn
<1>14. OnTime'
  <2>1. CASE table.stage # "ACTION"
    BY <1>0, <1>1, <1>4, <1>5, <1>8, <2>1, OnTimeLater
  <2>2. CASE table.stage = "ACTION"
    <3>1. k = "action"
      BY <2>2 DEF KindOf
    <3>2. \A s \in Slot : timers'[s].st = st[s].st /\ timers'[s].kind = st[s].kind
                          /\ timers'[s].mapped = st[s].mapped /\ (timers'[s].late => st[s].late)
      BY <1>8 DEF Goes, Alike
    <3>3. \A s \in Slot : ~LateTimer(s)'
      <4>1. ASSUME NEW s \in Slot, LateTimer(s)' PROVE FALSE
        <5>1. st[s].late /\ st[s].mapped /\ st[s].kind = "action"
          BY <3>2, <4>1 DEF LateTimer
        <5>2. s # x
          BY <1>7, <5>1
        <5>3. Entry(ts, k, s)
          BY <1>7, <3>1, <5>1, <5>2 DEF Entry
        <5> QED BY <1>6, <5>3
      <4> QED BY <4>1
    <3>4. Runs("action")'
      BY <1>7, <3>1, <3>2 DEF Runs
    <3> QED BY <3>3, <3>4 DEF OnTime
  <2> QED BY <2>1, <2>2
<1> QED BY <1>8, <1>10, <1>11, <1>12, <1>13, <1>14 DEF Kept

LEMMA Recovers ==
  ASSUME Sound, NEW j \in Job, job[j].at = "idle", table.stage # "GONE",
         NEW then \in {"act", "ready", "join"}, EnsureRecovered(j, then), crashes' = crashes,
         crashes = 0 => Flowing
  PROVE  StaysTyped /\ Kept /\ Flowing'
<1>0. PICK tb : tb = table
  OBVIOUS
<1>1. tb \in Tables /\ tb \in Table /\ timers \in [Slot -> Timers] /\ Typed /\ Expected /\ then \in Thens
  BY <1>0 DEF Sound, Typed, Thens, Tables
<1>2. PICK k \in Kind : k = KindOf(table.stage)
  BY <1>1, StageIs
<1>3. PICK rest : rest = table.ends[k]
  OBVIOUS
<1>4. rest \in Nat \cup {NoTime}
  BY <1>0, <1>1, <1>3 DEF Table
<1>5. PICK ts : ts = IF k = "settlement" THEN ClearRoundTimers(timers) ELSE timers
  OBVIOUS
<1>6. \/ rest = 0 /\ Finalize(k, j, then, timers)
      \/ /\ rest \notin {0, NoTime} /\ ~Has(k)
         /\ FreeSlots(ts, k) # {}
         /\ Step(j, GoOn(then), table, SetTimer(ts, k, rest, FALSE), FALSE)
      \/ /\ rest = NoTime /\ k = "action" /\ ~Has(k)
         /\ ScheduleActionTimeout(j, then, table, timers)
      \/ /\ rest # 0 /\ (Has(k) \/ (rest = NoTime /\ k # "action"))
         /\ Step(j, GoOn(then), table, timers, FALSE)
  BY <1>2, <1>3, <1>5 DEF EnsureRecovered
<1>7. CASE rest = 0 /\ Finalize(k, j, then, timers)
  BY <1>1, <1>2, <1>7, RecoversPassed
<1>8. CASE /\ rest \notin {0, NoTime} /\ ~Has(k)
           /\ FreeSlots(ts, k) # {}
           /\ Step(j, GoOn(then), table, SetTimer(ts, k, rest, FALSE), FALSE)
  <2>1. ts \in [Slot -> Timers] /\ Emptied(ts, k)
    <3>1. CASE k = "settlement"
      BY <1>1, <1>5, <3>1, RoundIs DEF Emptied
    <3>2. CASE k # "settlement"
      BY <1>1, <1>5, <3>2 DEF Emptied
    <3> QED BY <3>1, <3>2
  <2>3. PICK late \in BOOLEAN : late = FALSE
    OBVIOUS
  <2>4. PICK st : st = SetTimer(ts, k, rest, late)
    OBVIOUS
  <2>5. PICK nj : nj = GoOn(then)
    OBVIOUS
  <2>6. Step(j, nj, table, st, FALSE)
    BY <1>8, <2>3, <2>4, <2>5
  <2>7. rest \in Nat
    BY <1>4, <1>8
  <2>8. FreeSlots(ts, k) # {} /\ ~Has(k) /\ ~late
    BY <1>8, <2>3
  <2> QED BY <1>1, <1>2, <2>1, <2>4, <2>5, <2>6, <2>7, <2>8, RecoversFuture
<1>9. CASE /\ rest = NoTime /\ k = "action" /\ ~Has(k)
           /\ ScheduleActionTimeout(j, then, table, timers)
  <2>1. table.stage = "ACTION"
    BY <1>2, <1>9 DEF KindOf
  <2> QED BY <1>1, <1>9, <2>1, ActionTimeoutScheduled
<1>10. CASE /\ rest # 0 /\ (Has(k) \/ (rest = NoTime /\ k # "action"))
            /\ Step(j, GoOn(then), table, timers, FALSE)
  <2>1. PICK nj : nj = GoOn(then)
    OBVIOUS
  <2>2. nj \in Calls /\ nj.at = then
    BY <1>1, <2>1, GoOnIs
  <2>3. Goes(j, nj, tb, timers, FALSE) /\ StaysTyped
    <3>1. Step(j, nj, tb, timers, FALSE)
      BY <1>0, <1>10, <2>1
    <3> QED BY <1>1, <2>2, <3>1, StepGoes
  <2>4. ~Carries(j, KindOf(table.stage)) /\ ~Turning(job[j])
    BY DEF Carries, Carrying, Turning
  <2>5. Kept /\ (Flowing => Flowing')
    BY <1>0, <1>1, <2>2, <2>3, <2>4, TalksOn
  <2>6. Flowing
    <3>1. CASE Has(k)
      <4>1. PICK s \in Slot : timers[s].mapped /\ timers[s].kind = k
        BY <3>1 DEF Has, Entry
      <4>2. timers[s].st \in {"live", "dead"}
        BY <1>1, <4>1 DEF Timers, Timer
      <4>3. CASE timers[s].st = "live"
        BY <1>2, <4>1, <4>3 DEF Flowing, Runs
      <4>4. CASE timers[s].st = "dead"
        <5>1. PICK i \in Job : Arms(i, k)
          BY <1>1, <4>1, <4>4 DEF Expected
        <5> QED BY <1>2, <5>1 DEF Flowing, Carries, Carrying, Arms
      <4> QED BY <4>2, <4>3, <4>4
    <3>2. CASE rest = NoTime
      BY <1>2, <1>3, <3>2 DEF Flowing, Wanted
    <3> QED BY <1>10, <3>1, <3>2
  <2> QED BY <2>3, <2>5, <2>6
<1> QED BY <1>6, <1>7, <1>8, <1>9, <1>10

----------------------------------------------------------------------------
(* The handlers *)

\* A call has moved the turn, and will see to the timers.
LEMMA MovesOn ==
  ASSUME Sound, NEW j \in Job, NEW nj \in Calls, NEW tb \in Tables, NEW moved \in BOOLEAN,
         Goes(j, nj, tb, timers, moved),
         Turning(nj), job[j].at \notin {"arm", "record"}, table.stage # "GONE",
         Carrying(nj, KindOf(tb.stage)),
         \/ tb.stage = table.stage
         \/ table.stage = "WAITING" /\ tb.stage = "ACTION"
         \/ table.stage = "ACTION" /\ tb.stage = "SETTLEMENT"
  PROVE  Kept /\ Flowing'
<1>1. timers \in [Slot -> Timers] /\ Typed
  BY DEF Sound, Typed
<1>2. Expected' /\ OnTime' /\ Recording' /\ RecordsOnce
  BY <1>1, Turns
<1>3. InTime
  BY <1>1, NoneOvertaken
<1>4. Flowing'
  BY <1>1, FlowsOn
<1> QED BY <1>2, <1>3, <1>4 DEF Kept

\* The turn after a move, late action or departure.
LEMMA TurnIs ==
  ASSUME NEW old \in Tables, old.stage \in {"ACTION", "SETTLEMENT"}, old.left > 0,
         old.stage = "ACTION" => old.left > 1,
         NEW live \in BOOLEAN, live => old.stage = "ACTION",
         NEW tb, tb = [old EXCEPT !.left = @ - 1, !.live = live, !.stalled = FALSE]
  PROVE  tb \in Tables /\ tb.stage = old.stage /\ tb.left < old.left
<1>1. old \in Table /\ old.left \in 0..MaxMoves /\ MaxMoves \in Nat
  BY NoTimeIsNone DEF Tables, Table
<1>2. PICK left : left = old.left - 1
  OBVIOUS
<1>3. left \in 0..MaxMoves /\ left < old.left /\ (old.left > 1 => left > 0)
  BY <1>1, <1>2
<1>4. tb = [old EXCEPT !.left = left, !.live = live, !.stalled = FALSE]
  BY <1>2
<1>5. tb \in Table /\ tb.stage = old.stage /\ tb.left = left /\ tb.live = live /\ ~tb.stalled
  BY <1>1, <1>3, <1>4 DEF Table
<1> QED BY <1>3, <1>5 DEF Tables, Dealt

LEMMA ActKeeps ==
  ASSUME Sound, NEW j \in Job, table.stage # "GONE", Act(j)
  PROVE  StaysTyped /\ Kept /\ (Flowing => Flowing')
<1>0. PICK old : old = table
  OBVIOUS
<1>1. old \in Tables /\ old \in Table /\ timers \in [Slot -> Timers] /\ Typed
  BY <1>0 DEF Sound, Typed, Tables
<1>2. job[j].at = "act" /\ crashes' = crashes
  BY DEF Act, Continues
<1>3. CASE Step(j, Idle, table, timers, FALSE)
  <2>1. PICK nj : nj = Idle
    OBVIOUS
  <2>2. nj \in Calls /\ nj.at = "idle"
    BY <2>1, IdleIs
  <2>3. Goes(j, nj, old, timers, FALSE) /\ StaysTyped
    <3>1. Step(j, nj, old, timers, FALSE)
      BY <1>0, <1>3, <2>1
    <3> QED BY <1>1, <1>2, <2>2, <3>1, StepGoes
  <2>4. ~Carries(j, KindOf(table.stage)) /\ ~Turning(job[j])
    BY <1>2 DEF Carries, Carrying, Turning
  <2> QED BY <1>0, <1>1, <1>2, <2>2, <2>3, <2>4, TalksOn
<1>4. ASSUME table.stage = "ACTION", NEW tb \in Moves(table),
             Step(j, Writing("acted", "idle", tb.stage, tb), tb, timers, TRUE)
      PROVE  StaysTyped /\ Kept /\ Flowing'
  <2>1. tb \in Tables /\ tb.stage \in {"ACTION", "SETTLEMENT"}
    BY <1>0, <1>1, <1>4, MovesAre
  <2>2. PICK stage \in {"ACTION", "SETTLEMENT"} : stage = tb.stage
    BY <2>1
  <2>3. PICK nj : nj = Writing("acted", "idle", stage, tb)
    OBVIOUS
  <2>4. nj \in Calls /\ nj.at = "acted"
    BY <2>1, <2>2, <2>3, WritingIs DEF At, Thens, Stage
  <2>5. Goes(j, nj, tb, timers, TRUE) /\ StaysTyped
    BY <1>1, <1>2, <1>4, <2>1, <2>2, <2>3, <2>4, StepGoes
  <2>6. Carrying(nj, KindOf(tb.stage)) /\ Turning(nj)
    BY <2>1, <2>4, TurningIs DEF Carrying, KindOf
  <2> QED BY <1>2, <1>4, <2>1, <2>4, <2>5, <2>6, MovesOn
<1>5. ASSUME table.stage = "ACTION", table.left > 1, NEW live \in BOOLEAN, NEW tb,
             tb = [table EXCEPT !.left = @ - 1, !.live = live, !.stalled = FALSE],
             Step(j, Writing("acted", "idle", "ACTION", tb), tb, timers, TRUE)
      PROVE  StaysTyped /\ Kept /\ Flowing'
  <2>1. tb \in Tables /\ tb.stage = "ACTION"
    <3>1. old.left > 0
      BY <1>0, <1>1, <1>5, NoTimeIsNone DEF Table
    <3>2. tb = [old EXCEPT !.left = @ - 1, !.live = live, !.stalled = FALSE]
      BY <1>0, <1>5
    <3> QED BY <1>0, <1>1, <1>5, <3>1, <3>2, TurnIs
  <2>2. PICK nj : nj = Writing("acted", "idle", "ACTION", tb)
    OBVIOUS
  <2>3. nj \in Calls /\ nj.at = "acted"
    BY <2>1, <2>2, WritingIs DEF At, Thens, Stage
  <2>4. Goes(j, nj, tb, timers, TRUE) /\ StaysTyped
    BY <1>1, <1>2, <1>5, <2>1, <2>2, <2>3, StepGoes
  <2>5. Carrying(nj, KindOf(tb.stage)) /\ Turning(nj)
    BY <2>1, <2>3, TurningIs DEF Carrying, KindOf
  <2> QED BY <1>2, <1>5, <2>1, <2>3, <2>4, <2>5, MovesOn
<1>6. ASSUME table.stage = "SETTLEMENT", table.left > 0, NEW tb, tb = [table EXCEPT !.left = @ - 1],
             Step(j, Writing("acted", "idle", "SETTLEMENT", tb), tb, timers, FALSE)
      PROVE  StaysTyped /\ Kept /\ Flowing'
  <2>1. tb \in Tables /\ tb.stage = "SETTLEMENT"
    <3>1. PICK left : left = old.left - 1
      OBVIOUS
    <3>2. left \in 0..MaxMoves
      BY <1>0, <1>1, <1>6, <3>1, NoTimeIsNone DEF Table
    <3>3. tb = [old EXCEPT !.left = left]
      BY <1>0, <1>6, <3>1
    <3>4. tb \in Table /\ tb.stage = old.stage /\ tb.live = old.live /\ tb.stalled = old.stalled
          /\ tb.posted = old.posted
      BY <1>1, <3>2, <3>3 DEF Table
    <3> QED BY <1>0, <1>1, <1>6, <3>4 DEF Tables, Dealt
  <2>2. PICK nj : nj = Writing("acted", "idle", "SETTLEMENT", tb)
    OBVIOUS
  <2>3. nj \in Calls /\ nj.at = "acted"
    BY <2>1, <2>2, WritingIs DEF At, Thens, Stage
  <2>4. Goes(j, nj, tb, timers, FALSE) /\ StaysTyped
    BY <1>1, <1>2, <1>6, <2>1, <2>2, <2>3, StepGoes
  <2>5. Carrying(nj, KindOf(tb.stage)) /\ Turning(nj)
    BY <2>1, <2>3, TurningIs DEF Carrying, KindOf
  <2> QED BY <1>2, <1>6, <2>1, <2>3, <2>4, <2>5, MovesOn
<1> QED BY <1>3, <1>4, <1>5, <1>6 DEF Act

\* A call that carries nothing goes on.
LEMMA Talks ==
  ASSUME Sound, NEW j \in Job, table.stage # "GONE", crashes' = crashes,
         NEW nj \in Calls, nj.at \in {"idle", "act", "ready", "join", "store", "save"},
         NEW tb \in Tables, tb = table, Step(j, nj, tb, timers, FALSE),
         job[j].at \notin {"arm", "record"}, Turning(job[j]) => table.stage # "ACTION",
         ~Carries(j, KindOf(table.stage))
  PROVE  StaysTyped /\ Kept /\ (Flowing => Flowing')
<1>1. timers \in [Slot -> Timers] /\ Typed
  BY DEF Sound, Typed
<1>2. Goes(j, nj, tb, timers, FALSE) /\ StaysTyped
  BY <1>1, StepGoes
<1> QED BY <1>2, TalksOn

\* leaveCurrentRoom goes on with what it knew of the stage.
LEMMA LeftGoesOn ==
  ASSUME Sound, NEW j \in Job, table.stage # "GONE", Left(j)
  PROVE  StaysTyped /\ Kept /\ (Flowing => Flowing')
<1>0. PICK tb : tb = table
  OBVIOUS
<1>1. tb \in Tables /\ timers \in [Slot -> Timers] /\ Typed
  BY <1>0 DEF Sound, Typed
<1>2. PICK next \in Stage : next = job[j].next
  BY <1>1, CallIs
<1>3. job[j].at = "left" /\ crashes' = crashes
  BY DEF Left, Continues
<1>4. PICK at \in {"leaving", "save"} : at = job[j].then
  BY <1>1, <1>3, CallIs
<1>5. PICK nj : nj = Writing(at, "idle", next, tb)
  OBVIOUS
<1>6. nj \in Calls /\ nj.at = at /\ nj.then = "idle" /\ nj.next = next
  BY <1>1, <1>5, WritingIs DEF At, Thens
<1>7. Step(j, nj, tb, timers, FALSE)
  BY <1>0, <1>2, <1>4, <1>5 DEF Left
<1>8. CASE at = "save"
  <2>1. ~Turning(job[j]) /\ ~Carries(j, KindOf(table.stage))
    BY <1>3, <1>4, <1>8 DEF Turning, Carries, Carrying
  <2> QED BY <1>0, <1>1, <1>3, <1>6, <1>7, <1>8, <2>1, Talks
<1>9. CASE at = "leaving"
  <2>1. Goes(j, nj, tb, timers, FALSE) /\ StaysTyped
    BY <1>1, <1>3, <1>6, <1>7, StepGoes
  <2>2. Turning(nj)
    BY <1>6, <1>9, TurningIs
  <2>3. Expected' /\ OnTime' /\ Recording' /\ RecordsOnce
    BY <1>0, <1>1, <1>3, <1>6, <2>1, <2>2, Turns
  <2>4. InTime
    BY <1>0, <1>1, <1>6, <2>1, NoneOvertaken
  <2>5. ASSUME Flowing PROVE Flowing'
    <3>1. table' = table /\ crashes' = crashes
      BY <1>0, <2>1 DEF Goes
    <3>2. Astray' = Astray /\ Wanted' = Wanted
      BY <3>1 DEF Astray, Abandoned, Crossed, Wanted
    <3>3. Carries(j, KindOf(tb.stage)) => Carrying(nj, KindOf(tb.stage))
      BY <1>2, <1>3, <1>6, <1>9, <2>2 DEF Carries, Carrying
    <3> QED BY <1>0, <1>1, <1>6, <2>1, <2>5, <3>2, <3>3, FlowKept
  <2> QED BY <2>1, <2>3, <2>4, <2>5 DEF Kept
<1> QED BY <1>8, <1>9

LEMMA ReadyKeeps ==
  ASSUME Sound, NEW j \in Job, table.stage # "GONE", Ready(j)
  PROVE  StaysTyped /\ Kept /\ (Flowing => Flowing')
<1>0. PICK old : old = table
  OBVIOUS
<1>1. old \in Tables /\ old \in Table /\ timers \in [Slot -> Timers] /\ Typed
  BY <1>0 DEF Sound, Typed, Tables
<1>2. job[j].at = "ready" /\ crashes' = crashes
  BY DEF Ready, Continues
<1>3. ~Carries(j, KindOf(table.stage)) /\ ~Turning(job[j])
  BY <1>2 DEF Carries, Carrying, Turning
<1>4. CASE Step(j, Writing("save", "idle", "WAITING", table), table, timers, FALSE)
  <2>1. PICK nj : nj = Writing("save", "idle", "WAITING", old)
    OBVIOUS
  <2>2. nj \in Calls /\ nj.at = "save"
    BY <1>1, <2>1, WritingIs DEF At, Thens, Stage
  <2>3. Step(j, nj, old, timers, FALSE)
    BY <1>0, <1>4, <2>1
  <2> QED BY <1>0, <1>1, <1>2, <1>3, <2>2, <2>3, Talks
<1>5. ASSUME table.stage = "WAITING", NEW live \in BOOLEAN,
             Step(j, [Idle EXCEPT !.at = "readied"], StartHand(live), timers, TRUE)
      PROVE  StaysTyped /\ Kept /\ Flowing'
  <2>1. PICK tb : tb = StartHand(live)
    OBVIOUS
  <2>2. tb \in Tables /\ tb.stage = "ACTION"
    BY <2>1, StartHandIs
  <2>3. PICK nj : nj = [Idle EXCEPT !.at = "readied"]
    OBVIOUS
  <2>4. nj \in Calls /\ nj.at = "readied"
    <3>1. PICK c : c = Idle
      OBVIOUS
    <3>2. c \in Jobs /\ c.snap \in Tables /\ c.then \in Thens
      BY <3>1, IdleIs DEF Calls
    <3>3. nj = [c EXCEPT !.at = "readied"]
      BY <2>3, <3>1
    <3>4. nj \in Jobs
      BY <3>2, <3>3 DEF Jobs, At
    <3> QED BY <3>2, <3>3, <3>4 DEF Calls, Jobs
  <2>5. Goes(j, nj, tb, timers, TRUE) /\ StaysTyped
    BY <1>1, <1>2, <1>5, <2>1, <2>2, <2>3, <2>4, StepGoes
  <2>6. Carrying(nj, KindOf(tb.stage)) /\ Turning(nj)
    BY <2>2, <2>4, TurningIs DEF Carrying, KindOf
  <2> QED BY <1>2, <1>5, <2>2, <2>4, <2>5, <2>6, MovesOn
<1>6. CASE ScheduleAutoStart(j, "store", SoloTicks, table, timers)
  <2>1. "store" \in Thens
    BY DEF Thens
  <2> QED BY <1>2, <1>3, <1>6, <2>1, AutoStartScheduled, NoTimeIsNone
<1> QED BY <1>4, <1>5, <1>6 DEF Ready

LEMMA ReadiedKeeps ==
  ASSUME Sound, NEW j \in Job, table.stage # "GONE", Readied(j)
  PROVE  StaysTyped /\ Kept /\ (Flowing => Flowing')
<1>0. PICK old : old = table
  OBVIOUS
<1>1. old \in Tables /\ Typed
  BY <1>0 DEF Sound, Typed
<1>2. job[j].at = "readied" /\ crashes' = crashes /\ "store" \in Thens
  BY DEF Readied, Continues, Thens
<1>3. CASE table.stage = "ACTION"
  <2>1. ScheduleActionTimeout(j, "store", table, timers)
    BY <1>3 DEF Readied
  <2> QED BY <1>2, <1>3, <2>1, ActionTimeoutScheduled
<1>4. CASE table.stage # "ACTION"
  <2>1. PICK nj : nj = GoOn("store")
    OBVIOUS
  <2>2. nj \in Calls /\ nj.at = "store"
    BY <1>2, <2>1, GoOnIs
  <2>3. Step(j, nj, old, timers, FALSE)
    BY <1>0, <1>4, <2>1 DEF Readied, GoOn
  <2>4. ~Carries(j, KindOf(table.stage))
    BY <1>1, <1>2, <1>4, StageIs DEF Carries, Carrying, KindOf
  <2> QED BY <1>0, <1>1, <1>2, <1>4, <2>2, <2>3, <2>4, Talks
<1> QED BY <1>3, <1>4

LEMMA JoinKeeps ==
  ASSUME Sound, NEW j \in Job, table.stage # "GONE", Join(j)
  PROVE  StaysTyped /\ Kept /\ (Flowing => Flowing')
<1>0. PICK old : old = table
  OBVIOUS
<1>1. old \in Tables /\ old \in Table /\ timers \in [Slot -> Timers] /\ Typed
  BY <1>0 DEF Sound, Typed, Tables
<1>2. job[j].at = "join" /\ crashes' = crashes /\ "store" \in Thens
  BY DEF Join, Continues, Thens
<1>3. PICK live \in {old.live, old.stage = "ACTION"} :
        Step(j, GoOn("store"), [old EXCEPT !.live = live], timers, FALSE)
  BY <1>0 DEF Join, GoOn
<1>4. live \in BOOLEAN /\ (live => old.live \/ old.stage = "ACTION")
  BY <1>1, <1>3 DEF Table
<1>5. PICK tb : tb = [old EXCEPT !.live = live]
  OBVIOUS
<1>6. tb \in Table /\ tb.stage = old.stage /\ tb.ends = old.ends /\ tb.left = old.left
      /\ tb.stalled = old.stalled /\ tb.live = live /\ tb.posted = old.posted
  BY <1>1, <1>4, <1>5 DEF Table
<1>7. tb \in Tables
  BY <1>1, <1>4, <1>6 DEF Tables, Dealt
<1>8. PICK nj : nj = GoOn("store")
  OBVIOUS
<1>9. nj \in Calls /\ nj.at = "store"
  BY <1>2, <1>8, GoOnIs
<1>10. Goes(j, nj, tb, timers, FALSE) /\ StaysTyped
  BY <1>1, <1>2, <1>3, <1>5, <1>7, <1>8, <1>9, StepGoes
<1>11. ~Carries(j, KindOf(table.stage)) /\ ~Turning(job[j])
  BY <1>2 DEF Carries, Carrying, Turning
<1> QED BY <1>0, <1>2, <1>6, <1>7, <1>9, <1>10, <1>11, TalksOn

LEMMA StoreKeeps ==
  ASSUME Sound, NEW j \in Job, table.stage # "GONE", Store(j)
  PROVE  StaysTyped /\ Kept /\ (Flowing => Flowing')
<1>0. PICK old : old = table
  OBVIOUS
<1>1. old \in Tables
  BY <1>0 DEF Sound, Typed
<1>2. job[j].at = "store" /\ crashes' = crashes
  BY DEF Store, Continues
<1>3. ~Carries(j, KindOf(table.stage)) /\ ~Turning(job[j])
  BY <1>2 DEF Carries, Carrying, Turning
<1>4. PICK nj : nj = Writing("save", "idle", "WAITING", old)
  OBVIOUS
<1>5. nj \in Calls /\ nj.at = "save"
  BY <1>1, <1>4, WritingIs DEF At, Thens, Stage
<1>6. Step(j, nj, old, timers, FALSE)
  BY <1>0, <1>4 DEF Store
<1> QED BY <1>0, <1>1, <1>2, <1>3, <1>5, <1>6, Talks

LEMMA SavedKeeps ==
  ASSUME Sound, NEW j \in Job, table.stage # "GONE", Saved(j)
  PROVE  StaysTyped /\ Kept /\ (Flowing => Flowing')
<1>0. PICK old : old = table
  OBVIOUS
<1>1. old \in Tables /\ Typed
  BY <1>0 DEF Sound, Typed
<1>2. job[j].at = "save" /\ crashes' = crashes
  BY DEF Saved, Continues
<1>3. ~Carries(j, KindOf(table.stage)) /\ ~Turning(job[j])
  BY <1>2 DEF Carries, Carrying, Turning
<1>4. PICK then \in Thens : then = job[j].then
  BY <1>1, CallIs DEF Saved
<1>5. PICK nj : nj = GoOn(then)
  OBVIOUS
<1>6. nj \in Calls /\ nj.at \in Thens
  BY <1>5, GoOnIs
<1>7. Step(j, nj, old, timers, FALSE)
  BY <1>0, <1>4, <1>5 DEF Saved
<1> QED BY <1>0, <1>1, <1>2, <1>3, <1>6, <1>7, Talks DEF Thens

\* handlePlayerAction schedules what the stage asks for; finalizeActionTimeout what the
\* stage before its write asked for.
LEMMA ActedKeeps ==
  ASSUME Sound, NEW j \in Job, table.stage # "GONE", Acted(j)
  PROVE  StaysTyped /\ Kept /\ (Flowing => Flowing')
<1>0. PICK old : old = table
  OBVIOUS
<1>1. old \in Tables /\ Typed
  BY <1>0 DEF Sound, Typed
<1>2. job[j].at \in {"acted", "timedOut"} /\ crashes' = crashes
  BY DEF Acted, Continues
<1>3. PICK then \in Thens : then = job[j].then
  BY <1>1, CallIs DEF Acted
<1>4. PICK next : next = IF job[j].at = "acted" THEN table.stage ELSE job[j].next
  OBVIOUS
<1>5. next \in {"ACTION", "SETTLEMENT"} \/ (job[j].at = "acted" /\ table.stage = "WAITING")
  BY <1>1, <1>2, <1>4, CallIs, StageIs DEF Stage
<1>6. CASE next = "SETTLEMENT"
  <2>1. SchedulePostHandFlow(j, then, table, timers)
    BY <1>3, <1>4, <1>6 DEF Acted
  <2> QED BY <1>2, <2>1, PostHandFlowScheduled
<1>7. CASE next = "ACTION"
  <2>1. ScheduleActionTimeout(j, then, table, timers)
    BY <1>3, <1>4, <1>7 DEF Acted
  <2>2. table.stage # "ACTION" => ~Carries(j, KindOf(table.stage))
    <3>1. ASSUME table.stage # "ACTION" PROVE ~Carries(j, KindOf(table.stage))
      <4>1. job[j].at = "timedOut" /\ job[j].next = "ACTION"
        BY <1>2, <1>4, <1>7, <3>1
      <4>2. KindOf(table.stage) # "action"
        BY <3>1 DEF KindOf
      <4> QED BY <4>1, <4>2 DEF Carries, Carrying
    <3> QED BY <3>1
  <2> QED BY <1>2, <2>1, <2>2, ActionTimeoutScheduled
<1>8. CASE job[j].at = "acted" /\ table.stage = "WAITING"
  <2>1. PICK nj : nj = GoOn(then)
    OBVIOUS
  <2>2. nj \in Calls /\ nj.at \in {"idle", "act", "ready", "join", "store", "save"}
    BY <2>1, GoOnIs DEF Thens
  <2>3. Step(j, nj, old, timers, FALSE)
    BY <1>0, <1>3, <1>8, <2>1 DEF Acted
  <2>4. ~Carries(j, KindOf(table.stage))
    BY <1>8 DEF Carries, Carrying, KindOf
  <2> QED BY <1>0, <1>1, <1>2, <1>8, <2>2, <2>3, <2>4, Talks
<1> QED BY <1>5, <1>6, <1>7, <1>8

LEMMA LeavingKeeps ==
  ASSUME Sound, NEW j \in Job, table.stage # "GONE", Leaving(j)
  PROVE  StaysTyped /\ Kept /\ (Flowing => Flowing')
<1>0. PICK old : old = table
  OBVIOUS
<1>1. old \in Tables /\ Typed
  BY <1>0 DEF Sound, Typed
<1>2. job[j].at = "leaving" /\ crashes' = crashes /\ "idle" \in Thens
  BY DEF Leaving, Continues, Thens
<1>3. CASE job[j].next = "SETTLEMENT"
  <2>1. SchedulePostHandFlow(j, "idle", table, timers)
    BY <1>3 DEF Leaving
  <2> QED BY <1>2, <2>1, PostHandFlowScheduled
<1>4. CASE job[j].next # "SETTLEMENT" /\ table.stage = "ACTION"
  <2>1. ScheduleActionTimeout(j, "idle", table, timers)
    BY <1>4 DEF Leaving
  <2> QED BY <1>2, <1>4, <2>1, ActionTimeoutScheduled
<1>5. CASE job[j].next # "SETTLEMENT" /\ table.stage # "ACTION"
  <2>1. PICK nj : nj = Idle
    OBVIOUS
  <2>2. nj \in Calls /\ nj.at = "idle"
    BY <2>1, IdleIs
  <2>3. Step(j, nj, old, timers, FALSE)
    BY <1>0, <1>5, <2>1 DEF Leaving
  <2>4. ~Carries(j, KindOf(table.stage))
    BY <1>2, <1>5 DEF Carries, Carrying, KindOf
  <2> QED BY <1>0, <1>1, <1>2, <1>5, <2>2, <2>3, <2>4, Talks
<1> QED BY <1>3, <1>4, <1>5

LEMMA CountedKeeps ==
  ASSUME Sound, NEW j \in Job, table.stage # "GONE", Counted(j)
  PROVE  StaysTyped /\ Kept /\ (Flowing => Flowing')
<1>0. PICK old : old = table
  OBVIOUS
<1>1. old \in Tables /\ Typed
  BY <1>0 DEF Sound, Typed
<1>2. job[j].at = "counted" /\ crashes' = crashes
  BY DEF Counted, Continues
<1>3. PICK then \in Thens : then = job[j].then
  BY <1>1, CallIs DEF Counted
<1>4. CASE table.stage = "ACTION"
  <2>1. ScheduleActionTimeout(j, then, table, timers)
    BY <1>3, <1>4 DEF Counted
  <2> QED BY <1>2, <1>4, <2>1, ActionTimeoutScheduled
<1>5. CASE table.stage # "ACTION"
  <2>1. PICK nj : nj = Writing("save", then, "WAITING", old)
    OBVIOUS
  <2>2. nj \in Calls /\ nj.at = "save"
    BY <1>1, <2>1, WritingIs DEF At, Stage
  <2>3. Step(j, nj, old, timers, FALSE)
    BY <1>0, <1>3, <1>5, <2>1 DEF Counted
  <2>4. ~Carries(j, KindOf(table.stage))
    BY <1>2, <1>5 DEF Carries, Carrying, KindOf
  <2> QED BY <1>0, <1>1, <1>2, <1>5, <2>2, <2>3, <2>4, Talks
<1> QED BY <1>4, <1>5

LEMMA WasResetKeeps ==
  ASSUME Sound, NEW j \in Job, table.stage # "GONE", WasReset(j)
  PROVE  StaysTyped /\ Kept /\ (Flowing => Flowing')
<1>1. Typed
  BY DEF Sound
<1>2. PICK then \in Thens : then = job[j].then
  BY <1>1, CallIs DEF WasReset
<1>3. job[j].at = "reset" /\ crashes' = crashes
      /\ ScheduleAutoStart(j, then, ReadyTicks, table, timers)
  BY <1>2 DEF WasReset, Continues
<1> QED BY <1>2, <1>3, AutoStartScheduled, NoTimeIsNone

\* The table is gone, and the call with it.
LEMMA GoneKeeps ==
  ASSUME Sound, NEW j \in Job, table.stage = "GONE", Abandon(j) \/ Left(j) \/ Leaving(j)
  PROVE  StaysTyped /\ Kept /\ Flowing'
<1>0. PICK old : old = table
  OBVIOUS
<1>1. old \in Tables /\ old.stage = "GONE" /\ timers \in [Slot -> Timers] /\ Typed
  BY <1>0 DEF Sound, Typed
<1>2. crashes' = crashes
  BY DEF Abandon, Left, Leaving, Continues
<1>3. ASSUME NEW nj \in Calls, NEW ts \in [Slot -> Timers], Step(j, nj, old, ts, FALSE),
             nj.at \notin {"record", "reset"}
      PROVE  StaysTyped /\ Kept /\ Flowing'
  <2>1. Goes(j, nj, old, ts, FALSE) /\ StaysTyped
    BY <1>1, <1>2, <1>3, StepGoes
  <2>2. old.left = table.left
    BY <1>0
  <2> QED BY <1>1, <1>3, <2>1, <2>2, Dissolved
<1>4. PICK idle : idle = Idle
  OBVIOUS
<1>5. idle \in Calls /\ idle.at = "idle"
  BY <1>4, IdleIs
<1>6. CASE Abandon(j)
  <2>1. Step(j, idle, old, timers, FALSE)
    BY <1>0, <1>4, <1>6 DEF Abandon
  <2> QED BY <1>1, <1>3, <1>5, <2>1
<1>7. CASE Left(j)
  <2>1. PICK next \in Stage : next = job[j].next
    BY <1>1, CallIs
  <2>2. PICK at \in {"leaving", "save"} : at = job[j].then
    BY <1>1, <1>7, CallIs DEF Left
  <2>3. PICK nj : nj = Writing(at, "idle", next, old)
    OBVIOUS
  <2>4. nj \in Calls /\ nj.at = at
    BY <1>1, <2>3, WritingIs DEF At, Thens
  <2>5. Step(j, nj, old, timers, FALSE)
    BY <1>0, <1>7, <2>1, <2>2, <2>3 DEF Left
  <2> QED BY <1>1, <1>3, <2>4, <2>5
<1>8. CASE Leaving(j)
  <2>1. PICK ts : ts = ClearRoundTimers(timers)
    OBVIOUS
  <2>2. ts \in [Slot -> Timers]
    BY <1>1, <2>1, RoundIs
  <2>3. Step(j, idle, old, ts, FALSE)
    BY <1>0, <1>1, <1>4, <1>8, <2>1 DEF Leaving
  <2> QED BY <1>3, <1>5, <2>2, <2>3
<1> QED BY <1>6, <1>7, <1>8

LEMMA GoesOnKeeps ==
  ASSUME Sound, NEW j \in Job, GoesOn(j)
  PROVE  StaysTyped /\ Kept /\ (Flowing => Flowing')
<1>1. CASE table.stage = "GONE"
  <2>1. Abandon(j) \/ Left(j) \/ Leaving(j)
    <3>1. CASE job[j].at \in {"left", "leaving"}
      BY <1>1, <3>1 DEF GoesOn, Act, Ready, Readied, Join, Store, Saved, Acted, Counted, Recorded,
                        WasReset, Arm
    <3>2. CASE job[j].at \notin {"left", "leaving"}
      BY <1>1, <3>2 DEF GoesOn
    <3> QED BY <3>1, <3>2
  <2> QED BY <1>1, <2>1, GoneKeeps
<1>2. CASE table.stage # "GONE"
  <2>1. \/ Act(j) \/ Ready(j) \/ Readied(j) \/ Join(j) \/ Store(j) \/ Saved(j) \/ Acted(j)
        \/ Left(j) \/ Leaving(j) \/ Counted(j) \/ Recorded(j) \/ WasReset(j) \/ Arm(j)
    BY <1>2 DEF GoesOn
  <2>2. CASE Act(j) \/ Ready(j) \/ Readied(j) \/ Join(j)
    BY <1>2, <2>2, ActKeeps, ReadyKeeps, ReadiedKeeps, JoinKeeps
  <2>3. CASE Store(j) \/ Saved(j) \/ Acted(j) \/ Left(j)
    BY <1>2, <2>3, StoreKeeps, SavedKeeps, ActedKeeps, LeftGoesOn
  <2>4. CASE Leaving(j) \/ Counted(j) \/ Recorded(j) \/ WasReset(j) \/ Arm(j)
    BY <1>2, <2>4, LeavingKeeps, CountedKeeps, ResetToWaiting, WasResetKeeps, Armed
  <2> QED BY <2>1, <2>2, <2>3, <2>4
<1> QED BY <1>1, <1>2

\* A departure that leaves the turn where it is.
LEMMA StaysOn ==
  ASSUME Sound, NEW j \in Job, job[j].at = "idle", table.stage # "GONE", crashes' = crashes,
         NEW then \in {"leaving", "save"}, NEW nj \in Calls, nj.at = "left", nj.then = then,
         NEW tb \in Tables, Step(j, nj, tb, timers, FALSE),
         tb.stage = table.stage, tb.left <= table.left, tb.stalled = table.stalled,
         tb.posted = table.posted,
         \A k \in Kind : tb.ends[k] = NoTime \/ tb.ends[k] = table.ends[k],
         \A k \in Kind \ {"action"} : tb.ends[k] = table.ends[k]
  PROVE  StaysTyped /\ Kept /\ (Flowing => Flowing')
<1>1. timers \in [Slot -> Timers] /\ Typed /\ KindOf(table.stage) \in Kind
  BY StageIs DEF Sound, Typed
<1>2. Goes(j, nj, tb, timers, FALSE) /\ StaysTyped
  BY <1>1, StepGoes
<1>3. table' = tb /\ crashes' = crashes
  BY <1>2 DEF Goes
<1>4. ~Records(j) /\ (\A k : ~Arms(j, k)) /\ ~Turning(job[j]) /\ ~Carries(j, KindOf(table.stage))
  BY DEF Records, Arms, Turning, Carries, Carrying
<1>5. Expected' /\ Recording' /\ RecordsOnce
  BY <1>1, <1>2, <1>4, ExpectedKept, RecordingKept DEF Sound
<1>6. InTime
  BY <1>1, <1>2, NoneOvertaken
<1>7. Astray => Astray'
  BY <1>3 DEF Astray, Abandoned, Crossed
<1>8. OnTime'
  <2>1. OnTime
    BY DEF Sound
  <2> QED BY <1>1, <1>2, <1>4, <1>7, <2>1, OnTimeKept DEF LateTimer
<1>9. ASSUME Flowing PROVE Flowing'
  <2>1. Wanted' => Wanted
    BY <1>1, <1>3 DEF Wanted
  <2> QED BY <1>1, <1>2, <1>4, <1>7, <1>9, <2>1, FlowKept
<1> QED BY <1>2, <1>5, <1>6, <1>8, <1>9 DEF Kept

\* POST leave-room has moved the turn, or ended the hand, and nothing is scheduled.
LEMMA PostsOn ==
  ASSUME Sound, NEW j \in Job, job[j].at = "idle", table.stage = "ACTION", crashes' = crashes,
         NEW nj \in Calls, nj.at = "left", nj.then = "save",
         NEW tb \in Tables, tb.stage \in {"ACTION", "SETTLEMENT"}, tb.posted,
         Step(j, nj, tb, timers, TRUE), table.stalled => tb.stalled,
         tb.ends["action"] = NoTime,
         \A k \in Kind \ {"action"} : tb.ends[k] = table.ends[k]
  PROVE  StaysTyped /\ Kept /\ (Flowing => Flowing')
<1>1. timers \in [Slot -> Timers] /\ Typed
  BY DEF Sound, Typed
<1>2. Goes(j, nj, tb, timers, TRUE) /\ StaysTyped
  BY <1>1, StepGoes
<1>3. table' = tb /\ crashes' = crashes
  BY <1>2 DEF Goes
<1>4. ~Records(j) /\ (\A k : ~Arms(j, k)) /\ ~Carries(j, KindOf(tb.stage))
  BY DEF Records, Arms, Turning, Carries, Carrying
<1>5. Expected' /\ Recording' /\ RecordsOnce
  BY <1>1, <1>2, <1>4, ExpectedKept, RecordingKept DEF Sound
<1>6. InTime
  BY <1>1, <1>2, NoneOvertaken
<1>7. OnTime'
  BY <1>1, <1>2, OnTimeLater
<1>8. ASSUME Flowing PROVE Flowing'
  <2>1. CASE tb.stage = "SETTLEMENT"
    <3>1. Astray'
      BY <1>3, <2>1 DEF Astray, Abandoned
    <3> QED BY <1>1, <1>2, <3>1, FlowsOn
  <2>2. CASE tb.stage = "ACTION"
    <3>1. Astray => Astray'
      BY <1>3, <2>2 DEF Astray, Abandoned, Crossed
    <3>2. Wanted' => Wanted
      BY <1>3, <2>2 DEF Wanted, KindOf
    <3> QED BY <1>1, <1>2, <1>4, <1>8, <2>2, <3>1, <3>2, FlowKept
  <2> QED BY <2>1, <2>2
<1> QED BY <1>2, <1>5, <1>6, <1>7, <1>8 DEF Kept

\* leaveCurrentRoom, until the balance is written: the player goes, and may fold.
LEMMA LeaveKeeps ==
  ASSUME Sound, NEW j \in Job, Starts(j), NEW then \in {"leaving", "save"},
         LeaveCurrentRoom(j, then), crashes' = crashes
  PROVE  StaysTyped /\ Kept /\ (Flowing => Flowing')
<1>0. PICK old : old = table
  OBVIOUS
<1>1. old \in Tables /\ old \in Table /\ timers \in [Slot -> Timers] /\ Typed
  BY <1>0 DEF Sound, Typed, Tables
<1>2. job[j].at = "idle" /\ table.stage # "GONE"
  BY DEF Starts
<1>3. ASSUME NEW next \in Stage, NEW gone,
             gone = [[Idle EXCEPT !.at = "left", !.then = then] EXCEPT !.next = next]
      PROVE  gone \in Calls /\ gone.at = "left" /\ gone.then = then /\ gone.next = next
  <2>1. PICK c : c = Idle
    OBVIOUS
  <2>2. c \in Jobs /\ c.snap \in Tables
    BY <2>1, IdleIs DEF Calls
  <2>3. gone = [c EXCEPT !.at = "left", !.then = then, !.next = next]
    BY <1>3, <2>1, <2>2 DEF Jobs
  <2>4. gone \in Jobs /\ gone.at = "left" /\ gone.then = then /\ gone.next = next /\ gone.snap = c.snap
    BY <2>2, <2>3 DEF Jobs, At
  <2> QED BY <2>2, <2>4 DEF Calls
<1>4. PICK nj : nj = [Idle EXCEPT !.at = "left", !.then = then]
  OBVIOUS
<1>5. nj \in Calls /\ nj.at = "left" /\ nj.then = then
  <2>1. PICK c : c = Idle
    OBVIOUS
  <2>2. c \in Jobs /\ c.next = "WAITING" /\ "WAITING" \in Stage
    BY <2>1, IdleIs DEF Calls, Stage
  <2>3. nj = [c EXCEPT !.at = "left", !.then = then]
    BY <1>4, <2>1
  <2>4. c.snap \in Tables
    BY <2>1, IdleIs DEF Calls
  <2>5. nj \in Jobs /\ nj.at = "left" /\ nj.then = then /\ nj.snap = c.snap
    BY <2>2, <2>3 DEF Jobs, At
  <2> QED BY <2>4, <2>5 DEF Calls
<1>6. CASE Step(j, nj, old, timers, FALSE)
  <2>1. old.left <= old.left
    BY <1>1, NoTimeIsNone DEF Table
  <2> QED BY <1>0, <1>1, <1>2, <1>5, <1>6, <2>1, StaysOn
<1>7. CASE Step(j, nj, [old EXCEPT !.stage = "GONE"], timers, FALSE)
  <2>1. PICK tb : tb = [old EXCEPT !.stage = "GONE"]
    OBVIOUS
  <2>2. tb \in Tables /\ tb.stage = "GONE" /\ tb.left = old.left
    BY <1>1, <2>1 DEF Tables, Table, Stage, Dealt
  <2>3. Goes(j, nj, tb, timers, FALSE) /\ StaysTyped
    BY <1>1, <1>2, <1>5, <1>7, <2>1, <2>2, StepGoes
  <2> QED BY <1>0, <1>1, <1>5, <2>2, <2>3, Dissolved
<1>8. ASSUME table.stage = "ACTION", table.left > 1, NEW live \in BOOLEAN, NEW tb,
             tb = [table EXCEPT !.left = @ - 1, !.live = live, !.ends.action = NoTime],
             Step(j, nj, tb, timers, FALSE)
      PROVE  StaysTyped /\ Kept /\ (Flowing => Flowing')
  <2>1. PICK left : left = old.left - 1
    OBVIOUS
  <2>2. left \in 0..MaxMoves /\ left > 0 /\ left <= old.left
    BY <1>0, <1>1, <1>8, <2>1, NoTimeIsNone DEF Table
  <2>3. PICK ends : ends = [old.ends EXCEPT !.action = NoTime]
    OBVIOUS
  <2>4. /\ ends \in [Kind -> Nat \cup {NoTime}] /\ ends["action"] = NoTime
        /\ \A k \in Kind \ {"action"} : ends[k] = old.ends[k]
    BY <1>1, <2>3 DEF Table, Kind
  <2>5. tb = [old EXCEPT !.left = left, !.live = live, !.ends = ends]
    BY <1>0, <1>8, <2>1, <2>3
  <2>6. /\ tb \in Table /\ tb.stage = old.stage /\ tb.left = left /\ tb.live = live /\ tb.ends = ends
        /\ tb.stalled = old.stalled /\ tb.posted = old.posted
    BY <1>1, <2>2, <2>4, <2>5 DEF Table
  <2>7. tb \in Tables
    BY <1>0, <1>1, <1>8, <2>2, <2>6 DEF Tables, Dealt
  <2>8. /\ Step(j, nj, tb, timers, FALSE) /\ tb.stage = table.stage /\ tb.left <= table.left
        /\ tb.stalled = table.stalled /\ tb.posted = table.posted
        /\ \A k \in Kind : tb.ends[k] = NoTime \/ tb.ends[k] = table.ends[k]
        /\ \A k \in Kind \ {"action"} : tb.ends[k] = table.ends[k]
    BY <1>0, <1>8, <2>2, <2>4, <2>6
  <2> QED BY <1>2, <1>5, <2>7, <2>8, StaysOn
<1>9. ASSUME table.stage = "ACTION", NEW moved \in Moves(table), NEW tb, NEW gone,
             tb = [moved EXCEPT !.posted = @ \/ then = "save",
                                !.stalled = then = "save" /\ table.stalled],
             gone = [nj EXCEPT !.next = moved.stage],
             Step(j, gone, tb, timers, TRUE)
      PROVE  StaysTyped /\ Kept /\ (Flowing => Flowing')
  <2>1. moved \in Tables /\ moved \in Table /\ moved.stage \in {"ACTION", "SETTLEMENT"}
        /\ moved.ends["action"] = NoTime
        /\ \A k \in Kind \ {"action"} : moved.ends[k] = table.ends[k]
    BY <1>0, <1>1, <1>9, MovesAre DEF Tables
  <2>2. PICK posted \in BOOLEAN : posted = (moved.posted \/ then = "save")
    BY <2>1 DEF Table
  <2>3. PICK stalled \in BOOLEAN : stalled = (then = "save" /\ table.stalled)
    BY <1>0, <1>1 DEF Table
  <2>4. tb = [moved EXCEPT !.posted = posted, !.stalled = stalled]
    BY <1>9, <2>2, <2>3
  <2>5. /\ tb \in Table /\ tb.stage = moved.stage /\ tb.left = moved.left /\ tb.live = moved.live
        /\ tb.ends = moved.ends /\ tb.posted = posted /\ tb.stalled = stalled
    BY <2>1, <2>4 DEF Table
  <2>6. tb \in Tables
    <3>1. stalled => posted
      BY <2>2, <2>3
    <3> QED BY <2>1, <2>5, <3>1 DEF Tables, Dealt
  <2>7. PICK stage \in {"ACTION", "SETTLEMENT"} : stage = moved.stage
    BY <2>1
  <2>8. gone \in Calls /\ gone.at = "left" /\ gone.then = then /\ gone.next = stage
    BY <1>3, <1>4, <1>9, <2>7 DEF Stage
  <2>9. CASE then = "save"
    <3>1. tb.posted /\ (table.stalled => tb.stalled)
      BY <2>2, <2>3, <2>5, <2>9
    <3> QED BY <1>2, <1>9, <2>1, <2>5, <2>6, <2>8, <2>9, <3>1, PostsOn
  <2>10. CASE then = "leaving"
    <3>1. Turning(gone) /\ Carrying(gone, KindOf(tb.stage))
      BY <2>1, <2>5, <2>7, <2>8, <2>10 DEF Turning, Carrying, KindOf
    <3>2. Goes(j, gone, tb, timers, TRUE) /\ StaysTyped
      BY <1>1, <1>9, <2>6, <2>8, StepGoes
    <3> QED BY <1>2, <1>9, <2>1, <2>5, <2>6, <2>8, <3>1, <3>2, MovesOn
  <2> QED BY <2>9, <2>10
<1>10. \/ Step(j, nj, old, timers, FALSE)
       \/ Step(j, nj, [old EXCEPT !.stage = "GONE"], timers, FALSE)
       \/ /\ table.stage = "ACTION" /\ table.left > 1
          /\ \E live \in BOOLEAN :
               Step(j, nj, [table EXCEPT !.left = @ - 1, !.live = live, !.ends.action = NoTime],
                    timers, FALSE)
       \/ /\ table.stage = "ACTION"
          /\ \E tb \in Moves(table) :
               Step(j, [nj EXCEPT !.next = tb.stage],
                    [tb EXCEPT !.posted = @ \/ then = "save",
                               !.stalled = then = "save" /\ table.stalled], timers, TRUE)
  BY <1>0, <1>4 DEF LeaveCurrentRoom
<1> QED BY <1>6, <1>7, <1>8, <1>9, <1>10

----------------------------------------------------------------------------
(* The callbacks of the timers *)

\* A timer that is due is not late, or one of the reasons holds.
LEMMA DueIsExcused ==
  ASSUME Sound, NEW s \in DueTimers, timers[s].kind = "action", timers[s].late,
         table.stage = "ACTION"
  PROVE  Excused
<1>1. timers[s].st = "live" /\ timers[s].rest = 0 /\ s \in Slot
  BY DEF DueTimers
<1>2. CASE ~timers[s].mapped
  BY <1>1, <1>2 DEF Excused
<1>3. CASE Astray \/ table.posted \/ \E j \in Job : Turning(job[j])
  BY <1>3 DEF Excused, Astray, Abandoned
<1>4. CASE timers[s].mapped /\ ~Astray /\ ~table.posted /\ \A j \in Job : ~Turning(job[j])
  <2>1. LateTimer(s)
    BY <1>1, <1>4 DEF LateTimer
  <2>2. Loose \/ \E j \in Job : Replaces(j, s)
    BY <1>1, <1>4, <2>1 DEF Sound, OnTime
  <2>3. ~\E j \in Job : Replaces(j, s)
    BY <1>1 DEF Replaces
  <2> QED BY <2>2, <2>3 DEF Loose, Excused
<1> QED BY <1>2, <1>3, <1>4

\* The timer is gone from its map.
LEMMA FiredAndDeleted ==
  ASSUME Typed, NEW s \in Slot, NEW k, k = timers[s].kind,
         NEW ts, ts = DeleteEntry(Fired(s), k)
  PROVE  /\ ts \in [Slot -> Timers]
         /\ \A t \in Slot : ts[t].st = "dead" => timers[t].st = "dead" /\ timers[t].kind = ts[t].kind
         /\ \A t \in Slot \ {s} : timers[t].st = "live" => ts[t].st = "live"
         /\ \A t \in Slot : timers[t].kind # k => ts[t] = timers[t]
         /\ \A t \in Slot : ts[t] = timers[t] \/ ts[t].kind = k \/ ts[t].st = "free"
<1>1. timers \in [Slot -> Timers] /\ k \in Kind
  BY TimerKinds DEF Typed
<1>2. PICK fd : fd = Fired(s)
  OBVIOUS
<1>3. /\ fd \in [Slot -> Timers]
      /\ \A t \in Slot \ {s} : fd[t] = timers[t]
      /\ timers[s].mapped => fd[s].st = "dead" /\ fd[s].kind = k /\ fd[s].mapped
      /\ ~timers[s].mapped => fd[s] = Free
  BY <1>1, <1>2, FiredIs
<1>4. /\ ts \in [Slot -> Timers]
      /\ \A t \in Slot :
           /\ ~Entry(fd, k, t) => ts[t] = fd[t]
           /\ Entry(fd, k, t) /\ fd[t].st = "dead" => ts[t] = Free
           /\ Entry(fd, k, t) /\ fd[t].st # "dead" =>
                ts[t].st = fd[t].st /\ ts[t].kind = k /\ ~ts[t].mapped
  BY <1>1, <1>2, <1>3, DeleteIs
<1>5. ts[s] = Free
  <2>1. CASE timers[s].mapped
    BY <1>3, <1>4, <2>1 DEF Entry
  <2>2. CASE ~timers[s].mapped
    <3>1. ~Free.mapped
      BY FreeIs DEF Free
    <3>2. ~Entry(fd, k, s)
      BY <1>3, <2>2, <3>1 DEF Entry
    <3> QED BY <1>3, <1>4, <2>2, <3>2
  <2> QED BY <2>1, <2>2
<1>6. \A t \in Slot \ {s} :
        /\ ~Entry(timers, k, t) => ts[t] = timers[t]
        /\ Entry(timers, k, t) /\ timers[t].st = "dead" => ts[t] = Free
        /\ Entry(timers, k, t) /\ timers[t].st # "dead" =>
             ts[t].st = timers[t].st /\ ts[t].kind = k /\ ~ts[t].mapped
  BY <1>3, <1>4 DEF Entry
<1>7. \A t \in Slot : timers[t].kind # k => t # s /\ ~Entry(timers, k, t)
  BY DEF Entry
<1> QED BY <1>4, <1>5, <1>6, <1>7, FreeIs

LEMMA FireKeeps ==
  ASSUME Sound, NEW s \in Slot, NEW j \in Job, Fire(j, s)
  PROVE  StaysTyped /\ Kept /\ Flowing'
<1>0. PICK tb : tb = table
  OBVIOUS
<1>1. tb \in Tables /\ timers \in [Slot -> Timers] /\ Typed
  BY <1>0 DEF Sound, Typed
<1>2. PICK k : k = timers[s].kind
  OBVIOUS
<1>3. /\ s \in DueTimers /\ job[j].at = "idle" /\ k = KindOf(table.stage)
      /\ Finalize(k, j, "idle", Fired(s)) /\ crashes' = crashes /\ "idle" \in Thens
  BY <1>2 DEF Fire, Thens
<1>4. PICK ts : ts = DeleteEntry(Fired(s), k)
  OBVIOUS
<1>5. /\ ts \in [Slot -> Timers]
      /\ \A t \in Slot : ts[t].st = "dead" => timers[t].st = "dead" /\ timers[t].kind = ts[t].kind
      /\ \A t \in Slot \ {s} : timers[t].st = "live" => ts[t].st = "live"
  BY <1>1, <1>2, <1>4, FiredAndDeleted
<1>6. CASE table.stage # "GONE"
  <2>1. RunOut(ts, k)
    <3>1. ASSUME k = "action"
          PROVE  Excused \/ \A t \in Slot : timers[t].st = "live" /\ timers[t].late => ts[t].st # "free"
      <4>1. table.stage = "ACTION"
        BY <1>1, <1>3, <3>1, StageIs DEF Stage
      <4>2. CASE timers[s].late
        BY <1>2, <1>3, <3>1, <4>1, <4>2, DueIsExcused
      <4>3. CASE ~timers[s].late
        BY <1>5, <4>3
      <4> QED BY <4>2, <4>3
    <3> QED BY <1>5, <3>1 DEF RunOut
  <2> QED BY <1>3, <1>4, <1>5, <1>6, <2>1, Finalizes
<1>7. CASE table.stage = "GONE"
  <2>1. k = "ready"
    BY <1>1, <1>3, <1>7, StageIs
  <2>2. PICK nj : nj = GoOn("idle")
    OBVIOUS
  <2>3. nj \in Calls /\ nj.at = "idle"
    BY <1>3, <2>2, GoOnIs
  <2>4. Step(j, nj, tb, ts, FALSE)
    BY <1>0, <1>3, <1>4, <1>7, <2>1, <2>2 DEF Finalize, FinalizeReadyCountdown
  <2>5. Goes(j, nj, tb, ts, FALSE) /\ StaysTyped
    BY <1>1, <1>3, <1>5, <2>3, <2>4, StepGoes
  <2>6. tb.left = table.left /\ tb.stage = "GONE"
    BY <1>0, <1>7
  <2> QED BY <1>1, <1>5, <2>3, <2>5, <2>6, Dissolved
<1> QED BY <1>6, <1>7

\* No call goes on.
LEMMA NobodyRecords ==
  ASSUME Typed, Recording, crashes' = crashes, recorded' = recorded, twice' = twice,
         table'.stage = table.stage, \A j \in Job : job'[j].at = job[j].at
  PROVE  Recording' /\ RecordsOnce
<1>1. \A j \in Job : (Records(j)' <=> job'[j].at = "record") /\ (Records(j) <=> job[j].at = "record")
  BY DEF Records
<1>2. \A j \in Job : Records(j)' <=> Records(j)
  BY <1>1
<1>3. Recording'
  BY <1>2 DEF Recording
<1> QED BY <1>3 DEF RecordsOnce

LEMMA FireInVainKeeps ==
  ASSUME Sound, NEW s \in Slot, FireInVain(s)
  PROVE  StaysTyped /\ Kept /\ (Flowing => Flowing')
<1>1. timers \in [Slot -> Timers] /\ Typed
  BY DEF Sound, Typed
<1>2. PICK k : k = timers[s].kind
  OBVIOUS
<1>3. /\ timers' = DeleteEntry(Fired(s), k) /\ k # KindOf(table.stage)
      /\ UNCHANGED <<table, job, crashes, recorded, twice>>
  BY <1>2 DEF FireInVain
<1>4. /\ timers' \in [Slot -> Timers]
      /\ \A t \in Slot : timers'[t].st = "dead" =>
           timers[t].st = "dead" /\ timers[t].kind = timers'[t].kind
      /\ \A t \in Slot : timers[t].kind # k => timers'[t] = timers[t]
      /\ \A t \in Slot : timers'[t] = timers[t] \/ timers'[t].kind = k \/ timers'[t].st = "free"
  BY <1>1, <1>2, <1>3, FiredAndDeleted
<1>5. StaysTyped
  BY <1>1, <1>3, <1>4 DEF StaysTyped, Typed
<1>6. Expected'
  <2>1. Expected
    BY DEF Sound
  <2> QED BY <1>3, <1>4, <2>1 DEF Expected, Arms
<1>7. OnTime'
  <2>1. CASE table.stage # "ACTION"
    BY <1>3, <2>1 DEF OnTime
  <2>2. CASE table.stage = "ACTION"
    <3>1. k # "action"
      BY <1>3, <2>2 DEF KindOf
    <3>2. \A t \in Slot :
            /\ timers[t].kind = "action" => timers'[t] = timers[t]
            /\ timers'[t].st = "live" /\ timers'[t].kind = "action" => timers'[t] = timers[t]
      BY <1>4, <3>1
    <3>3. OnTime
      BY DEF Sound
    <3>4. Astray' = Astray
      BY <1>3 DEF Astray, Abandoned, Crossed
    <3>5. (Loose => Loose') /\ (Runs("action") => Runs("action")')
      BY <3>2 DEF Loose, Runs
    <3>6. \A j \in Job : Arms(j, "action")' <=> Arms(j, "action")
      BY <1>3 DEF Arms
    <3>7. \A t \in Slot : LateTimer(t)' => LateTimer(t) /\ timers'[t] = timers[t]
      BY <3>2 DEF LateTimer
    <3>8. ASSUME NEW t \in Slot, LateTimer(t)', NEW j \in Job, Replaces(j, t) PROVE Replaces(j, t)'
      BY <1>3, <3>6, <3>7, <3>8 DEF Replaces
    <3>9. /\ table'.stage = table.stage /\ table'.posted = table.posted
          /\ (\A j \in Job : ~Turning(job'[j])) <=> \A j \in Job : ~Turning(job[j])
      BY <1>3
    <3>10. SUFFICES ASSUME ~Astray, ~table.posted, \A j \in Job : ~Turning(job[j])
                    PROVE  /\ \A t \in Slot : LateTimer(t)' => Loose' \/ \E j \in Job : Replaces(j, t)'
                           /\ \A j \in Job : Arms(j, "action")' /\ job'[j].late =>
                                Runs("action")' \/ \E i \in Job \ {j} : Arms(i, "action")'
      BY <3>4, <3>9 DEF OnTime
    <3>11. /\ \A t \in Slot : LateTimer(t) => Loose \/ \E j \in Job : Replaces(j, t)
           /\ \A j \in Job : Arms(j, "action") /\ job[j].late =>
                Runs("action") \/ \E i \in Job \ {j} : Arms(i, "action")
      BY <2>2, <3>3, <3>10 DEF OnTime
    <3>12. ASSUME NEW t \in Slot, LateTimer(t)' PROVE Loose' \/ \E j \in Job : Replaces(j, t)'
      BY <3>5, <3>7, <3>8, <3>11, <3>12
    <3>13. job' = job
      BY <1>3
    <3> QED BY <3>5, <3>6, <3>11, <3>12, <3>13
  <2> QED BY <2>1, <2>2
<1>8. Recording' /\ RecordsOnce
  BY <1>1, <1>3, NobodyRecords DEF Sound
<1>9. InTime
  <2>1. table'.left = table.left /\ table.left \in Nat
    BY <1>1, <1>3, NoTimeIsNone DEF Typed, Tables, Table
  <2> QED BY <2>1 DEF InTime, Overtakes
<1>10. ASSUME Flowing PROVE Flowing'
  <2>1. Astray' = Astray /\ Wanted' = Wanted /\ table'.stage = table.stage
    BY <1>3 DEF Astray, Abandoned, Crossed, Wanted
  <2>2. Runs(KindOf(table.stage)) => Runs(KindOf(table.stage))'
    BY <1>3, <1>4 DEF Runs
  <2>3. \A j \in Job : Carries(j, KindOf(table.stage))' <=> Carries(j, KindOf(table.stage))
    BY <1>3 DEF Carries
  <2> QED BY <1>3, <1>10, <2>1, <2>2, <2>3 DEF Flowing
<1> QED BY <1>5, <1>6, <1>7, <1>8, <1>9, <1>10 DEF Kept

----------------------------------------------------------------------------
(* Time passes *)

\* What a tick makes of the timers and of the calls.
LEMMA TickIs ==
  ASSUME Typed, Tick
  PROVE  /\ StaysTyped /\ saved' \in Tables
         /\ table' = Later(table)
         /\ UNCHANGED <<lock, crashes, restarted, recorded, twice>>
         /\ \A s \in Slot :
              /\ timers'[s].st = timers[s].st /\ timers'[s].kind = timers[s].kind
              /\ timers'[s].mapped = timers[s].mapped /\ timers'[s].late = timers[s].late
              /\ timers[s].st = "live" => timers'[s].rest = timers[s].rest - 1
         /\ \A j \in Job :
              /\ job'[j].at = job[j].at /\ job'[j].kind = job[j].kind /\ job'[j].late = job[j].late
              /\ job'[j].next = job[j].next /\ job'[j].then = job[j].then /\ ~job[j].aged
<1>1. /\ table \in Tables /\ saved \in Tables
      /\ timers \in [Slot -> Timers] /\ job \in [Job -> Calls]
  BY DEF Typed
<1>2. table' = Later(table) /\ saved' = Later(saved)
  BY DEF Tick
<1>3. table' \in Tables /\ saved' \in Tables
  BY <1>1, <1>2, LaterIs
<1>4. ASSUME NEW s \in Slot
      PROVE  /\ timers'[s] \in Timers
             /\ timers'[s].st = timers[s].st /\ timers'[s].kind = timers[s].kind
             /\ timers'[s].mapped = timers[s].mapped /\ timers'[s].late = timers[s].late
             /\ timers[s].st = "live" => timers'[s].rest = timers[s].rest - 1
  <2>1. PICK old : old = timers[s]
    OBVIOUS
  <2>2. old \in Timers /\ old \in Timer
    BY <1>1, <2>1 DEF Timers
  <2>3. old.st = "live" => old.rest # 0
    BY <2>1 DEF Tick, DueTimers
  <2>4. PICK rest : rest = old.rest - 1
    OBVIOUS
  <2>5. old.st = "live" => rest \in Nat
    BY <2>2, <2>3, <2>4 DEF Timer
  <2>6. PICK new : new = [old EXCEPT !.rest = rest]
    OBVIOUS
  <2>7. new.st = old.st /\ new.kind = old.kind /\ new.mapped = old.mapped /\ new.late = old.late
        /\ new.rest = rest
    BY <2>2, <2>6 DEF Timer
  <2>8. old.st = "live" => new \in Timers
    BY <2>2, <2>5, <2>6, <2>7 DEF Timers, Timer
  <2>9. timers'[s] = IF old.st = "live" THEN new ELSE old
    BY <2>1, <2>4, <2>6 DEF Tick
  <2>10. CASE old.st = "live"
    BY <2>1, <2>4, <2>7, <2>8, <2>9, <2>10
  <2>11. CASE old.st # "live"
    BY <2>1, <2>2, <2>9, <2>11
  <2> QED BY <2>10, <2>11
<1>5. timers' \in [Slot -> Timers]
  <2>1. timers' = [s \in Slot |-> timers'[s]]
    BY DEF Tick
  <2> QED BY <1>4, <2>1
<1>6. ASSUME NEW j \in Job
      PROVE  /\ job'[j] \in Calls
             /\ job'[j].at = job[j].at /\ job'[j].kind = job[j].kind /\ job'[j].late = job[j].late
             /\ job'[j].next = job[j].next /\ job'[j].then = job[j].then /\ ~job[j].aged
  <2>1. PICK old : old = job[j]
    OBVIOUS
  <2>2. old \in Calls /\ old \in Jobs /\ old.snap \in Tables
    BY <1>1, <2>1 DEF Calls
  <2>3. PICK snap : snap = Later(old.snap)
    OBVIOUS
  <2>4. snap \in Tables /\ snap \in Table
    BY <2>2, <2>3, LaterIs DEF Tables
  <2>5. PICK aged \in BOOLEAN : aged = (old.aged \/ old.at # "idle")
    <3>1. old.aged \in BOOLEAN
      BY <2>2 DEF Jobs
    <3> QED BY <3>1
  <2>6. PICK new : new = [old EXCEPT !.aged = aged, !.snap = snap]
    OBVIOUS
  <2>7. new \in Jobs /\ new.at = old.at /\ new.kind = old.kind /\ new.late = old.late
        /\ new.next = old.next /\ new.then = old.then /\ new.rest = old.rest /\ new.snap = snap
    BY <2>2, <2>4, <2>6 DEF Jobs
  <2>8. new \in Calls
    BY <2>2, <2>4, <2>7 DEF Calls
  <2>9. job'[j] = new
    <3>1. job'[j] = [job[j] EXCEPT !.aged = @ \/ job[j].at # "idle", !.snap = Later(@)]
      BY DEF Tick
    <3> QED BY <2>1, <2>3, <2>5, <2>6, <3>1
  <2>10. ~job[j].aged
    BY DEF Tick
  <2> QED BY <2>1, <2>7, <2>8, <2>9, <2>10
<1>7. job' \in [Job -> Calls]
  <2>1. job' = [j \in Job |-> job'[j]]
    BY DEF Tick
  <2> QED BY <1>6, <2>1
<1>8. UNCHANGED <<lock, crashes, restarted, recorded, twice>>
  BY DEF Tick
<1> QED BY <1>2, <1>3, <1>4, <1>5, <1>6, <1>7, <1>8 DEF StaysTyped, Typed

LEMMA TickKeeps ==
  ASSUME Sound, Tick
  PROVE  StaysTyped /\ Kept /\ (Flowing => Flowing')
<1>1. Typed /\ Expected /\ OnTime /\ Recording /\ table \in Tables
  BY DEF Sound, Typed
<1>2. StaysTyped /\ table' = Later(table) /\ UNCHANGED <<crashes, recorded, twice>>
  BY <1>1, TickIs
<1>3. \A s \in Slot :
        /\ timers'[s].st = timers[s].st /\ timers'[s].kind = timers[s].kind
        /\ timers'[s].mapped = timers[s].mapped /\ timers'[s].late = timers[s].late
        /\ timers[s].st = "live" => timers'[s].rest = timers[s].rest - 1
  BY <1>1, TickIs
<1>4. \A j \in Job :
        /\ job'[j].at = job[j].at /\ job'[j].kind = job[j].kind /\ job'[j].late = job[j].late
        /\ job'[j].next = job[j].next /\ job'[j].then = job[j].then /\ ~job[j].aged
  BY <1>1, TickIs
<1>5. /\ table'.stage = table.stage /\ table'.left = table.left /\ table'.live = table.live
      /\ table'.stalled = table.stalled /\ table'.posted = table.posted
      /\ \A k \in Kind : table'.ends[k] = NoTime <=> table.ends[k] = NoTime
  BY <1>1, <1>2, LaterIs
<1>6. Astray' = Astray /\ Wanted' = Wanted
  <2>1. KindOf(table.stage) \in Kind
    BY <1>1, StageIs
  <2>2. Crossed' <=> Crossed
    BY <1>5 DEF Crossed
  <2>3. Wanted' <=> Wanted
    BY <1>2, <1>5, <2>1 DEF Wanted
  <2> QED BY <1>5, <2>2, <2>3 DEF Astray, Abandoned, Wanted, Crossed
<1>7. \A j \in Job : Arms(j, "action")' <=> Arms(j, "action")
  BY <1>4 DEF Arms
<1>8. Expected'
  BY <1>1, <1>3, <1>4, <1>5 DEF Expected, Arms
<1>9. Recording' /\ RecordsOnce
  BY <1>1, <1>2, <1>4, <1>5, NobodyRecords
<1>10. InTime
  <2>1. table.left \in Nat
    BY <1>1, NoTimeIsNone DEF Tables, Table
  <2> QED BY <1>5, <2>1 DEF InTime, Overtakes
<1>11. OnTime'
  <2>1. (Loose => Loose') /\ (Runs("action") => Runs("action")')
    BY <1>3 DEF Loose, Runs
  <2>2. \A s \in Slot : LateTimer(s)' => LateTimer(s)
    BY <1>3 DEF LateTimer
  <2>3. ASSUME NEW s \in Slot, LateTimer(s), NEW j \in Job, Replaces(j, s) PROVE Replaces(j, s)'
    <3>1. timers[s].rest \in Nat /\ timers[s].rest >= 2
      BY <1>1, <1>4, <2>3, TimerKinds DEF Replaces
    <3>2. timers'[s].rest = timers[s].rest - 1
      BY <1>3, <2>3 DEF LateTimer
    <3>3. job'[j].aged
      <4>1. job[j].at = "arm"
        BY <2>3 DEF Replaces, Arms
      <4>2. PICK old : old = job[j]
        OBVIOUS
      <4>3. old \in Jobs
        BY <1>1, <4>2, CallIs DEF Calls
      <4>4. job'[j] = [old EXCEPT !.aged = @ \/ old.at # "idle", !.snap = Later(@)]
        BY <4>2 DEF Tick
      <4> QED BY <4>1, <4>2, <4>3, <4>4 DEF Jobs
    <3> QED BY <1>7, <2>3, <3>1, <3>2, <3>3 DEF Replaces
  <2>4. SUFFICES ASSUME table.stage = "ACTION", ~Astray, ~table.posted, \A j \in Job : ~Turning(job[j])
                 PROVE  /\ \A s \in Slot : LateTimer(s)' => Loose' \/ \E j \in Job : Replaces(j, s)'
                        /\ \A j \in Job : Arms(j, "action")' /\ job'[j].late =>
                             Runs("action")' \/ \E i \in Job \ {j} : Arms(i, "action")'
    <3>1. \A j \in Job : Turning(job'[j]) <=> Turning(job[j])
      BY <1>4 DEF Turning
    <3> QED BY <1>5, <1>6, <3>1 DEF OnTime
  <2>5. /\ \A s \in Slot : LateTimer(s) => Loose \/ \E j \in Job : Replaces(j, s)
        /\ \A j \in Job : Arms(j, "action") /\ job[j].late =>
             Runs("action") \/ \E i \in Job \ {j} : Arms(i, "action")
    BY <1>1, <2>4 DEF OnTime
  <2>6. ASSUME NEW s \in Slot, LateTimer(s)' PROVE Loose' \/ \E j \in Job : Replaces(j, s)'
    BY <2>1, <2>2, <2>3, <2>5, <2>6
  <2> QED BY <1>4, <1>7, <2>1, <2>5, <2>6
<1>12. ASSUME Flowing PROVE Flowing'
  <2>1. Runs(KindOf(table.stage)) => Runs(KindOf(table.stage))'
    BY <1>3, <1>5 DEF Runs
  <2>2. \A j \in Job : Carries(j, KindOf(table.stage)) => Carries(j, KindOf(table.stage))'
    BY <1>4, <1>5 DEF Carries, Carrying, Turning
  <2> QED BY <1>5, <1>6, <1>12, <2>1, <2>2 DEF Flowing
<1> QED BY <1>2, <1>8, <1>9, <1>10, <1>11, <1>12 DEF Kept

\* The server restarts.
LEMMA CrashKeeps ==
  ASSUME Sound, Crash
  PROVE  StaysTyped /\ Kept
<1>1. Typed /\ crashes \in Nat
  BY BoundAssumption DEF Sound, Typed
<1>2. /\ table' = saved /\ crashes' = crashes + 1 /\ recorded' = recorded /\ ~twice'
      /\ twice' \in BOOLEAN
      /\ timers' = [s \in Slot |-> Free] /\ job' = [j \in Job |-> Idle]
  BY DEF Crash
<1>3. /\ \A s \in Slot : timers'[s] = Free
      /\ \A j \in Job : job'[j] = Idle
  BY <1>2
<1>4. StaysTyped
  BY <1>1, <1>2, FreeIs, IdleIs DEF StaysTyped, Typed
<1>5. /\ \A s \in Slot : timers'[s].st = "free"
      /\ \A j \in Job : job'[j].at = "idle"
  BY <1>3, FreeIs, IdleIs
<1>6. Expected'
  BY <1>5 DEF Expected
<1>7. OnTime'
  BY <1>5 DEF OnTime, LateTimer, Arms
<1>8. crashes' # 0 /\ crashes' # crashes
  BY <1>1, <1>2
<1>9. Recording' /\ RecordsOnce
  BY <1>5, <1>8 DEF Recording, RecordsOnce, Records
<1>10. InTime
  BY <1>8 DEF InTime, Overtakes
<1> QED BY <1>4, <1>6, <1>7, <1>9, <1>10 DEF Kept

----------------------------------------------------------------------------
(* The invariant *)

\* The lock, the snapshot and the counts of the restarts.
Framed ==
  /\ lock' \in Job \cup {NoJob} /\ saved' \in Tables /\ crashes' \in 0..MaxCrashes
  /\ restarted' \in BOOLEAN /\ (restarted' => crashes' > 0)

LEMMA Frames ==
  ASSUME IInv, [Next]_vars
  PROVE  Framed
<1>1. /\ Typed /\ lock \in Job \cup {NoJob} /\ saved \in Tables /\ crashes \in 0..MaxCrashes
      /\ restarted \in BOOLEAN /\ (restarted => crashes > 0)
  BY DEF IInv, Sound, Typed
<1>2. ASSUME NEW j \in Job, Message(j) \/ LeaveRoom(j) PROVE Framed
  <2>1. lock' \in {NoJob, j}
    BY <1>2 DEF Message, LeaveRoom, Locks
  <2>2. saved' = saved /\ crashes' = crashes
    BY <1>2 DEF Message, LeaveRoom
  <2>3. restarted' \in BOOLEAN /\ (restarted' => restarted)
    <3>1. CASE Message(j)
      <4>1. ~restarted' /\ restarted' \in BOOLEAN
        BY <3>1 DEF Message
      <4> QED BY <4>1
    <3>2. CASE LeaveRoom(j)
      <4>1. restarted' = restarted
        BY <3>2 DEF LeaveRoom
      <4> QED BY <1>1, <4>1
    <3> QED BY <1>2, <3>1, <3>2
  <2> QED BY <1>1, <2>1, <2>2, <2>3 DEF Framed
<1>3. ASSUME NEW j \in Job, JoinRoom(j) \/ LeaveByPost(j) PROVE Framed
  <2>1. CASE JoinRoom(j)
    <3>1. lock' = lock /\ saved' = saved /\ crashes' = crashes /\ ~restarted' /\ restarted' \in BOOLEAN
      BY <2>1 DEF JoinRoom
    <3> QED BY <1>1, <3>1 DEF Framed
  <2>2. CASE LeaveByPost(j)
    <3>1. UNCHANGED <<lock, saved, crashes, restarted>>
      BY <2>2 DEF LeaveByPost
    <3> QED BY <1>1, <3>1 DEF Framed
  <2> QED BY <1>3, <2>1, <2>2
<1>4. ASSUME NEW j \in Job, GoesOn(j) PROVE Framed
  <2>1. job[j].snap \in Tables
    BY <1>1, CallIs
  <2>2. Continues(j) /\ saved' \in {saved, job[j].snap}
    BY <1>4 DEF GoesOn, Abandon, Act, Ready, Readied, Join, Store, Saved, Acted, Left, Leaving,
                Counted, Recorded, WasReset, Arm
  <2> QED BY <1>1, <2>1, <2>2 DEF Continues, Unlocks, Framed
<1>5. ASSUME NEW s \in Slot, FireInVain(s) \/ \E j \in Job : Fire(j, s) PROVE Framed
  BY <1>1, <1>5 DEF FireInVain, Fire, Framed
<1>6. CASE Tick
  BY <1>1, <1>6, TickIs DEF Framed
<1>7. CASE Crash
  BY <1>1, <1>7, BoundAssumption DEF Crash, Framed
<1>8. CASE UNCHANGED vars
  BY <1>1, <1>8 DEF vars, Framed
<1> QED BY <1>2, <1>3, <1>4, <1>5, <1>6, <1>7, <1>8 DEF Next

\* A table that has been restored is looked after by the first who comes.
LEMMA MessageKeeps ==
  ASSUME IInv, NEW j \in Job, Message(j) \/ JoinRoom(j)
  PROVE  StaysTyped /\ Kept /\ Flowing'
<1>1. PICK then \in {"act", "ready", "join"} : EnsureRecovered(j, then)
  BY DEF Message, JoinRoom
<1>2. Sound /\ job[j].at = "idle" /\ table.stage # "GONE" /\ crashes' = crashes
  BY DEF IInv, Message, JoinRoom, Starts
<1>3. crashes = 0 => Flowing
  BY DEF IInv
<1> QED BY <1>1, <1>2, <1>3, Recovers

LEMMA NextKeeps ==
  ASSUME IInv, Next
  PROVE  StaysTyped /\ Kept /\ (~restarted' => Flowing')
<1>0. Sound /\ (~restarted => Flowing)
  BY DEF IInv
<1>1. ASSUME NEW j \in Job, Message(j) \/ JoinRoom(j)
      PROVE  StaysTyped /\ Kept /\ (~restarted' => Flowing')
  BY <1>1, MessageKeeps
<1>2. ASSUME NEW j \in Job, LeaveRoom(j) \/ LeaveByPost(j)
      PROVE  StaysTyped /\ Kept /\ (~restarted' => Flowing')
  <2>1. restarted' = restarted /\ crashes' = crashes /\ Starts(j)
    BY <1>2 DEF LeaveRoom, LeaveByPost
  <2>2. PICK then \in {"leaving", "save"} : LeaveCurrentRoom(j, then)
    BY <1>2 DEF LeaveRoom, LeaveByPost
  <2> QED BY <1>0, <2>1, <2>2, LeaveKeeps
<1>3. ASSUME NEW j \in Job, GoesOn(j)
      PROVE  StaysTyped /\ Kept /\ (~restarted' => Flowing')
  <2>1. restarted' = restarted
    BY <1>3 DEF GoesOn, Abandon, Act, Ready, Readied, Join, Store, Saved, Acted, Left, Leaving,
                Counted, Recorded, WasReset, Arm, Continues
  <2> QED BY <1>0, <1>3, <2>1, GoesOnKeeps
<1>4. ASSUME NEW s \in Slot, FireInVain(s)
      PROVE  StaysTyped /\ Kept /\ (~restarted' => Flowing')
  <2>1. restarted' = restarted
    BY <1>4 DEF FireInVain
  <2> QED BY <1>0, <1>4, <2>1, FireInVainKeeps
<1>5. ASSUME NEW s \in Slot, NEW j \in Job, Fire(j, s)
      PROVE  StaysTyped /\ Kept /\ (~restarted' => Flowing')
  BY <1>0, <1>5, FireKeeps
<1>6. CASE Tick
  <2>1. restarted' = restarted
    BY <1>6 DEF Tick
  <2> QED BY <1>0, <1>6, <2>1, TickKeeps
<1>7. CASE Crash
  <2>1. restarted'
    BY <1>7 DEF Crash
  <2> QED BY <1>0, <1>7, <2>1, CrashKeeps
<1> QED BY <1>1, <1>2, <1>3, <1>4, <1>5, <1>6, <1>7 DEF Next

LEMMA NothingKeeps ==
  ASSUME IInv, UNCHANGED vars
  PROVE  StaysTyped /\ Kept /\ (~restarted' => Flowing')
<1>1. UNCHANGED <<table, timers, job, lock, saved, crashes, restarted, recorded, twice>>
  BY DEF vars
<1>2. Typed /\ Expected /\ OnTime /\ Recording /\ (~restarted => Flowing)
  BY DEF IInv, Sound
<1>3. StaysTyped
  BY <1>1, <1>2 DEF StaysTyped, Typed
<1>4. Expected'
  BY <1>1, <1>2 DEF Expected, Arms
<1>5. OnTime'
  BY <1>1, <1>2 DEF OnTime, Astray, Abandoned, Crossed, LateTimer, Loose, Replaces, Arms, Runs
<1>6. Recording' /\ RecordsOnce
  BY <1>1, <1>2, NobodyRecords
<1>7. InTime
  <2>1. table.left \in Nat
    BY <1>2, NoTimeIsNone DEF Typed, Tables, Table
  <2> QED BY <1>1, <2>1 DEF InTime, Overtakes
<1>8. ~restarted' => Flowing'
  BY <1>1, <1>2 DEF Flowing, Astray, Abandoned, Crossed, Wanted, Runs, Carries
<1> QED BY <1>3, <1>4, <1>5, <1>6, <1>7, <1>8 DEF Kept

LEMMA StepKeeps ==
  ASSUME IInv, [Next]_vars
  PROVE  IInv' /\ RecordsOnce /\ InTime
<1>1. StaysTyped /\ Kept /\ (~restarted' => Flowing')
  BY NextKeeps, NothingKeeps
<1>2. Framed
  BY Frames
<1>3. Typed'
  BY <1>1, <1>2 DEF StaysTyped, Framed, Typed
<1>4. Sound'
  BY <1>1, <1>3 DEF Kept, Sound
<1>5. restarted' => crashes' > 0
  BY <1>2 DEF Framed
<1> QED BY <1>1, <1>4, <1>5 DEF IInv, Kept

LEMMA InitSound == Init => IInv
<1> SUFFICES ASSUME Init PROVE IInv
  OBVIOUS
<1>1. /\ table = NewTable /\ saved = NewTable /\ lock = NoJob /\ crashes = 0 /\ recorded = 0
      /\ ~restarted /\ restarted \in BOOLEAN /\ ~twice /\ twice \in BOOLEAN
      /\ timers = [s \in Slot |-> Free] /\ job = [j \in Job |-> Idle]
  BY DEF Init
<1>2. /\ \A s \in Slot : timers[s].st = "free"
      /\ \A j \in Job : job[j].at = "idle"
  BY <1>1, FreeIs, IdleIs
<1>3. table.stage = "WAITING" /\ "ready" \in Kind /\ table.ends = [k \in Kind |-> NoTime]
  BY <1>1, NewTableIs DEF Kind
<1>4. Typed
  BY <1>1, NewTableIs, FreeIs, IdleIs, BoundAssumption DEF Typed
<1>5. Expected
  BY <1>2 DEF Expected
<1>6. OnTime
  BY <1>3 DEF OnTime
<1>7. Recording
  BY <1>1, <1>2 DEF Recording, Records
<1>8. Flowing
  <2>1. KindOf(table.stage) = "ready"
    BY <1>3 DEF KindOf
  <2>2. ~Wanted
    BY <1>3, <2>1 DEF Wanted
  <2> QED BY <2>2 DEF Flowing
<1> QED BY <1>1, <1>4, <1>5, <1>6, <1>7, <1>8 DEF IInv, Sound

LEMMA Invariance == Spec => []IInv
<1>1. IInv /\ [Next]_vars => IInv'
  BY StepKeeps
<1> QED BY <1>1, InitSound, PTL DEF Spec

----------------------------------------------------------------------------
(* The properties *)

\* TypeOK: every variable keeps its type, whatever the calls, timers and restarts do.
THEOREM TypeCorrect == Spec => []TypeOK
<1>1. IInv => TypeOK
  <2> SUFFICES ASSUME IInv PROVE TypeOK
    OBVIOUS
  <2>1. Typed
    BY DEF IInv, Sound
  <2>2. table \in Table /\ saved \in Table
    BY <2>1 DEF Typed, Tables
  <2>3. timers \in [Slot -> Timer]
    BY <2>1 DEF Typed, Timers
  <2>4. job \in [Job -> Jobs]
    BY <2>1 DEF Typed, Calls
  <2> QED BY <2>1, <2>2, <2>3, <2>4 DEF Typed, TypeOK
<1> QED BY <1>1, Invariance, PTL

\* FlowAlive: between two calls, however they, the timers and the restarts interleave, the
\* deadline that clients are shown has a live timer that will act on it, and a hand or a
\* settlement that no restart has touched has one.
THEOREM FlowStaysAlive == Spec => []FlowAlive
<1>1. IInv => FlowAlive
  <2> SUFFICES ASSUME IInv, Quiet, ~restarted, ~table.stalled, ~Abandoned, ~Crossed, table.stage # "GONE",
                      \/ table.ends[KindOf(table.stage)] # NoTime
                      \/ crashes = 0 /\ (table.live \/ table.stage = "SETTLEMENT")
               PROVE  Runs(KindOf(table.stage))
    BY DEF FlowAlive
  <2>1. Flowing /\ Typed
    BY DEF IInv, Sound
  <2>2. table.live => table.stage = "ACTION"
    BY <2>1 DEF Typed, Tables, Dealt
  <2>3. Wanted
    BY <2>2 DEF Wanted
  <2>4. ~Astray
    BY DEF Astray
  <2>5. \A j \in Job : ~Carries(j, KindOf(table.stage))
    BY DEF Quiet, Carries, Carrying, Turning
  <2> QED BY <2>1, <2>3, <2>4, <2>5 DEF Flowing
<1> QED BY <1>1, Invariance, PTL

\* SettledOnce: without restarts, the settlement of a hand is recorded again only while
\* another call is recording it, and only then can the table be reset in the next hand.
THEOREM SettlesOnce == Spec => SettledOnce
<1>1. IInv /\ [Next]_vars =>
        [\A j \in Job :
           /\ job'[j].at = "record" /\ job[j].at # "record" /\ recorded > 0
                => crashes > 0 \/ \E i \in Job \ {j} : job[i].at = "record"
           /\ job[j].at = "record" /\ job'[j].at = "reset" /\ ~twice
                => table.stage = "SETTLEMENT"]_vars
  BY StepKeeps DEF RecordsOnce
<1> QED BY <1>1, Invariance, PTL DEF Spec, SettledOnce

\* LateTimeouts: a player is not folded by the timer of an earlier turn, but while the call
\* that moved the turn has yet to clear it, and when the flow has been led astray.
THEOREM TimeoutsInTime == Spec => LateTimeouts
<1>1. IInv /\ [Next]_vars =>
        [\A s \in Slot :
           LET overtaken == /\ timers[s].st = "live" /\ timers[s].late /\ timers'[s].st = "free"
                            /\ table'.left < table.left /\ crashes' = crashes
           IN  overtaken =>
                 \/ \E t \in Slot : timers[t].st = "live" /\ timers[t].kind = "action" /\ ~timers[t].mapped
                 \/ \E j \in Job : Turning(job[j])
                 \/ table.posted \/ table.stalled \/ Crossed]_vars
  BY StepKeeps DEF InTime, Overtakes, Excused
<1> QED BY <1>1, Invariance, PTL DEF Spec, LateTimeouts

=============================================================================
