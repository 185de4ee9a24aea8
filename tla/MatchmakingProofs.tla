-------------------------- MODULE MatchmakingProofs --------------------------
(***************************************************************************)
(* The safety of Matchmaking for any number of users, calls, rooms and     *)
(* seats.                                                                  *)
(***************************************************************************)
EXTENDS Matchmaking, FiniteSetTheorems, SequenceTheorems, TLAPS

\* A call in progress is a user's; one about a room knows which.
Row(x) ==
  /\ x \in Jobs
  /\ x.at = "idle" => x = Idle
  /\ x.at # "idle" => x.user \in User
  /\ x.at \in {"check", "left"} => x.room \in Room

Rows == \A j \in Job : Row(job[j])

\* Nobody searches on the page of a room, from where he asks to leave.
InLobby ==
  /\ \A u \in User : searching[u] => page[u] = None
  /\ \A j \in Job : job[j].at = "left" /\ job[j].live => page[job[j].user] # None

Typed == TypeOK /\ Rows

----------------------------------------------------------------------------
(* Rows of job *)

LEMMA IdleRow == Row(Idle) /\ Idle.live = FALSE /\ Idle.at = "idle"
BY RoomAssumption DEF Row, Idle, Jobs, None, Room

LEMMA RoomFacts ==
  /\ None \in Answer /\ None \notin Room /\ Room \subseteq Answer /\ Room \subseteq Nat
  /\ \A r \in Answer : r # None => r \in Room
BY RoomAssumption DEF None, Room, Answer

\* What Late changes.
Later(x, y) ==
  /\ y \in Jobs /\ y.at = x.at /\ y.user = x.user /\ y.live = x.live
  /\ y.room = x.room /\ y.rooms = x.rooms /\ y.others = x.others
  /\ x.raced => y.raced
  /\ x.at # "check" => y = x

LEMMA LateRow ==
  ASSUME Typed, NEW r \in Room
  PROVE  /\ DOMAIN Late(r) = Job
         /\ \A i \in Job :
              /\ Later(job[i], Late(r)[i]) /\ Row(Late(r)[i])
              /\ job[i].at = "check" => Late(r)[i].raced = (job[i].raced \/ job[i].room = r)
<1>1. DOMAIN Late(r) = Job
  BY DEF Late
<1>2. ASSUME NEW i \in Job
      PROVE  /\ Later(job[i], Late(r)[i]) /\ Row(Late(r)[i])
             /\ job[i].at = "check" => Late(r)[i].raced = (job[i].raced \/ job[i].room = r)
  <2> DEFINE x == job[i]
             y == Late(r)[i]
  <2>1. x \in Jobs /\ Row(x)
    BY DEF Typed, TypeOK, Rows
  <2>2. y = [x EXCEPT !.raced = x.raced \/ (x.at = "check" /\ x.room = r)]
    BY DEF Late
  <2>3. y = [at |-> x.at, user |-> x.user, live |-> x.live, room |-> x.room, rooms |-> x.rooms,
             others |-> x.others, raced |-> x.raced \/ (x.at = "check" /\ x.room = r)]
    BY <2>1, <2>2 DEF Jobs
  <2>4. x.at # "check" => y = x
    BY <2>1, <2>2 DEF Jobs
  <2>5. y \in Jobs
    BY <2>1, <2>3 DEF Jobs
  <2>6. Later(x, y)
    BY <2>1, <2>3, <2>4, <2>5 DEF Later, Jobs
  <2>7. Row(y)
    BY <2>1, <2>4, <2>5, <2>6 DEF Row, Later
  <2>8. x.at = "check" => y.raced = (x.raced \/ x.room = r)
    BY <2>1, <2>3 DEF Jobs
  <2> QED BY <2>6, <2>7, <2>8
<1> QED BY <1>1, <1>2

\* What Disconnected changes.
Cut(u, x, y) ==
  /\ y \in Jobs /\ y.at = x.at /\ y.user = x.user
  /\ y.room = x.room /\ y.rooms = x.rooms /\ y.others = x.others /\ y.raced = x.raced
  /\ y.live => x.live
  /\ x.user # u => y = x
  /\ x.user = u => ~y.live

LEMMA CutRow ==
  ASSUME Typed, NEW u \in User
  PROVE  /\ DOMAIN Disconnected(u) = Job
         /\ \A i \in Job : Cut(u, job[i], Disconnected(u)[i]) /\ Row(Disconnected(u)[i])
<1>1. DOMAIN Disconnected(u) = Job
  BY DEF Disconnected
<1>2. ASSUME NEW i \in Job
      PROVE  Cut(u, job[i], Disconnected(u)[i]) /\ Row(Disconnected(u)[i])
  <2> DEFINE x == job[i]
             y == Disconnected(u)[i]
  <2>1. x \in Jobs /\ Row(x)
    BY DEF Typed, TypeOK, Rows
  <2>2. y = [x EXCEPT !.live = x.live /\ x.user # u]
    BY DEF Disconnected
  <2>3. y = [at |-> x.at, user |-> x.user, live |-> x.live /\ x.user # u, room |-> x.room,
             rooms |-> x.rooms, others |-> x.others, raced |-> x.raced]
    BY <2>1, <2>2 DEF Jobs
  <2>4. x.user # u => y = x
    BY <2>1, <2>2 DEF Jobs
  <2>5. y \in Jobs
    BY <2>1, <2>3 DEF Jobs
  <2> HIDE DEF y
  <2>9. y.live = (x.live /\ x.user # u) /\ y.raced = x.raced
    BY <2>1, <2>3
  <2>6. Cut(u, x, y)
    <3>1. y.at = x.at /\ y.user = x.user /\ y.room = x.room /\ y.rooms = x.rooms /\ y.others = x.others
      BY <2>3
    <3> QED BY <2>4, <2>5, <2>9, <3>1 DEF Cut
  <2>7. x.at = "idle" => y = x
    BY <2>1, <2>4, JobAssumption DEF Row, Idle
  <2>8. Row(y)
    BY <2>1, <2>5, <2>6, <2>7 DEF Row, Cut
  <2> QED BY <2>6, <2>8 DEF y
<1> QED BY <1>1, <1>2

----------------------------------------------------------------------------
(* What the parts of the actions do *)

\* A mailbox has got x.
Has(c, x) == \E i \in DOMAIN c : c[i] = x

LEMMA OneAnswer ==
  ASSUME NEW c \in Seq(Answer), NEW x \in Answer
  PROVE  /\ c \o <<x>> \in Seq(Answer) /\ c \o <<x>> # <<>>
         /\ \A z : Has(c \o <<x>>, z) => z = x \/ Has(c, z)
<1>1. /\ <<x>> \in Seq(Answer) /\ Len(<<x>>) = 1 /\ <<x>>[1] = x
  OBVIOUS
<1>2. /\ c \o <<x>> \in Seq(Answer) /\ Len(c \o <<x>>) = Len(c) + 1
      /\ \A i \in 1 .. Len(c) + 1 : (c \o <<x>>)[i] = IF i <= Len(c) THEN c[i] ELSE <<x>>[i - Len(c)]
  BY <1>1, ConcatProperties
<1>3. Len(c) \in Nat /\ DOMAIN c = 1 .. Len(c) /\ DOMAIN (c \o <<x>>) = 1 .. Len(c) + 1
  BY <1>2, LenProperties
<1>4. c \o <<x>> # <<>>
  BY <1>2, <1>3, EmptySeq
<1>5. ASSUME NEW z, Has(c \o <<x>>, z) PROVE z = x \/ Has(c, z)
  <2>1. PICK i \in 1 .. Len(c) + 1 : (c \o <<x>>)[i] = z
    BY <1>3, <1>5 DEF Has
  <2>2. CASE i <= Len(c)
    BY <1>2, <1>3, <2>1, <2>2 DEF Has
  <2>3. CASE ~ i <= Len(c)
    BY <1>1, <1>2, <1>3, <2>1, <2>3
  <2> QED BY <2>2, <2>3
<1> QED BY <1>2, <1>4, <1>5

LEMMA TailHas ==
  ASSUME NEW c \in Seq(Answer), c # <<>>
  PROVE  /\ Tail(c) \in Seq(Answer) /\ Head(c) \in Answer
         /\ \A z : Has(Tail(c), z) => Has(c, z)
<1>1. /\ Tail(c) \in Seq(Answer) /\ Head(c) \in Answer /\ Len(Tail(c)) = Len(c) - 1
      /\ \A i \in 1 .. Len(Tail(c)) : Tail(c)[i] = c[i + 1]
  BY HeadTailProperties
<1>2. Len(c) \in Nat /\ DOMAIN c = 1 .. Len(c) /\ DOMAIN Tail(c) = 1 .. Len(c) - 1
  BY <1>1, LenProperties
<1>3. ASSUME NEW z, Has(Tail(c), z) PROVE Has(c, z)
  <2>1. PICK i \in 1 .. Len(c) - 1 : Tail(c)[i] = z
    BY <1>2, <1>3 DEF Has
  <2>2. i + 1 \in DOMAIN c /\ c[i + 1] = z
    BY <1>1, <1>2, <2>1
  <2> QED BY <2>2 DEF Has
<1> QED BY <1>1, <1>3

LEMMA NothingHas == \A z : ~Has(<<>>, z)
BY DEF Has

\* u gets x.
Gets(u, x) ==
  /\ inbox' \in [User -> Seq(Answer)]
  /\ inbox'[u] # <<>>
  /\ \A z : Has(inbox'[u], z) => z = x \/ Has(inbox[u], z)
  /\ \A v \in User \ {u} : inbox'[v] = inbox[v]

LEMMA AnswersEffect ==
  ASSUME Typed, NEW j \in Job, job[j].at # "idle", NEW x \in Answer, Answers(j, <<x>>)
  PROVE  /\ job[j].live => Gets(job[j].user, x)
         /\ ~job[j].live => inbox' = inbox
         /\ inbox' \in [User -> Seq(Answer)]
<1>1. job[j].user \in User /\ inbox \in [User -> Seq(Answer)]
  BY DEF Typed, TypeOK, Rows, Row
<1>2. PICK u \in User : u = job[j].user
  BY <1>1
<1>3. CASE job[j].live
  <2>1. inbox' = [inbox EXCEPT ![u] = inbox[u] \o <<x>>]
    BY <1>2, <1>3 DEF Answers
  <2>2. PICK c \in Seq(Answer) : c = inbox[u]
    BY <1>1
  <2>3. PICK d : d = c \o <<x>>
    OBVIOUS
  <2>4. d \in Seq(Answer) /\ d # <<>> /\ \A z : Has(d, z) => z = x \/ Has(c, z)
    BY <2>3, OneAnswer
  <2>5. inbox' = [inbox EXCEPT ![u] = d]
    BY <2>1, <2>2, <2>3
  <2>6. Gets(u, x)
    BY <1>1, <2>2, <2>4, <2>5 DEF Gets
  <2> QED BY <1>2, <1>3, <2>6 DEF Gets
<1>4. CASE ~job[j].live
  BY <1>1, <1>4 DEF Answers
<1> QED BY <1>3, <1>4

\* u is recorded in r.
Joins(r, u) ==
  /\ roomElos' \in [Room -> SUBSET User] /\ roomIps' \in [Room -> SUBSET Addresses]
  /\ \A v \in User : v \in roomElos'[r] <=> v \in roomElos[r] \/ v = u
  /\ \A a : a \in roomIps'[r] <=> a \in roomIps[r] \/ a = ip[u]
  /\ \A q \in Room \ {r} : roomElos'[q] = roomElos[q] /\ roomIps'[q] = roomIps[q]

LEMMA JoinedEffect ==
  ASSUME Typed, NEW r \in Room, NEW u \in User, RecordPlayerJoined(r, u)
  PROVE  Joins(r, u) /\ roomElos'[r] = roomElos[r] \cup {u}
<1>1. ip[u] \in Addresses
  BY DEF Addresses
<1>2. roomElos \in [Room -> SUBSET User] /\ roomIps \in [Room -> SUBSET Addresses]
  BY DEF Typed, TypeOK
<1> QED BY <1>1, <1>2 DEF RecordPlayerJoined, Joins

\* The call of j ends: the others are late for r.
Ends(j, r) ==
  /\ job' \in [Job -> Jobs] /\ Rows'
  /\ job'[j] = Idle
  /\ \A i \in Job \ {j} :
       /\ Later(job[i], job'[i])
       /\ job[i].at = "check" => job'[i].raced = (job[i].raced \/ job[i].room = r)

LEMMA EndsEffect ==
  ASSUME Typed, NEW j \in Job, NEW r \in Room, job' = [Late(r) EXCEPT ![j] = Idle]
  PROVE  Ends(j, r)
<1>1. DOMAIN job' = Job /\ job'[j] = Idle /\ \A i \in Job \ {j} : job'[i] = Late(r)[i]
  BY LateRow
<1>2. \A i \in Job : job'[i] \in Jobs /\ Row(job'[i])
  BY <1>1, LateRow, IdleRow DEF Row
<1>3. job' = [i \in Job |-> job'[i]]
  <2>1. job' = [i \in Job |-> IF i = j THEN Idle ELSE Late(r)[i]]
    BY LateRow DEF Late
  <2> QED BY <1>1, <2>1
<1>4. job' \in [Job -> Jobs]
  BY <1>2, <1>3
<1> QED BY <1>1, <1>2, <1>4, LateRow DEF Ends, Rows

\* Job j goes on as x.
Goes(j, x) ==
  /\ job' \in [Job -> Jobs] /\ Rows'
  /\ job'[j] = x
  /\ \A i \in Job \ {j} : job'[i] = job[i]

LEMMA GoesEffect ==
  ASSUME Typed, NEW j \in Job, NEW x, Row(x), job' = [job EXCEPT ![j] = x]
  PROVE  Goes(j, x)
<1>1. x \in Jobs /\ job \in [Job -> Jobs] /\ \A i \in Job : Row(job[i])
  BY DEF Row, Typed, TypeOK, Rows
<1>2. job' \in [Job -> Jobs] /\ job'[j] = x /\ \A i \in Job \ {j} : job'[i] = job[i]
  BY <1>1
<1>3. \A i \in Job : Row(job'[i])
  BY <1>1, <1>2
<1> QED BY <1>2, <1>3 DEF Goes, Rows

\* The call of j ends with a match in r.
Matched(j, r) ==
  /\ Joins(r, job[j].user) /\ roomElos'[r] = roomElos[r] \cup {job[j].user}
  /\ inbox' \in [User -> Seq(Answer)]
  /\ job[j].live => Gets(job[j].user, r)
  /\ ~job[j].live => inbox' = inbox
  /\ Ends(j, r)

LEMMA MatchEffect ==
  ASSUME Typed, NEW j \in Job, NEW r \in Room, job[j].at # "idle",
         RecordPlayerJoined(r, job[j].user), Answers(j, <<r>>),
         job' = [Late(r) EXCEPT ![j] = Idle]
  PROVE  Matched(j, r)
<1>1. job[j].user \in User /\ r \in Answer
  BY RoomFacts DEF Typed, Rows, Row
<1> QED BY <1>1, JoinedEffect, AnswersEffect, EndsEffect DEF Matched

LEMMA MinIn ==
  ASSUME NEW S, S \subseteq Nat, S # {}
  PROVE  Min(S) \in S
<1> DEFINE less == OpToRel(<, Nat)
<1>0. IsWellFoundedOn(less, Nat)
  BY NatLessThanWellFounded
<1>3. \A x, y \in Nat : x < y => <<x, y>> \in less
  BY DEF OpToRel
<1> HIDE DEF less
<1>1. PICK x \in S : \A y \in S : ~ (<<y, x>> \in less)
  BY <1>0, WFMin
<1>2. \A y \in S : x <= y
  <2> SUFFICES ASSUME NEW y \in S, ~(x <= y) PROVE FALSE
    OBVIOUS
  <2>1. x \in Nat /\ y \in Nat /\ y < x
    OBVIOUS
  <2> QED BY <1>1, <1>3, <2>1
<1> QED BY <1>2 DEF Min

Creating(x) == [x EXCEPT !.at = "create", !.room = None, !.rooms = {}, !.others = {}, !.raced = FALSE]

Checking(x, r, S) ==
  [x EXCEPT !.at = "check", !.room = r, !.others = roomElos[r],
            !.rooms = {q \in S : q > r}, !.raced = r \notin open]

LEMMA CreatingRow ==
  ASSUME Typed, NEW j \in Job, job[j].at # "idle"
  PROVE  /\ Row(Creating(job[j])) /\ Creating(job[j]).at = "create"
         /\ Creating(job[j]).user = job[j].user /\ Creating(job[j]).live = job[j].live
<1>1. PICK x \in Jobs : x = job[j] /\ x.user \in User
  BY DEF Typed, TypeOK, Rows, Row
<1>2. /\ Creating(x) \in Jobs /\ Creating(x).at = "create"
      /\ Creating(x).user = x.user /\ Creating(x).live = x.live
  BY DEF Creating, Jobs
<1> QED BY <1>1, <1>2 DEF Row

LEMMA CheckingRow ==
  ASSUME Typed, NEW j \in Job, job[j].at # "idle", NEW S \in SUBSET Room, NEW r \in S
  PROVE  \E x :
           /\ x = Checking(job[j], r, S) /\ Row(x)
           /\ x.at = "check" /\ x.user = job[j].user /\ x.live = job[j].live
           /\ x.room = r /\ x.rooms \subseteq S /\ x.others = roomElos[r]
           /\ x.raced = (r \notin open)
<1>1. PICK x \in Jobs : x = job[j] /\ x.user \in User
  BY DEF Typed, TypeOK, Rows, Row
<1>2. PICK o \in SUBSET User : o = roomElos[r]
  BY DEF Typed, TypeOK
<1>3. PICK T \in SUBSET Room : T = {q \in S : q > r} /\ T \subseteq S
  OBVIOUS
<1>4. PICK w \in BOOLEAN : w = (r \notin open)
  OBVIOUS
<1> DEFINE y == [x EXCEPT !.at = "check", !.room = r, !.others = o, !.rooms = T, !.raced = w]
<1>5. y = Checking(x, r, S)
  BY <1>2, <1>3, <1>4 DEF Checking
<1>6. y \in Jobs /\ y.at = "check" /\ y.user = x.user /\ y.live = x.live
      /\ y.room = r /\ y.rooms = T /\ y.others = o /\ y.raced = w
  BY DEF Jobs
<1> HIDE DEF y
<1>7. Row(y)
  BY <1>1, <1>6 DEF Row
<1> QED BY <1>1, <1>2, <1>3, <1>4, <1>5, <1>6, <1>7

LooksOn(j) ==
  /\ \E x : Goes(j, x) /\ x.at = "create" /\ x.user = job[j].user /\ x.live = job[j].live
  /\ UNCHANGED <<records, inbox, odd>>

Checks(j, r, S) ==
  /\ \E x :
       /\ Goes(j, x) /\ x.at = "check" /\ x.user = job[j].user /\ x.live = job[j].live
       /\ x.room = r /\ x.rooms \subseteq S /\ x.others = roomElos[r] /\ x.raced = (r \notin open)
  /\ UNCHANGED <<records, inbox, odd>>

Takes(j, r) ==
  /\ Matched(j, r) /\ roomElos[r] = {}
  /\ odd' = IF r \in open THEN odd ELSE odd \cup {r}

LEMMA LookEffect ==
  ASSUME Typed, NEW j \in Job, job[j].at # "idle", NEW S \in SUBSET Room, Look(j, S)
  PROVE  \/ LooksOn(j)
         \/ \E r \in S : Suitable(r, job[j].user) /\ (Takes(j, r) \/ Checks(j, r, S))
<1> DEFINE fit == {r \in S : Suitable(r, job[j].user)}
<1>1. CASE fit = {}
  <2>1. /\ job' = [job EXCEPT ![j] = Creating(job[j])]
        /\ UNCHANGED <<records, inbox, odd>>
    BY <1>1 DEF Look, Creating
  <2> QED BY <2>1, CreatingRow, GoesEffect DEF LooksOn
<1>2. ASSUME fit # {}
      PROVE  \E r \in S : Suitable(r, job[j].user) /\ (Takes(j, r) \/ Checks(j, r, S))
  <2>1. PICK r : r = Min(fit)
    OBVIOUS
  <2>2. r \in fit
    BY <1>2, <2>1, MinIn, RoomFacts
  <2>3. r \in S /\ r \in Room /\ Suitable(r, job[j].user)
    BY <2>2
  <2>4. CASE roomElos[r] = {}
    <3>1. /\ RecordPlayerJoined(r, job[j].user) /\ Answers(j, <<r>>)
          /\ job' = [Late(r) EXCEPT ![j] = Idle]
          /\ odd' = IF r \in open THEN odd ELSE odd \cup {r}
      BY <1>2, <2>1, <2>4 DEF Look
    <3> QED BY <2>3, <2>4, <3>1, MatchEffect DEF Takes
  <2>5. CASE roomElos[r] # {}
    <3>1. /\ job' = [job EXCEPT ![j] = Checking(job[j], r, S)]
          /\ UNCHANGED <<records, inbox, odd>>
      BY <1>2, <2>1, <2>5 DEF Look, Checking
    <3>2. PICK x :
           /\ x = Checking(job[j], r, S) /\ Row(x)
           /\ x.at = "check" /\ x.user = job[j].user /\ x.live = job[j].live
           /\ x.room = r /\ x.rooms \subseteq S /\ x.others = roomElos[r]
           /\ x.raced = (r \notin open)
      BY <2>3, CheckingRow
    <3>3. Goes(j, x)
      BY <3>1, <3>2, GoesEffect
    <3>4. Checks(j, r, S)
      BY <3>1, <3>2, <3>3 DEF Checks
    <3> QED BY <2>3, <3>4
  <2> QED BY <2>3, <2>4, <2>5
<1> QED BY <1>1, <1>2

\* u's page goes to r.
LEMMA GoToEffect ==
  ASSUME Typed, NEW u \in User, NEW r \in Room \cup {None}, GoTo(u, r)
  PROVE  /\ page' \in [User -> Room \cup {None}] /\ joining' \in [User -> BOOLEAN]
         /\ searching' \in [User -> BOOLEAN] /\ lost' \in [User -> BOOLEAN]
         /\ deaf' \in [User -> BOOLEAN]
         /\ inbox' \in [User -> Seq(Answer)]
         /\ page'[u] = r /\ ~searching'[u] /\ inbox'[u] = <<>>
         /\ \A v \in User \ {u} : /\ page'[v] = page[v] /\ searching'[v] = searching[v]
                                  /\ lost'[v] = lost[v] /\ deaf'[v] = deaf[v] /\ inbox'[v] = inbox[v]
<1>1. <<>> \in Seq(Answer)
  BY EmptySeq
<1> QED BY <1>1 DEF GoTo, Typed, TypeOK

\* u's connection is gone.
Leaves(u) ==
  /\ job' \in [Job -> Jobs] /\ Rows'
  /\ \A i \in Job : Cut(u, job[i], job'[i])

LEMMA CutEffect ==
  ASSUME Typed, NEW u \in User, job' = Disconnected(u)
  PROVE  Leaves(u)
<1>1. \A i \in Job : Cut(u, job[i], job'[i]) /\ Row(job'[i])
  BY CutRow
<1>2. job' = [i \in Job |-> job'[i]]
  <2>1. job' = [i \in Job |-> [job[i] EXCEPT !.live = @ /\ job[i].user # u]]
    BY DEF Disconnected
  <2> QED BY <2>1
<1>3. job' \in [Job -> Jobs]
  BY <1>1, <1>2 DEF Cut
<1> QED BY <1>1, <1>3 DEF Leaves, Rows

----------------------------------------------------------------------------
(* Types *)

LEMMA InitTyped == Init => Typed /\ InLobby
<1> SUFFICES ASSUME Init PROVE Typed /\ InLobby
  OBVIOUS
<1>1. PICK u \in User : \E v \in User \ {u} :
       /\ elo \in {[w \in User |-> 1000], [w \in User |-> IF w = u THEN 1001 + MatchRange ELSE 1000]}
       /\ suspects \in {{}, {{u, v}}}
  BY DEF Init
<1>2. elo \in [User -> Nat] /\ suspects \subseteq SUBSET User
  BY <1>1, RoomAssumption
<1>3. Rows /\ job \in [Job -> Jobs]
  BY IdleRow DEF Init, Rows, Row
<1>4. inbox \in [User -> Seq(Answer)]
  BY EmptySeq DEF Init
<1>5. InLobby
  BY IdleRow DEF Init, InLobby
<1> QED BY <1>2, <1>3, <1>4, <1>5, RoomAssumption DEF Init, Typed, TypeOK

\* The types of what the jobs and pages do not touch.
Rooms ==
  /\ elo \in [User -> Nat] /\ suspects \subseteq SUBSET User
  /\ created \in 0..MaxRooms /\ active \subseteq open /\ open \subseteq 1..created
  /\ seats \in [Room -> SUBSET User] /\ odd \subseteq Room /\ moves \in 0..MaxMoves

Books ==
  roomElos \in [Room -> SUBSET User] /\ roomIps \in [Room -> SUBSET Addresses]

Client ==
  /\ page \in [User -> Room \cup {None}] /\ searching \in [User -> BOOLEAN]
  /\ inbox \in [User -> Seq(Answer)]
  /\ joining \in [User -> BOOLEAN] /\ lost \in [User -> BOOLEAN] /\ deaf \in [User -> BOOLEAN]

LEMMA TypedParts ==
  Typed <=> Rooms /\ Books /\ Client /\ job \in [Job -> Jobs] /\ Rows
BY DEF Typed, TypeOK, Rooms, Books, Client

LEMMA TypedParts2 ==
  ASSUME Rooms', Books', Client', job' \in [Job -> Jobs], Rows'
  PROVE  Typed'
BY DEF Typed, TypeOK, Rooms, Books, Client

LEMMA SameRooms ==
  ASSUME Rooms, UNCHANGED <<people, rooms, seats>>, odd' \subseteq Room, moves' \in 0..MaxMoves
  PROVE  Rooms'
BY DEF Rooms, people, rooms

LEMMA SameBooks ==
  ASSUME Books, UNCHANGED people, UNCHANGED records
  PROVE  Books'
BY DEF Books, people, records, Addresses

LEMMA MovesTyped ==
  ASSUME Rooms, Moves
  PROVE  moves' \in 0..MaxMoves
BY RoomAssumption DEF Rooms, Moves

LEMMA SameJobs ==
  ASSUME Typed, UNCHANGED job
  PROVE  job' \in [Job -> Jobs] /\ Rows'
BY DEF Typed, TypeOK, Rows

\* Looking keeps the types.
LEMMA LookTyped ==
  ASSUME Typed, NEW j \in Job, job[j].at # "idle", NEW S \in SUBSET Room, Look(j, S),
         UNCHANGED <<people, rooms, seats, page, searching, joining, deaf, lost, moves>>
  PROVE  Typed'
<1>1. Rooms /\ Books /\ Client
  BY TypedParts
<1>2. CASE LooksOn(j)
  <2>1. Rooms'
    BY <1>1, <1>2, SameRooms DEF LooksOn, Rooms
  <2>2. Books'
    BY <1>1, <1>2, SameBooks DEF LooksOn
  <2> QED BY <1>1, <1>2, <2>1, <2>2, TypedParts2 DEF LooksOn, Goes, Client
<1>3. ASSUME NEW r \in S, Takes(j, r) PROVE Typed'
  <2>1. Rooms'
    BY <1>1, <1>3, SameRooms DEF Takes, Rooms
  <2>2. Books' /\ Client' /\ job' \in [Job -> Jobs] /\ Rows'
    BY <1>1, <1>3 DEF Takes, Matched, Joins, Ends, Books, Client, people, Addresses
  <2> QED BY <2>1, <2>2, TypedParts2
<1>4. ASSUME NEW r \in S, Checks(j, r, S) PROVE Typed'
  <2>1. Rooms'
    BY <1>1, <1>4, SameRooms DEF Checks, Rooms
  <2>2. Books'
    BY <1>1, <1>4, SameBooks DEF Checks
  <2> QED BY <1>1, <1>4, <2>1, <2>2, TypedParts2 DEF Checks, Goes, Client
<1> QED BY <1>2, <1>3, <1>4, LookEffect

LEMMA FindRow ==
  ASSUME Typed, NEW j \in Job, job[j].at # "idle"
  PROVE  \E x : /\ x = [job[j] EXCEPT !.at = "find"] /\ Row(x)
                /\ x.at = "find" /\ x.user = job[j].user /\ x.live = job[j].live
<1> DEFINE x == [job[j] EXCEPT !.at = "find"]
<1>1. job[j] \in Jobs /\ job[j].user \in User
  BY DEF Typed, TypeOK, Rows, Row
<1>2. x \in Jobs /\ x.at = "find" /\ x.user = job[j].user /\ x.live = job[j].live
  BY <1>1 DEF Jobs
<1>3. Row(x)
  BY <1>1, <1>2 DEF Row
<1> QED BY <1>2, <1>3

AsksOn(j) ==
  /\ \E x : Goes(j, x) /\ x.at = "find" /\ x.user = job[j].user /\ x.live = job[j].live
  /\ UNCHANGED inbox

\* The call of j ends with match_error.
Refused(j) ==
  /\ Goes(j, Idle)
  /\ inbox' \in [User -> Seq(Answer)]
  /\ job[j].live => Gets(job[j].user, None)
  /\ ~job[j].live => inbox' = inbox

LEMMA RefusedEffect ==
  ASSUME Typed, NEW j \in Job, job[j].at # "idle",
         job' = [job EXCEPT ![j] = Idle], Answers(j, <<None>>)
  PROVE  Refused(j)
BY IdleRow, GoesEffect, AnswersEffect, RoomFacts DEF Refused

LEMMA AskEffect ==
  ASSUME Typed, NEW j \in Job, Ask(j)
  PROVE  AsksOn(j) \/ Refused(j)
<1>1. job[j].at # "idle"
  BY DEF Ask
<1>2. CASE job' = [job EXCEPT ![j].at = "find"] /\ UNCHANGED inbox
  <2>1. PICK x : /\ x = [job[j] EXCEPT !.at = "find"] /\ Row(x)
                 /\ x.at = "find" /\ x.user = job[j].user /\ x.live = job[j].live
    BY <1>1, FindRow
  <2>2. job' = [job EXCEPT ![j] = x]
    BY <1>2, <2>1
  <2> QED BY <1>2, <2>1, <2>2, GoesEffect DEF AsksOn
<1>3. CASE job' = [job EXCEPT ![j] = Idle] /\ Answers(j, <<None>>)
  BY <1>1, <1>3, RefusedEffect
<1> QED BY <1>2, <1>3 DEF Ask

\* A new call of u.
Starting(x, u, at, r, live) ==
  Row(x) /\ x.at = at /\ x.user = u /\ x.live = live /\ x.room = r

LEMMA StartRow ==
  ASSUME NEW u \in User, NEW r \in Room
  PROVE  Starting([Idle EXCEPT !.at = "left", !.user = u, !.live = TRUE, !.room = r],
                  u, "left", r, TRUE)
<1>1. PICK y \in Jobs : y = Idle
  BY IdleRow DEF Row
<1>2. PICK x : x = [y EXCEPT !.at = "left", !.user = u, !.live = TRUE, !.room = r]
  OBVIOUS
<1>3. x \in Jobs /\ x.at = "left" /\ x.user = u /\ x.live = TRUE /\ x.room = r
  BY <1>1, <1>2 DEF Jobs
<1>4. Starting(x, u, "left", r, TRUE)
  BY <1>3 DEF Starting, Row
<1> QED BY <1>1, <1>2, <1>4

LEMMA AskingRow ==
  ASSUME NEW u \in User, NEW live \in BOOLEAN
  PROVE  Starting(Asking(u, live), u, "room", None, live)
<1>1. PICK y \in Jobs : y = Idle /\ y.room = None
  BY IdleRow DEF Row, Idle
<1>2. PICK z : z = [y EXCEPT !.at = "room", !.user = u, !.live = live]
  OBVIOUS
<1>3. z \in Jobs /\ z.at = "room" /\ z.user = u /\ z.live = live /\ z.room = None
  BY <1>1, <1>2 DEF Jobs
<1>4. Starting(z, u, "room", None, live)
  BY <1>3 DEF Starting, Row
<1> QED BY <1>1, <1>2, <1>4 DEF Asking

\* The lobby of u begins to search: it has a call, or there is a reason why it has not.
Seeks(u) == SearchInVain(u) \/ \E j \in Job : QuickMatch(j, u) \/ SearchDeaf(j, u)

Sought(u) ==
  /\ job' \in [Job -> Jobs] /\ Rows' /\ deaf' \in [User -> BOOLEAN]
  /\ \A i \in Job : \/ job[i] = Idle /\ job'[i].at = "room"
                    \/ job'[i] = job[i] \/ Cut(u, job[i], job'[i])
  /\ \/ lost'[u] \/ deaf'[u]
     \/ \E j \in Job : job'[j].user = u /\ job'[j].live /\ job'[j].at = "room"
  /\ \A v \in User \ {u} : deaf'[v] = deaf[v]

LEMMA SeeksEffect ==
  ASSUME Typed, NEW u \in User, Seeks(u)
  PROVE  Sought(u) /\ \E unsent \in BOOLEAN : Search(u, unsent)
<1>1. deaf \in [User -> BOOLEAN] /\ lost \in [User -> BOOLEAN] /\ job \in [Job -> Jobs] /\ Rows
  BY DEF Typed, TypeOK
<1>2. CASE SearchInVain(u)
  <2>1. Search(u, TRUE) /\ job' = job /\ deaf' = deaf
    BY <1>2 DEF SearchInVain
  <2>2. lost'[u]
    BY <1>1, <2>1 DEF Search
  <2>3. Rows'
    BY <1>1, <2>1 DEF Rows
  <2> QED BY <1>1, <2>1, <2>2, <2>3 DEF Sought
<1>3. ASSUME NEW j \in Job, QuickMatch(j, u)
      PROVE  Sought(u) /\ Search(u, FALSE)
  <2>1. PICK live \in BOOLEAN : live = ~deaf[u]
    BY <1>1
  <2>2. PICK x : x = Asking(u, live)
    OBVIOUS
  <2>3. Search(u, FALSE) /\ job[j] = Idle /\ job' = [job EXCEPT ![j] = x] /\ deaf' = deaf
    BY <1>3, <2>1, <2>2 DEF QuickMatch
  <2>4. Starting(x, u, "room", None, live)
    BY <2>2, AskingRow
  <2>5. Goes(j, x)
    BY <2>3, <2>4, GoesEffect DEF Starting
  <2>6. deaf'[u] \/ (job'[j].user = u /\ job'[j].live /\ job'[j].at = "room")
    BY <2>1, <2>3, <2>4, <2>5 DEF Goes, Starting
  <2>7. job[j] = Idle /\ job'[j].at = "room"
    BY <2>3, <2>4, <2>5 DEF Goes, Starting
  <2> QED BY <1>1, <2>3, <2>5, <2>6, <2>7 DEF Sought, Goes
<1>4. ASSUME NEW j \in Job, SearchDeaf(j, u)
      PROVE  Sought(u) /\ Search(u, FALSE)
  <2>1. PICK x : x = Asking(u, FALSE)
    OBVIOUS
  <2>2. Starting(x, u, "room", None, FALSE)
    BY <2>1, AskingRow
  <2>3. /\ Search(u, FALSE) /\ job[j] = Idle /\ deaf' = [deaf EXCEPT ![u] = TRUE]
        /\ job' = [Disconnected(u) EXCEPT ![j] = x]
    BY <1>4, <2>1 DEF SearchDeaf
  <2>4. DOMAIN job' = Job /\ job'[j] = x /\ \A i \in Job \ {j} : job'[i] = Disconnected(u)[i]
    BY <2>3, CutRow
  <2>5. \A i \in Job : Row(job'[i]) /\ job'[i] \in Jobs
    BY <2>2, <2>4, CutRow DEF Starting, Row
  <2>6. job' = [i \in Job |-> job'[i]]
    <3>1. job' = [i \in Job |-> IF i = j THEN x ELSE Disconnected(u)[i]]
      BY <2>3, CutRow
    <3> QED BY <2>4, <3>1
  <2>7. \A i \in Job \ {j} : Cut(u, job[i], job'[i])
    BY <2>4, CutRow
  <2>8. job[j] = Idle /\ job'[j].at = "room"
    BY <2>2, <2>3, <2>4 DEF Starting
  <2>9. deaf' \in [User -> BOOLEAN] /\ deaf'[u] /\ \A v \in User \ {u} : deaf'[v] = deaf[v]
    BY <1>1, <2>3
  <2>10. job' \in [Job -> Jobs] /\ Rows'
    BY <2>5, <2>6 DEF Rows
  <2> QED BY <2>3, <2>7, <2>8, <2>9, <2>10 DEF Sought
<1> QED BY <1>2, <1>3, <1>4 DEF Seeks

LEMMA VacateTyped ==
  ASSUME Rooms, NEW u \in User, NEW r \in Room, Vacate(u, r), UNCHANGED <<people, created, odd, moves>>
  PROVE  Rooms'
<1>1. open' \subseteq open /\ active' = active \cap open'
  BY DEF Vacate
<1>2. seats' \in [Room -> SUBSET User]
  BY DEF Vacate, Rooms
<1> QED BY <1>1, <1>2 DEF Rooms, people

\* Job j is let go, and who was checking r is late.
LEMMA LateEffect ==
  ASSUME Typed, NEW r \in Room, job' = Late(r)
  PROVE  /\ job' \in [Job -> Jobs] /\ Rows'
         /\ \A i \in Job :
              /\ Later(job[i], job'[i])
              /\ job[i].at = "check" => job'[i].raced = (job[i].raced \/ job[i].room = r)
<1>1. \A i \in Job : /\ Later(job[i], job'[i]) /\ Row(job'[i])
                     /\ job[i].at = "check" => job'[i].raced = (job[i].raced \/ job[i].room = r)
  BY LateRow
<1>2. job' = [i \in Job |-> job'[i]]
  <2>1. job' = [i \in Job |-> [job[i] EXCEPT !.raced = @ \/ (job[i].at = "check" /\ job[i].room = r)]]
    BY DEF Late
  <2> QED BY <2>1
<1>3. job' \in [Job -> Jobs]
  BY <1>1, <1>2 DEF Later
<1> QED BY <1>1, <1>3 DEF Rows

\* leave_room: j is its call, and the room may be gone.
Departs(j, u, r) ==
  /\ Vacate(u, r)
  /\ job' \in [Job -> Jobs] /\ Rows'
  /\ Starting(job'[j], u, "left", r, TRUE)
  /\ \A i \in Job \ {j} :
       /\ Later(job[i], job'[i])
       /\ job[i].at = "check" =>
            job'[i].raced = (job[i].raced \/ (r \notin open' /\ job[i].room = r))

LEMMA LeaveEffect ==
  ASSUME Typed, NEW j \in Job, NEW u \in User, LeaveRoom(j, u)
  PROVE  \E r \in Room : page[u] = r /\ Departs(j, u, r)
<1>1. PICK r \in Room :
        /\ page[u] = r /\ Vacate(u, r)
        /\ job' = [(IF r \in open' THEN job ELSE Late(r)) EXCEPT
                     ![j] = [Idle EXCEPT !.at = "left", !.user = u, !.live = TRUE, !.room = r]]
  BY DEF LeaveRoom
<1> DEFINE x == [Idle EXCEPT !.at = "left", !.user = u, !.live = TRUE, !.room = r]
<1>2. Starting(x, u, "left", r, TRUE)
  BY StartRow
<1>3. x \in Jobs /\ job \in [Job -> Jobs] /\ \A i \in Job : Row(job[i]) /\ job[i] \in Jobs
  BY <1>2 DEF Starting, Row, Typed, TypeOK, Rows
<1> HIDE DEF x
<1>4. CASE r \in open'
  <2>1. job' = [job EXCEPT ![j] = x]
    BY <1>1, <1>4 DEF x
  <2>2. job'[j] = x /\ \A i \in Job \ {j} : job'[i] = job[i]
    BY <1>3, <2>1
  <2>3. job' \in [Job -> Jobs] /\ Rows'
    BY <1>2, <1>3, <2>1, <2>2 DEF Rows, Starting
  <2>4. \A i \in Job : Later(job[i], job[i])
    BY <1>3 DEF Later
  <2>5. Departs(j, u, r)
    <3>1. \A i \in Job \ {j} : job'[i].raced = (job[i].raced \/ (r \notin open' /\ job[i].room = r))
      BY <1>3, <1>4, <2>2 DEF Jobs
    <3>2. \A i \in Job \ {j} : Later(job[i], job'[i])
      BY <2>2, <2>4
    <3>3. Starting(job'[j], u, "left", r, TRUE)
      BY <1>2, <2>2
    <3> QED BY <1>1, <2>3, <3>1, <3>2, <3>3 DEF Departs
  <2> QED BY <1>1, <2>5
<1>5. CASE r \notin open'
  <2>1. job' = [Late(r) EXCEPT ![j] = x]
    BY <1>1, <1>5 DEF x
  <2>2. job'[j] = x /\ \A i \in Job \ {j} : job'[i] = Late(r)[i]
    BY <2>1, LateRow
  <2>3. \A i \in Job : Row(job'[i])
    BY <1>2, <2>2, LateRow DEF Starting
  <2>4. job' = [i \in Job |-> IF i = j THEN x ELSE Late(r)[i]]
    BY <2>1, LateRow DEF Late
  <2>5. job' \in [Job -> Jobs]
    BY <2>2, <2>3, <2>4 DEF Row
  <2>6. Departs(j, u, r)
    BY <1>1, <1>2, <1>5, <2>2, <2>3, <2>5, LateRow DEF Departs, Rows
  <2> QED BY <1>1, <2>6
<1> QED BY <1>4, <1>5

\* leave_room ends: who was checking r is late, and the page's other calls lose it.
Forgets(j) ==
  /\ job' \in [Job -> Jobs] /\ Rows'
  /\ job'[j] = Idle
  /\ \A i \in Job \ {j} :
       /\ job'[i].at = job[i].at /\ job'[i].user = job[i].user /\ job'[i].room = job[i].room
       /\ job'[i].rooms = job[i].rooms /\ job'[i].others = job[i].others
       /\ job'[i].live => job[i].live
       /\ job[i].live /\ ~(job[j].live /\ job[i].user = job[j].user) => job'[i].live
       /\ job[j].live /\ job[i].user = job[j].user => ~job'[i].live
       /\ job[i].at = "check" => job'[i].raced = (job[i].raced \/ job[i].room = job[j].room)

LEMMA LeftEffect ==
  ASSUME Typed, NEW j \in Job, Left(j)
  PROVE  Forgets(j) /\ job[j].user \in User /\ job[j].room \in Room
<1>1. PICK u \in User : u = job[j].user
  BY DEF Left, Typed, Rows, Row
<1>2. PICK r \in Room : r = job[j].room
  BY DEF Left, Typed, Rows, Row
<1>3. PICK b \in BOOLEAN : b = job[j].live
  BY DEF Typed, TypeOK, Jobs
<1>4. job' = [i \in Job |->
            IF i = j THEN Idle
            ELSE [Late(r)[i] EXCEPT !.live = Late(r)[i].live /\ ~(b /\ job[i].user = u)]]
  BY <1>1, <1>2, <1>3 DEF Left
<1>5. ASSUME NEW i \in Job \ {j}
      PROVE  /\ job'[i].at = job[i].at /\ job'[i].user = job[i].user /\ job'[i].room = job[i].room
             /\ job'[i].rooms = job[i].rooms /\ job'[i].others = job[i].others
             /\ job'[i].live => job[i].live
             /\ job[i].live /\ ~(b /\ job[i].user = u) => job'[i].live
             /\ b /\ job[i].user = u => ~job'[i].live
             /\ job[i].at = "check" => job'[i].raced = (job[i].raced \/ job[i].room = r)
             /\ Row(job'[i])
  <2> DEFINE y == Late(r)[i]
             z == job'[i]
  <2>1. /\ Later(job[i], y) /\ Row(y)
        /\ job[i].at = "check" => y.raced = (job[i].raced \/ job[i].room = r)
    BY LateRow
  <2>2. z = [y EXCEPT !.live = y.live /\ ~(b /\ job[i].user = u)]
    BY <1>4
  <2> HIDE DEF y
  <2>3. y \in Jobs
    BY <2>1 DEF Row
  <2>4. z = [at |-> y.at, user |-> y.user, live |-> y.live /\ ~(b /\ job[i].user = u),
             room |-> y.room, rooms |-> y.rooms, others |-> y.others, raced |-> y.raced]
    BY <2>2, <2>3 DEF Jobs
  <2> HIDE DEF z
  <2>5. z \in Jobs
    BY <2>3, <2>4 DEF Jobs
  <2>6. y.at = "idle" => z = Idle
    <3> SUFFICES ASSUME y.at = "idle" PROVE z = Idle
      OBVIOUS
    <3>1. y = Idle
      BY <2>1 DEF Row
    <3> QED BY <2>4, <3>1 DEF Idle
  <2>7. Row(z)
    BY <2>1, <2>4, <2>5, <2>6 DEF Row
  <2>8. /\ z.at = job[i].at /\ z.user = job[i].user /\ z.room = job[i].room
        /\ z.rooms = job[i].rooms /\ z.others = job[i].others
        /\ z.live = (job[i].live /\ ~(b /\ job[i].user = u)) /\ z.raced = y.raced
    BY <2>1, <2>4 DEF Later
  <2> QED BY <2>1, <2>7, <2>8 DEF z
<1>6. job'[j] = Idle /\ Row(Idle)
  BY <1>4, IdleRow
<1>7. Rows' /\ \A i \in Job : job'[i] \in Jobs
  BY <1>5, <1>6 DEF Rows, Row
<1>8. job' = [i \in Job |-> job'[i]]
  BY <1>4
<1>9. job' \in [Job -> Jobs]
  BY <1>7, <1>8
<1> QED BY <1>1, <1>2, <1>3, <1>5, <1>6, <1>7, <1>9 DEF Forgets

\* The records without u.
Unrecords(r, u) ==
  /\ roomElos' \in [Room -> SUBSET User] /\ roomIps' \in [Room -> SUBSET Addresses]
  /\ roomElos'[r] = roomElos[r] \ {u}
  /\ roomIps'[r] = roomIps[r] \/ roomElos'[r] = {}
  /\ \A a : a \in roomIps'[r] => a \in roomIps[r]
  /\ \A q \in Room \ {r} : roomElos'[q] = roomElos[q] /\ roomIps'[q] = roomIps[q]

LEMMA UnrecordedEffect ==
  ASSUME Typed, NEW r \in Room, NEW u, RecordPlayerLeft(r, u)
  PROVE  Unrecords(r, u)
BY DEF RecordPlayerLeft, Unrecords, Typed, TypeOK

LEMMA NextTyped ==
  ASSUME Typed, Next
  PROVE  Typed'
<1> USE DEF Followed
<1>0. Rooms /\ Books /\ Client
  BY TypedParts
<1>1. ASSUME NEW j \in Job, Ask(j) PROVE Typed'
  <2>1. Rooms' /\ Books'
    BY <1>0, <1>1, SameRooms, SameBooks DEF Ask, Rooms
  <2>2. UNCHANGED <<page, searching, joining, deaf, lost>>
    BY <1>1 DEF Ask
  <2>3. CASE AsksOn(j)
    BY <1>0, <2>1, <2>2, <2>3, TypedParts2 DEF AsksOn, Goes, Client
  <2>4. CASE Refused(j)
    BY <1>0, <2>1, <2>2, <2>4, TypedParts2 DEF Refused, Goes, Client
  <2> QED BY <1>1, <2>3, <2>4, AskEffect
<1>2. ASSUME NEW j \in Job, AskFails(j) PROVE Typed'
  <2>1. Rooms' /\ Books'
    BY <1>0, <1>2, SameRooms, SameBooks DEF AskFails, Rooms
  <2>2. Goes(j, Idle)
    BY <1>2, IdleRow, GoesEffect DEF AskFails
  <2>3. lost' \in [User -> BOOLEAN]
    BY <1>0, <1>2 DEF AskFails, Client, Typed, TypeOK, Jobs
  <2> QED BY <1>0, <1>2, <2>1, <2>2, <2>3, TypedParts2 DEF AskFails, Goes, Client
<1>3. ASSUME NEW j \in Job, Find(j) PROVE Typed'
  <2>1. job[j].at # "idle" /\ active \in SUBSET Room
    BY <1>0, <1>3, RoomAssumption DEF Find, Rooms, Room
  <2> QED BY <1>3, <2>1, LookTyped DEF Find
<1>4. ASSUME NEW j \in Job, Check(j) PROVE Typed'
  <2>1. job[j].at # "idle" /\ job[j].rooms \in SUBSET Room /\ job[j].room \in Room
    BY <1>4 DEF Check, Typed, TypeOK, Jobs, Rows, Row
  <2>2. CASE Look(j, job[j].rooms)
    BY <1>4, <2>1, <2>2, LookTyped DEF Check
  <2>3. CASE Match(j, job[j].room)
    <3>1. Matched(j, job[j].room)
      BY <2>1, <2>3, MatchEffect DEF Match
    <3>2. odd' \subseteq Room
      BY <1>0, <2>1, <2>3 DEF Match, Rooms
    <3>3. Rooms'
      BY <1>0, <1>4, <3>2, SameRooms DEF Check, Rooms
    <3>4. Books' /\ Client' /\ job' \in [Job -> Jobs] /\ Rows'
      BY <1>0, <1>4, <3>1 DEF Check, Matched, Joins, Ends, Books, Client, people, Addresses
    <3> QED BY <3>3, <3>4, TypedParts2
  <2> QED BY <1>4, <2>2, <2>3 DEF Check
<1>5. ASSUME NEW j \in Job, Create(j) PROVE Typed'
  <2>1. /\ job[j].at # "idle" /\ created' = created + 1 /\ created' \in Room
        /\ created' \in 0..MaxRooms
    BY <1>0, <1>5, RoomAssumption DEF Create, Rooms, Room
  <2>2. PICK r \in Room : r = created'
    BY <2>1
  <2>3. Matched(j, r)
    BY <1>5, <2>1, <2>2, MatchEffect DEF Create, Match
  <2>4. active' = active \cup {r} /\ open' = open \cup {r} /\ open \subseteq 1..created
    BY <1>0, <1>5, <2>2 DEF Create, Rooms
  <2>5. active' \subseteq open' /\ open' \subseteq 1..created'
    BY <1>0, <2>1, <2>2, <2>4, RoomAssumption DEF Rooms, Room
  <2>6. odd' \subseteq Room
    BY <1>0, <1>5, <2>1 DEF Create, Match, Rooms
  <2>7. Rooms'
    BY <1>0, <1>5, <2>1, <2>5, <2>6 DEF Create, Rooms, people
  <2>8. Books' /\ Client' /\ job' \in [Job -> Jobs] /\ Rows'
    BY <1>0, <1>5, <2>3 DEF Create, Matched, Joins, Ends, Books, Client, people, Addresses
  <2> QED BY <2>7, <2>8, TypedParts2
<1>6. ASSUME NEW j \in Job, ServerError(j) PROVE Typed'
  <2>1. Rooms' /\ Books'
    BY <1>0, <1>6, SameRooms, SameBooks DEF ServerError, Rooms
  <2>2. Refused(j)
    BY <1>6, RefusedEffect DEF ServerError
  <2> QED BY <1>0, <1>6, <2>1, <2>2, TypedParts2 DEF ServerError, Refused, Goes, Client
<1>7. ASSUME NEW j \in Job, Left(j) PROVE Typed'
  <2>1. Forgets(j) /\ job[j].user \in User /\ job[j].room \in Room
    BY <1>7, LeftEffect
  <2>2. Unrecords(job[j].room, job[j].user)
    BY <1>7, <2>1, UnrecordedEffect DEF Left
  <2>3. odd' \subseteq Room
    BY <1>0, <1>7, <2>1 DEF Left, Rooms
  <2>4. Rooms'
    BY <1>0, <1>7, <2>3, SameRooms DEF Left, Rooms
  <2>5. Client'
    <3>1. CASE job[j].live
      BY <1>7, <2>1, <3>1, GoToEffect DEF Left, Client
    <3>2. CASE ~job[j].live
      BY <1>0, <1>7, <3>2 DEF Left, Client, client
    <3> QED BY <3>1, <3>2
  <2>6. Books'
    BY <1>7, <2>2 DEF Left, Unrecords, Books, people, Addresses
  <2> QED BY <2>1, <2>4, <2>5, <2>6, TypedParts2 DEF Forgets
<1>8. ASSUME NEW u \in User, Seeks(u) PROVE Typed'
  <2>1. PICK unsent \in BOOLEAN : Search(u, unsent)
    BY <1>8, SeeksEffect
  <2>2. Rooms' /\ Books'
    BY <1>0, <2>1, SameRooms, SameBooks, MovesTyped DEF Search, Rooms
  <2>3. job' \in [Job -> Jobs] /\ Rows' /\ deaf' \in [User -> BOOLEAN]
    BY <1>8, SeeksEffect DEF Sought
  <2> QED BY <1>0, <2>1, <2>2, <2>3, TypedParts2 DEF Search, Client
<1>9. ASSUME NEW j \in Job, NEW u \in User, LeaveRoom(j, u) PROVE Typed'
  <2>1. PICK r \in Room : Departs(j, u, r)
    BY <1>9, LeaveEffect
  <2>2. Rooms'
    BY <1>0, <1>9, <2>1, VacateTyped DEF LeaveRoom, Departs
  <2>3. Books' /\ Client'
    BY <1>0, <1>9, SameBooks DEF LeaveRoom, Client, client
  <2> QED BY <2>1, <2>2, <2>3, TypedParts2 DEF Departs
<1>10. ASSUME NEW u \in User, CancelSearch(u) PROVE Typed'
  <2>1. Rooms' /\ Books'
    BY <1>0, <1>10, SameRooms, SameBooks DEF CancelSearch, Rooms
  <2> QED BY <1>0, <1>10, <2>1, SameJobs, TypedParts2 DEF CancelSearch, Client
<1>11. ASSUME NEW u \in User, Receive(u) PROVE Typed'
  <2>1. Rooms' /\ Books'
    BY <1>0, <1>11, SameRooms, SameBooks DEF Receive, Rooms
  <2>2. PICK c \in Seq(Answer) : c = inbox[u] /\ c # <<>>
    BY <1>0, <1>11 DEF Receive, Client
  <2>3. Tail(c) \in Seq(Answer) /\ Head(c) \in Answer
    BY <2>2, TailHas
  <2>4. CASE searching[u] /\ Head(inbox[u]) # None
    <3>1. Head(c) \in Room \cup {None} /\ GoTo(u, Head(c)) /\ job' = Disconnected(u)
      BY <1>11, <2>2, <2>3, <2>4 DEF Receive, Answer
    <3>2. Client'
      BY <3>1, GoToEffect DEF Client
    <3> QED BY <2>1, <3>1, <3>2, CutEffect, TypedParts2 DEF Leaves
  <2>5. CASE ~(searching[u] /\ Head(inbox[u]) # None)
    <3>1. /\ inbox' = [inbox EXCEPT ![u] = Tail(c)]
          /\ searching' = [searching EXCEPT ![u] = FALSE] /\ lost' = [lost EXCEPT ![u] = FALSE]
          /\ UNCHANGED <<page, joining, deaf, job>>
      BY <1>11, <2>2, <2>5 DEF Receive
    <3> QED BY <1>0, <2>1, <2>3, <3>1, SameJobs, TypedParts2 DEF Client
  <2> QED BY <2>4, <2>5
<1>12. ASSUME NEW u \in User, JoinRoom(u) PROVE Typed'
  <2>1. Books'
    BY <1>0, <1>12, SameBooks DEF JoinRoom
  <2>2. ASSUME NEW q \in Room \cup {None}, GoTo(u, q), job' = Disconnected(u), UNCHANGED <<seats, odd>>
        PROVE  Typed'
    <3>1. Client'
      BY <2>2, GoToEffect DEF Client
    <3>2. Rooms'
      BY <1>0, <1>12, <2>2, SameRooms DEF JoinRoom, Rooms
    <3> QED BY <2>1, <2>2, <3>1, <3>2, CutEffect, TypedParts2 DEF Leaves
  <2>3. CASE /\ page[u] \in open /\ seats' = [seats EXCEPT ![page[u]] = @ \cup {u}]
             /\ odd' = IF u \in roomElos[page[u]] THEN odd ELSE odd \cup {page[u]}
             /\ joining' = [joining EXCEPT ![u] = FALSE]
             /\ UNCHANGED <<job, page, searching, inbox, deaf, lost>>
    <3>1. page[u] \in Room
      BY <1>0, <2>3 DEF Rooms, Client, None
    <3>2. seats' \in [Room -> SUBSET User] /\ odd' \subseteq Room
      BY <1>0, <2>3, <3>1 DEF Rooms
    <3>3. Rooms'
      BY <1>0, <1>12, <3>2 DEF Rooms, JoinRoom, people, rooms
    <3>4. Client'
      BY <1>0, <2>3 DEF Client
    <3> QED BY <2>1, <2>3, <3>3, <3>4, SameJobs, TypedParts2
  <2> QED BY <1>12, <2>2, <2>3 DEF JoinRoom
<1>13. ASSUME NEW u \in User, LeavePage(u) PROVE Typed'
  <2>1. Rooms' /\ Books'
    BY <1>0, <1>13, SameRooms, SameBooks DEF LeavePage, Rooms
  <2>2. Client'
    BY <1>13, GoToEffect DEF LeavePage, Client
  <2> QED BY <1>13, <2>1, <2>2, CutEffect, TypedParts2 DEF LeavePage, Leaves
<1>14. ASSUME NEW u \in User, Drop(u) PROVE Typed'
  <2>1. Rooms' /\ Books'
    BY <1>0, <1>14, SameRooms, SameBooks DEF Drop, Rooms
  <2>2. Client'
    BY <1>0, <1>14, EmptySeq DEF Drop, Client
  <2> QED BY <1>14, <2>1, <2>2, CutEffect, TypedParts2 DEF Drop, Leaves
<1>15. ASSUME NEW u \in User, LeaveUnrecorded(u) PROVE Typed'
  <2>1. PICK r \in Room : Vacate(u, r) /\ job' = IF r \in open' THEN job ELSE Late(r)
    BY <1>15 DEF LeaveUnrecorded
  <2>2. Rooms'
    BY <1>0, <1>15, <2>1, VacateTyped DEF LeaveUnrecorded
  <2>3. Books' /\ Client'
    BY <1>0, <1>15, SameBooks DEF LeaveUnrecorded, Client, client
  <2>4. job' \in [Job -> Jobs] /\ Rows'
    BY <2>1, SameJobs, LateEffect
  <2> QED BY <2>2, <2>3, <2>4, TypedParts2
<1>16. ASSUME NEW u \in User, NEW r \in Room, VisitRoom(u, r) PROVE Typed'
  <2>1. Rooms' /\ Books'
    BY <1>0, <1>16, SameRooms, SameBooks, MovesTyped DEF VisitRoom, Rooms
  <2>2. Client'
    BY <1>16, GoToEffect DEF VisitRoom, Client
  <2> QED BY <1>16, <2>1, <2>2, CutEffect, TypedParts2 DEF VisitRoom, Leaves
<1>17. ASSUME Restart PROVE Typed'
  <2>1. Rooms'
    BY <1>0, <1>17, MovesTyped DEF Restart, Rooms, people
  <2>2. Books' /\ Client'
    BY <1>0, <1>17, EmptySeq DEF Restart, Books, Client
  <2>3. job' \in [Job -> Jobs] /\ Rows'
    BY <1>17, IdleRow DEF Restart, Rows, Row
  <2> QED BY <2>1, <2>2, <2>3, TypedParts2
<1> QED BY <1>1, <1>2, <1>3, <1>4, <1>5, <1>6, <1>7, <1>8, <1>9, <1>10, <1>11, <1>12, <1>13,
           <1>14, <1>15, <1>16, <1>17 DEF Next, Seeks

----------------------------------------------------------------------------
(* Searches *)

\* The call of j may still answer u.
Asks(j, u) == job[j].user = u /\ job[j].live /\ job[j].at # "left"

Answered(u) == lost[u] \/ deaf[u] \/ inbox[u] # <<>> \/ \E j \in Job : Asks(j, u)

LEMMA StillAnswered ==
  ASSUME SearchAnswered, NEW u \in User,
         searching'[u] => searching[u], lost[u] => lost'[u], deaf[u] => deaf'[u],
         inbox[u] # <<>> => inbox'[u] # <<>>,
         \A j \in Job : Asks(j, u) => Asks(j, u)' \/ lost'[u] \/ inbox'[u] # <<>>
  PROVE  searching'[u] => Answered(u)'
BY DEF SearchAnswered, Answered, Asks

LEMMA AllAnswered ==
  ASSUME \A u \in User : searching'[u] => Answered(u)'
  PROVE  SearchAnswered'
BY DEF SearchAnswered, Answered, Asks

LEMMA InitSearch == Init => SearchAnswered
BY DEF Init, SearchAnswered

\* Who goes to another page searches no more; nobody else notices.
LEMMA PageMoves ==
  ASSUME Typed, InLobby, SearchAnswered, NEW u \in User, NEW r \in Room \cup {None},
         GoTo(u, r), job' = Disconnected(u)
  PROVE  InLobby' /\ SearchAnswered'
<1>1. /\ page'[u] = r /\ ~searching'[u]
      /\ \A v \in User \ {u} : /\ page'[v] = page[v] /\ searching'[v] = searching[v]
                               /\ lost'[v] = lost[v] /\ deaf'[v] = deaf[v] /\ inbox'[v] = inbox[v]
  BY GoToEffect
<1>2. Leaves(u)
  BY CutEffect
<1>3. ASSUME NEW v \in User \ {u} PROVE \A j \in Job : Asks(j, v) => Asks(j, v)'
  BY <1>2 DEF Leaves, Cut, Asks
<1>4. \A v \in User : searching'[v] => Answered(v)'
  BY <1>1, <1>3, StillAnswered
<1>5. \A v \in User : searching'[v] => page'[v] = None
  BY <1>1 DEF InLobby
<1>6. ASSUME NEW j \in Job, job'[j].at = "left", job'[j].live PROVE page'[job'[j].user] # None
  <2>1. job[j].at = "left" /\ job[j].live /\ job'[j] = job[j] /\ job[j].user # u
    BY <1>2, <1>6 DEF Leaves, Cut
  <2>2. job[j].user \in User
    BY <2>1 DEF Typed, Rows, Row
  <2> QED BY <1>1, <2>1, <2>2 DEF InLobby
<1> QED BY <1>4, <1>5, <1>6, AllAnswered DEF InLobby

\* The call of j ends or goes on, and the others do as before.
LEMMA CallMoves ==
  ASSUME Typed, InLobby, SearchAnswered, NEW j \in Job, job[j].at # "left",
         UNCHANGED <<page, searching, deaf, lost>>,
         job'[j].at # "left",
         \A i \in Job \ {j} : job'[i].at = job[i].at /\ job'[i].user = job[i].user
                               /\ job'[i].live = job[i].live,
         \A u \in User : inbox[u] # <<>> => inbox'[u] # <<>>,
         \/ job'[j].user = job[j].user /\ job'[j].live = job[j].live
         \/ job[j].live => inbox'[job[j].user] # <<>>
  PROVE  InLobby' /\ SearchAnswered'
<1>1. ASSUME NEW u \in User, NEW i \in Job, Asks(i, u) PROVE Asks(i, u)' \/ inbox'[u] # <<>>
  BY <1>1 DEF Asks
<1>2. \A u \in User : searching'[u] => Answered(u)'
  BY <1>1, StillAnswered
<1>3. InLobby'
  BY DEF InLobby
<1> QED BY <1>2, <1>3, AllAnswered

LEMMA GetsKeeps ==
  ASSUME Typed, NEW j \in Job, job[j].at # "idle", NEW x,
         job[j].live => Gets(job[j].user, x), ~job[j].live => inbox' = inbox
  PROVE  /\ \A u \in User : inbox[u] # <<>> => inbox'[u] # <<>>
         /\ job[j].live => inbox'[job[j].user] # <<>>
<1>1. job[j].user \in User
  BY DEF Typed, Rows, Row
<1>2. CASE job[j].live
  BY <1>1, <1>2 DEF Gets
<1>3. CASE ~job[j].live
  BY <1>3
<1> QED BY <1>2, <1>3

LEMMA RefusedSearch ==
  ASSUME Typed, InLobby, SearchAnswered, NEW j \in Job, job[j].at \notin {"idle", "left"},
         Refused(j), UNCHANGED <<page, searching, deaf, lost>>
  PROVE  InLobby' /\ SearchAnswered'
<1>1. /\ \A u \in User : inbox[u] # <<>> => inbox'[u] # <<>>
      /\ job[j].live => inbox'[job[j].user] # <<>>
  BY GetsKeeps DEF Refused
<1> QED BY <1>1, CallMoves, IdleRow DEF Refused, Goes

LEMMA MatchedSearch ==
  ASSUME Typed, InLobby, SearchAnswered, NEW j \in Job, job[j].at \notin {"idle", "left"},
         NEW r \in Room, Matched(j, r), UNCHANGED <<page, searching, deaf, lost>>
  PROVE  InLobby' /\ SearchAnswered'
<1>1. /\ \A u \in User : inbox[u] # <<>> => inbox'[u] # <<>>
      /\ job[j].live => inbox'[job[j].user] # <<>>
  BY GetsKeeps DEF Matched
<1>2. job'[j].at # "left"
  BY IdleRow DEF Matched, Ends
<1> QED BY <1>1, <1>2, CallMoves DEF Matched, Ends, Later

LEMMA LookSearch ==
  ASSUME Typed, InLobby, SearchAnswered, NEW j \in Job, job[j].at \notin {"idle", "left"},
         NEW S \in SUBSET Room, Look(j, S), UNCHANGED <<page, searching, deaf, lost>>
  PROVE  InLobby' /\ SearchAnswered'
<1>1. CASE LooksOn(j)
  BY <1>1, CallMoves DEF LooksOn, Goes
<1>2. ASSUME NEW r \in S, Takes(j, r) PROVE InLobby' /\ SearchAnswered'
  BY <1>2, MatchedSearch DEF Takes
<1>3. ASSUME NEW r \in S, Checks(j, r, S) PROVE InLobby' /\ SearchAnswered'
  BY <1>3, CallMoves DEF Checks, Goes
<1> QED BY <1>1, <1>2, <1>3, LookEffect

LEMMA NextSearch ==
  ASSUME Typed, InLobby, SearchAnswered, Next
  PROVE  InLobby' /\ SearchAnswered'
<1> DEFINE Goal == InLobby' /\ SearchAnswered'
<1>0. Rooms /\ Client /\ \A j \in Job : job[j].at # "idle" => job[j].user \in User
  BY TypedParts DEF Typed, Rows, Row
<1> HIDE DEF Goal
<1>1. ASSUME NEW j \in Job, Ask(j) PROVE Goal
  <2>1. CASE AsksOn(j)
    BY <1>1, <2>1, CallMoves DEF Ask, AsksOn, Goes, Goal
  <2>2. CASE Refused(j)
    BY <1>1, <2>2, RefusedSearch DEF Ask, Goal
  <2> QED BY <1>1, <2>1, <2>2, AskEffect
<1>2. ASSUME NEW j \in Job, AskFails(j) PROVE Goal
  <2>1. Goes(j, Idle) /\ job[j].user \in User
    BY <1>0, <1>2, IdleRow, GoesEffect DEF AskFails
  <2>2. \A u \in User : lost[u] => lost'[u]
    BY <1>0, <1>2 DEF AskFails, Client
  <2>3. job[j].live /\ searching[job[j].user] => lost'[job[j].user]
    BY <1>0, <1>2, <2>1 DEF AskFails, Client
  <2>4. UNCHANGED <<page, searching, inbox, deaf>>
    BY <1>2 DEF AskFails
  <2>5. ASSUME NEW u \in User, searching'[u], NEW i \in Job, Asks(i, u)
        PROVE  Asks(i, u)' \/ lost'[u]
    BY <2>1, <2>3, <2>4, <2>5 DEF Asks, Goes
  <2>6. \A u \in User : searching'[u] => Answered(u)'
    BY <2>2, <2>4, <2>5, StillAnswered
  <2>7. InLobby'
    BY <2>1, <2>4, IdleRow DEF Goes, InLobby
  <2> QED BY <2>6, <2>7, AllAnswered DEF Goal
<1>3. ASSUME NEW j \in Job, Find(j) PROVE Goal
  <2>1. active \in SUBSET Room
    BY <1>0, RoomAssumption DEF Rooms, Room
  <2> QED BY <1>3, <2>1, LookSearch DEF Find, Goal
<1>4. ASSUME NEW j \in Job, Check(j) PROVE Goal
  <2>1. job[j].rooms \in SUBSET Room /\ job[j].room \in Room
    BY <1>4 DEF Check, Typed, TypeOK, Jobs, Rows, Row
  <2>2. CASE Look(j, job[j].rooms)
    BY <1>4, <2>1, <2>2, LookSearch DEF Check, Goal
  <2>3. CASE Match(j, job[j].room)
    <3>1. Matched(j, job[j].room)
      BY <1>4, <2>1, <2>3, MatchEffect DEF Match, Check
    <3> QED BY <1>4, <2>1, <3>1, MatchedSearch DEF Check, Goal
  <2> QED BY <1>4, <2>2, <2>3 DEF Check
<1>5. ASSUME NEW j \in Job, Create(j) PROVE Goal
  <2>1. PICK r \in Room : r = created'
    BY <1>0, <1>5, RoomAssumption DEF Create, Rooms, Room
  <2>2. Matched(j, r)
    BY <1>5, <2>1, MatchEffect DEF Create, Match
  <2> QED BY <1>5, <2>2, MatchedSearch DEF Create, Goal
<1>6. ASSUME NEW j \in Job, ServerError(j) PROVE Goal
  <2>1. Refused(j)
    BY <1>6, RefusedEffect DEF ServerError
  <2> QED BY <1>6, <2>1, RefusedSearch DEF ServerError, Goal
<1>7. ASSUME NEW j \in Job, Left(j) PROVE Goal
  <2>1. Forgets(j) /\ job[j].at = "left"
    BY <1>7, LeftEffect DEF Left
  <2>2. PICK u \in User : u = job[j].user
    BY <1>7, LeftEffect
  <2>3. CASE job[j].live
    <3>1. /\ page'[u] = None /\ ~searching'[u]
          /\ \A v \in User \ {u} : /\ page'[v] = page[v] /\ searching'[v] = searching[v]
                                   /\ lost'[v] = lost[v] /\ deaf'[v] = deaf[v] /\ inbox'[v] = inbox[v]
      BY <1>7, <2>2, <2>3, GoToEffect DEF Left
    <3>2. ASSUME NEW v \in User \ {u}, NEW i \in Job, Asks(i, v) PROVE Asks(i, v)'
      BY <2>1, <2>2, <3>2 DEF Forgets, Asks
    <3>3. \A v \in User : searching'[v] => Answered(v)'
      BY <3>1, <3>2, StillAnswered
    <3>4. ASSUME NEW i \in Job, job'[i].at = "left", job'[i].live PROVE page'[job'[i].user] # None
      <4>1. i # j /\ job[i].at = "left" /\ job[i].live /\ job'[i].user = job[i].user /\ job[i].user # u
        BY <2>1, <2>2, <2>3, <3>4, IdleRow DEF Forgets
      <4> QED BY <1>0, <3>1, <4>1 DEF InLobby
    <3>5. InLobby'
      BY <3>1, <3>4 DEF InLobby
    <3> QED BY <3>3, <3>5, AllAnswered DEF Goal
  <2>4. CASE ~job[j].live
    <3>1. UNCHANGED client
      BY <1>7, <2>4 DEF Left
    <3>2. ASSUME NEW v \in User, NEW i \in Job, Asks(i, v) PROVE Asks(i, v)'
      BY <2>1, <2>4, <3>2 DEF Forgets, Asks
    <3>3. \A v \in User : searching'[v] => Answered(v)'
      BY <3>1, <3>2, StillAnswered DEF client
    <3>4. InLobby'
      BY <2>1, <3>1, IdleRow DEF InLobby, Forgets, client
    <3> QED BY <3>3, <3>4, AllAnswered DEF Goal
  <2> QED BY <2>3, <2>4
<1>8. ASSUME NEW u \in User, Seeks(u) PROVE Goal
  <2>1. PICK unsent \in BOOLEAN : Search(u, unsent)
    BY <1>8, SeeksEffect
  <2>2. Sought(u)
    BY <1>8, SeeksEffect
  <2>3. Answered(u)'
    BY <2>2 DEF Sought, Answered, Asks
  <2>4. ASSUME NEW v \in User \ {u}, NEW i \in Job, Asks(i, v) PROVE Asks(i, v)'
    BY <2>2, <2>4, IdleRow DEF Sought, Cut, Asks
  <2>5. \A v \in User \ {u} : /\ searching'[v] = searching[v] /\ lost'[v] = lost[v]
                              /\ deaf'[v] = deaf[v] /\ inbox'[v] = inbox[v]
    BY <1>0, <2>1, <2>2 DEF Search, Sought, Client
  <2>6. \A v \in User : searching'[v] => Answered(v)'
    BY <2>3, <2>4, <2>5, StillAnswered
  <2>7. \A v \in User : searching'[v] => page'[v] = None
    BY <1>0, <2>1 DEF Search, Client, InLobby
  <2>8. ASSUME NEW i \in Job, job'[i].at = "left", job'[i].live
        PROVE  page'[job'[i].user] # None
    <3>1. job[i].at = "left" /\ job[i].live /\ job'[i].user = job[i].user
      BY <2>2, <2>8 DEF Sought, Cut
    <3> QED BY <2>1, <3>1 DEF Search, InLobby
  <2> QED BY <2>6, <2>7, <2>8, AllAnswered DEF Goal, InLobby
<1>9. ASSUME NEW j \in Job, NEW u \in User, LeaveRoom(j, u) PROVE Goal
  <2>1. PICK r \in Room : page[u] = r /\ Departs(j, u, r)
    BY <1>9, LeaveEffect
  <2>2. job[j].live = FALSE /\ UNCHANGED client
    BY <1>9, IdleRow DEF LeaveRoom
  <2>3. ASSUME NEW v \in User, NEW i \in Job, Asks(i, v) PROVE Asks(i, v)'
    BY <2>1, <2>2, <2>3 DEF Departs, Later, Asks
  <2>4. \A v \in User : searching'[v] => Answered(v)'
    BY <2>2, <2>3, StillAnswered DEF client
  <2>5. InLobby'
    BY <2>1, <2>2, RoomFacts DEF InLobby, Departs, Starting, Later, client
  <2> QED BY <2>4, <2>5, AllAnswered DEF Goal
<1>10. ASSUME NEW u \in User, CancelSearch(u) PROVE Goal
  <2>1. /\ ~searching'[u] /\ UNCHANGED <<page, inbox, deaf, job>>
        /\ \A v \in User \ {u} : searching'[v] = searching[v] /\ lost'[v] = lost[v]
    BY <1>0, <1>10 DEF CancelSearch, Client
  <2>2. \A v \in User : searching'[v] => Answered(v)'
    BY <2>1, StillAnswered DEF Asks
  <2>3. InLobby'
    BY <2>1 DEF InLobby
  <2> QED BY <2>2, <2>3, AllAnswered DEF Goal
<1>11. ASSUME NEW u \in User, Receive(u) PROVE Goal
  <2>1. PICK c \in Seq(Answer) : c = inbox[u] /\ c # <<>>
    BY <1>0, <1>11 DEF Receive, Client
  <2>2. Head(c) \in Answer
    BY <2>1, TailHas
  <2>3. CASE searching[u] /\ Head(inbox[u]) # None
    <3>1. Head(c) \in Room \cup {None} /\ GoTo(u, Head(c)) /\ job' = Disconnected(u)
      BY <1>11, <2>1, <2>2, <2>3 DEF Receive, Answer
    <3> QED BY <3>1, PageMoves DEF Goal
  <2>4. CASE ~(searching[u] /\ Head(inbox[u]) # None)
    <3>1. /\ ~searching'[u] /\ UNCHANGED <<page, deaf, job>>
          /\ \A v \in User \ {u} : /\ searching'[v] = searching[v] /\ lost'[v] = lost[v]
                                   /\ inbox'[v] = inbox[v]
      BY <1>0, <1>11, <2>4 DEF Receive, Client
    <3>2. \A v \in User : searching'[v] => Answered(v)'
      BY <3>1, StillAnswered DEF Asks
    <3>3. InLobby'
      BY <3>1 DEF InLobby
    <3> QED BY <3>2, <3>3, AllAnswered DEF Goal
  <2> QED BY <2>3, <2>4
<1>12. ASSUME NEW u \in User, JoinRoom(u) PROVE Goal
  <2>1. CASE UNCHANGED <<job, page, searching, inbox, deaf, lost>>
    <3>1. \A v \in User : searching'[v] => Answered(v)'
      BY <2>1, StillAnswered DEF Asks
    <3>2. InLobby'
      BY <2>1 DEF InLobby
    <3> QED BY <3>1, <3>2, AllAnswered DEF Goal
  <2>2. ASSUME NEW q \in Room \cup {None}, GoTo(u, q), job' = Disconnected(u) PROVE Goal
    BY <2>2, PageMoves DEF Goal
  <2> QED BY <1>12, <2>1, <2>2 DEF JoinRoom
<1>13. ASSUME NEW u \in User, LeavePage(u) PROVE Goal
  BY <1>13, PageMoves DEF LeavePage, Goal
<1>14. ASSUME NEW u \in User, Drop(u) PROVE Goal
  <2>1. Leaves(u)
    BY <1>14, CutEffect DEF Drop
  <2>2. /\ lost'[u] /\ UNCHANGED <<page, searching, deaf>>
        /\ \A v \in User \ {u} : lost'[v] = lost[v] /\ inbox'[v] = inbox[v]
    BY <1>0, <1>14 DEF Drop, Client
  <2>3. ASSUME NEW v \in User \ {u}, NEW i \in Job, Asks(i, v) PROVE Asks(i, v)'
    BY <2>1, <2>3 DEF Leaves, Cut, Asks
  <2>4. \A v \in User : searching'[v] => Answered(v)'
    BY <2>2, <2>3, StillAnswered DEF Answered
  <2>5. InLobby'
    BY <2>1, <2>2 DEF InLobby, Leaves, Cut
  <2> QED BY <2>4, <2>5, AllAnswered DEF Goal
<1>15. ASSUME NEW u \in User, LeaveUnrecorded(u) PROVE Goal
  <2>1. PICK r \in Room : job' = IF r \in open' THEN job ELSE Late(r)
    BY <1>15 DEF LeaveUnrecorded
  <2>2. \A i \in Job : job'[i].at = job[i].at /\ job'[i].user = job[i].user /\ job'[i].live = job[i].live
    BY <2>1, LateEffect DEF Later
  <2>3. UNCHANGED client
    BY <1>15 DEF LeaveUnrecorded
  <2>4. ASSUME NEW v \in User, NEW i \in Job, Asks(i, v) PROVE Asks(i, v)'
    BY <2>2, <2>4 DEF Asks
  <2>5. \A v \in User : searching'[v] => Answered(v)'
    BY <2>3, <2>4, StillAnswered DEF client
  <2>6. InLobby'
    BY <2>2, <2>3 DEF InLobby, client
  <2> QED BY <2>5, <2>6, AllAnswered DEF Goal
<1>16. ASSUME NEW u \in User, NEW r \in Room, VisitRoom(u, r) PROVE Goal
  BY <1>16, PageMoves DEF VisitRoom, Goal
<1>17. ASSUME Restart PROVE Goal
  <2>1. \A v \in User : searching'[v] => Answered(v)'
    BY <1>17 DEF Restart, Answered
  <2>2. InLobby'
    BY <1>17, IdleRow DEF Restart, InLobby
  <2> QED BY <2>1, <2>2, AllAnswered DEF Goal
<1> QED BY <1>1, <1>2, <1>3, <1>4, <1>5, <1>6, <1>7, <1>8, <1>9, <1>10, <1>11, <1>12, <1>13,
           <1>14, <1>15, <1>16, <1>17 DEF Next, Seeks, Goal

----------------------------------------------------------------------------
(* Rooms on record *)

\* Who sits in r or is on his way there by a match is on record there.
Recorded(r) ==
  \A v \in User : v \in seats[r] \/ (searching[v] /\ Has(inbox[v], r)) => v \in roomElos[r]

\* The rooms a call may still choose.
OnRecord ==
  odd = {} =>
    /\ \A r \in Room : r \in active \/ r > created => Recorded(r)
    /\ \A j \in Job : job[j].at = "check" =>
         Recorded(job[j].room) /\ \A r \in job[j].rooms : Recorded(r)

\* A room has no record before it is created, and has the address of everybody on record.
Kept ==
  \A r \in Room :
    /\ IsFiniteSet(roomElos[r])
    /\ r > created => roomElos[r] = {}
    /\ \A v \in roomElos[r] : ip[v] \in roomIps[r]

\* What a call knows of the room it is checking, unless it is late.
Checked ==
  \A j \in Job : job[j].at = "check" =>
    /\ job[j].room <= created /\ \A r \in job[j].rooms : r <= created
    /\ ~job[j].raced =>
         /\ job[j].room \in open /\ Suitable(job[j].room, job[j].user)
         /\ job[j].others = roomElos[job[j].room]

IInv ==
  Typed /\ InLobby /\ SearchAnswered /\ Kept /\ Checked /\ OnRecord

LEMMA ExpectedIs ==
  ASSUME Typed, NEW r \in Room, Recorded(r)
  PROVE  Expected(r) \subseteq roomElos[r]
BY DEF Expected, Recorded, Has, Typed, TypeOK

\* Nothing that is known of room r is lost.
Untouched(r) ==
  roomElos'[r] = roomElos[r] /\ roomIps'[r] = roomIps[r] /\ (r \in open => r \in open')

Stays(i) ==
  /\ job[i].at = "check" /\ job'[i].user = job[i].user
  /\ job'[i].room = job[i].room /\ job'[i].rooms = job[i].rooms /\ job'[i].others = job[i].others
  /\ ~job'[i].raced => ~job[i].raced /\ Untouched(job[i].room)

\* Call i has chosen among the rooms of S.
Chooses(i, S) ==
  /\ job'[i].room \in S /\ job'[i].rooms \subseteq S
  /\ Suitable(job'[i].room, job'[i].user) /\ job'[i].others = roomElos[job'[i].room]
  /\ job'[i].raced = (job'[i].room \notin open)
  /\ UNCHANGED <<records, open>>

\* Where a check comes from.
Comes(i) ==
  job'[i].at = "check" =>
    \/ Stays(i)
    \/ Chooses(i, active)
    \/ job[i].at = "check" /\ Chooses(i, job[i].rooms)

Same(i) ==
  /\ job'[i].at = job[i].at /\ job'[i].user = job[i].user /\ job'[i].room = job[i].room
  /\ job'[i].rooms = job[i].rooms /\ job'[i].others = job[i].others /\ job'[i].raced = job[i].raced

LEMMA SameComes ==
  ASSUME UNCHANGED records, open \subseteq open', NEW i \in Job, Same(i)
  PROVE  Comes(i)
BY DEF Same, Comes, Stays, Untouched, records

\* The records of r change, or it goes.
LEMMA LateComes ==
  ASSUME Typed, NEW r \in Room, NEW i \in Job,
         \A q \in Room \ {r} : Untouched(q),
         job'[i].at = job[i].at, job'[i].user = job[i].user, job'[i].room = job[i].room,
         job'[i].rooms = job[i].rooms, job'[i].others = job[i].others,
         job[i].at = "check" => job'[i].raced = (job[i].raced \/ job[i].room = r)
  PROVE  Comes(i)
<1>1. job[i].at = "check" => job[i].room \in Room
  BY DEF Typed, Rows, Row
<1> QED BY <1>1 DEF Comes, Stays

\* How the records change: not, by a match, by a player who leaves.
BooksMove ==
  \/ UNCHANGED records
  \/ \E r \in Room, u \in User : Joins(r, u) /\ roomElos'[r] = roomElos[r] \cup {u} /\ r <= created'
  \/ \E r \in Room, u \in User : Unrecords(r, u)
  \/ \A r \in Room : roomElos'[r] = {}

LEMMA KeptMoves ==
  ASSUME Typed, Kept, BooksMove, ip' = ip, created <= created', created' \in 0..MaxRooms
  PROVE  Kept'
<1>1. created \in Nat /\ created' \in Nat /\ Room \subseteq Nat
  BY RoomAssumption DEF Typed, TypeOK, Room
<1> SUFFICES ASSUME NEW r \in Room
             PROVE  /\ IsFiniteSet(roomElos'[r])
                    /\ r > created' => roomElos'[r] = {}
                    /\ \A v \in roomElos'[r] : ip[v] \in roomIps'[r]
  BY DEF Kept
<1>2. CASE UNCHANGED records
  BY <1>1, <1>2 DEF Kept, records
<1>3. ASSUME NEW q \in Room, NEW u \in User, Joins(q, u), roomElos'[q] = roomElos[q] \cup {u}, q <= created'
      PROVE  /\ IsFiniteSet(roomElos'[r])
             /\ r > created' => roomElos'[r] = {}
             /\ \A v \in roomElos'[r] : ip[v] \in roomIps'[r]
  <2>1. CASE r = q
    <3>1. IsFiniteSet(roomElos'[r])
      <4>1. PICK S : S = roomElos[q] /\ IsFiniteSet(S)
        BY DEF Kept
      <4>2. IsFiniteSet(S \cup {u})
        BY <4>1, FS_AddElement
      <4> QED BY <1>3, <2>1, <4>1, <4>2
    <3>2. \A v \in roomElos'[r] : ip[v] \in roomIps'[r]
      BY <1>3, <2>1 DEF Kept, Joins
    <3> QED BY <1>1, <1>3, <2>1, <3>1, <3>2
  <2>2. CASE r # q
    BY <1>1, <1>3, <2>2 DEF Kept, Joins
  <2> QED BY <2>1, <2>2
<1>4. ASSUME NEW q \in Room, NEW u \in User, Unrecords(q, u)
      PROVE  /\ IsFiniteSet(roomElos'[r])
             /\ r > created' => roomElos'[r] = {}
             /\ \A v \in roomElos'[r] : ip[v] \in roomIps'[r]
  <2>1. CASE r = q
    <3>1. IsFiniteSet(roomElos'[r])
      <4>1. PICK S : S = roomElos[q] /\ IsFiniteSet(S)
        BY DEF Kept
      <4>2. IsFiniteSet(S \ {u})
        BY <4>1, FS_RemoveElement
      <4> QED BY <1>4, <2>1, <4>1, <4>2 DEF Unrecords
    <3>2. \A v \in roomElos'[r] : ip[v] \in roomIps'[r]
      BY <1>4, <2>1 DEF Kept, Unrecords
    <3>3. r > created' => roomElos'[r] = {}
      BY <1>1, <1>4, <2>1 DEF Kept, Unrecords
    <3> QED BY <3>1, <3>2, <3>3
  <2>2. CASE r # q
    BY <1>1, <1>4, <2>2 DEF Kept, Unrecords
  <2> QED BY <2>1, <2>2
<1>5. CASE \A q \in Room : roomElos'[q] = {}
  BY <1>5, FS_EmptySet
<1> QED BY <1>2, <1>3, <1>4, <1>5 DEF BooksMove

LEMMA SameSuitable ==
  ASSUME UNCHANGED people, NEW r, NEW u, roomElos'[r] = roomElos[r], roomIps'[r] = roomIps[r]
  PROVE  Suitable(r, u) => Suitable(r, u)'
BY DEF Suitable, people

LEMMA CheckedMoves ==
  ASSUME Typed, Checked, UNCHANGED people, created <= created', created' \in 0..MaxRooms,
         \A i \in Job : Comes(i)
  PROVE  Checked'
<1>1. created \in Nat /\ created' \in Nat /\ Room \subseteq Nat /\ active \subseteq Room
      /\ \A r \in active : r <= created
  BY RoomAssumption DEF Typed, TypeOK, Room
<1>2. ASSUME NEW j \in Job, job'[j].at = "check",
             NEW r, r = job'[j].room, NEW u, u = job'[j].user, NEW T, T = job'[j].rooms
      PROVE  /\ r <= created' /\ \A q \in T : q <= created'
             /\ ~job'[j].raced =>
                  r \in open' /\ Suitable(r, u)' /\ job'[j].others = roomElos'[r]
  <2>1. job[j].at = "check" => job[j].room \in Room /\ job[j].rooms \subseteq Room
    BY DEF Typed, TypeOK, Rows, Row, Jobs
  <2>2. CASE Stays(j)
    <3>1. /\ job[j].at = "check" /\ job[j].room = r /\ job[j].user = u /\ job[j].rooms = T
          /\ job'[j].others = job[j].others
          /\ ~job'[j].raced => ~job[j].raced /\ Untouched(r)
      BY <1>2, <2>2 DEF Stays
    <3>2. r <= created /\ \A q \in T : q <= created
      BY <3>1 DEF Checked
    <3>3. r <= created' /\ \A q \in T : q <= created'
      <4>1. \A q \in Room : q <= created => q <= created'
        BY <1>1
      <4> QED BY <2>1, <3>1, <3>2, <4>1
    <3>4. ~job'[j].raced => r \in open /\ Suitable(r, u) /\ job[j].others = roomElos[r] /\ Untouched(r)
      BY <3>1 DEF Checked
    <3>5. ~job'[j].raced => Suitable(r, u)'
      BY <3>4, SameSuitable DEF Untouched
    <3> QED BY <3>1, <3>3, <3>4, <3>5 DEF Untouched
  <2>3. ASSUME NEW S, Chooses(j, S), S \subseteq Room, \A q \in S : q <= created
        PROVE  /\ r <= created' /\ \A q \in T : q <= created'
               /\ ~job'[j].raced =>
                    r \in open' /\ Suitable(r, u)' /\ job'[j].others = roomElos'[r]
    <3>1. /\ r \in S /\ T \subseteq S /\ Suitable(r, u) /\ job'[j].others = roomElos[r]
          /\ job'[j].raced = (r \notin open) /\ UNCHANGED <<roomElos, roomIps, open>>
      BY <1>2, <2>3 DEF Chooses, records
    <3>2. Suitable(r, u)'
      BY <3>1, SameSuitable
    <3>3. \A q \in S : q <= created'
      BY <1>1, <2>3
    <3> QED BY <3>1, <3>2, <3>3
  <2>4. Stays(j) \/ Chooses(j, active) \/ (job[j].at = "check" /\ Chooses(j, job[j].rooms))
    BY <1>2 DEF Comes
  <2>5. job[j].at = "check" => \A q \in job[j].rooms : q <= created
    BY DEF Checked
  <2> QED BY <1>1, <2>1, <2>2, <2>3, <2>4, <2>5
<1> QED BY <1>2 DEF Checked, Suitable

LEMMA OnRecordMoves ==
  ASSUME Typed, OnRecord, created <= created', created' \in 0..MaxRooms,
         \A i \in Job : Comes(i),
         odd' = {} => odd = {},
         \A r \in active' : r \in active \/ r > created,
         odd' = {} => \A r \in Room : Recorded(r) => Recorded(r)'
  PROVE  OnRecord'
<1>1. created \in Nat /\ created' \in Nat /\ Room \subseteq Nat /\ active \subseteq Room
  BY RoomAssumption DEF Typed, TypeOK, Room
<1>2. ASSUME odd' = {}, NEW r \in Room, r \in active' \/ r > created' PROVE Recorded(r)'
  <2>1. Recorded(r)
    BY <1>1, <1>2 DEF OnRecord
  <2> QED BY <1>2, <2>1
<1>3. ASSUME odd' = {}, NEW j \in Job, job'[j].at = "check",
             NEW r, r = job'[j].room, NEW T, T = job'[j].rooms
      PROVE  Recorded(r)' /\ \A q \in T : Recorded(q)'
  <2>1. job[j].at = "check" => job[j].room \in Room /\ job[j].rooms \subseteq Room
    BY DEF Typed, TypeOK, Rows, Row, Jobs
  <2>2. /\ \A q \in active : Recorded(q)
        /\ job[j].at = "check" => Recorded(job[j].room) /\ \A q \in job[j].rooms : Recorded(q)
    BY <1>1, <1>3 DEF OnRecord
  <2>3. ASSUME NEW S, Chooses(j, S), S \subseteq Room, \A q \in S : Recorded(q)
        PROVE  r \in Room /\ T \subseteq Room /\ Recorded(r) /\ \A q \in T : Recorded(q)
    BY <1>3, <2>3 DEF Chooses
  <2>4. CASE Stays(j)
    <3>1. job[j].at = "check" /\ job[j].room = r /\ job[j].rooms = T
      BY <1>3, <2>4 DEF Stays
    <3>2. Recorded(r) /\ \A q \in T : Recorded(q)
      BY <2>2, <3>1
    <3>3. r \in Room /\ T \subseteq Room
      BY <2>1, <3>1
    <3> QED BY <1>3, <3>2, <3>3
  <2>5. Stays(j) \/ Chooses(j, active) \/ (job[j].at = "check" /\ Chooses(j, job[j].rooms))
    BY <1>3 DEF Comes
  <2>6. CASE Chooses(j, active)
    BY <1>1, <1>3, <2>2, <2>3, <2>6
  <2>7. CASE job[j].at = "check" /\ Chooses(j, job[j].rooms)
    <3>1. r \in Room /\ T \subseteq Room /\ Recorded(r) /\ \A q \in T : Recorded(q)
      BY <2>1, <2>2, <2>3, <2>7
    <3> QED BY <1>3, <3>1
  <2> QED BY <2>4, <2>5, <2>6, <2>7
<1> QED BY <1>2, <1>3 DEF OnRecord, Recorded

\* What every step does to rooms, records and checks.
Moved ==
  /\ UNCHANGED people /\ created <= created' /\ created' \in 0..MaxRooms
  /\ \A i \in Job : Comes(i)
  /\ BooksMove
  /\ \A r \in active' : r \in active \/ r > created

LEMMA CallMoved ==
  ASSUME Typed, NEW j \in Job, Same(j) \/ job'[j].at # "check",
         \A i \in Job \ {j} : Same(i),
         UNCHANGED <<people, created, active, records>>, open \subseteq open'
  PROVE  Moved
<1>1. created \in 0..MaxRooms
  BY DEF Typed, TypeOK
<1>2. \A i \in Job : Comes(i)
  <2>1. Same(j) => Comes(j)
    BY SameComes
  <2>2. job'[j].at # "check" => Comes(j)
    BY DEF Comes
  <2>3. \A i \in Job \ {j} : Comes(i)
    BY SameComes
  <2> QED BY <2>1, <2>2, <2>3
<1> QED BY <1>1, <1>2, RoomAssumption DEF Moved, BooksMove

LEMMA GoesMoved ==
  ASSUME Typed, NEW j \in Job, NEW x, Goes(j, x), x.at # "check",
         UNCHANGED <<people, rooms, records>>
  PROVE  Moved
<1>1. \A i \in Job \ {j} : Same(i)
  BY DEF Goes, Same
<1>2. job'[j].at # "check" /\ UNCHANGED <<created, active>> /\ open \subseteq open'
  BY DEF Goes, rooms
<1> QED BY <1>1, <1>2, CallMoved

LEMMA LeavesMoved ==
  ASSUME Typed, NEW u \in User, job' = Disconnected(u), UNCHANGED <<people, rooms, records>>
  PROVE  Moved
<1>1. \A i \in Job : Same(i)
  BY CutEffect DEF Leaves, Cut, Same
<1>2. \A i \in Job : Comes(i)
  BY <1>1, SameComes DEF rooms
<1>3. created \in 0..MaxRooms
  BY DEF Typed, TypeOK
<1> QED BY <1>2, <1>3, RoomAssumption DEF Moved, BooksMove, rooms

LEMMA MatchedMoved ==
  ASSUME Typed, NEW j \in Job, job[j].at # "idle", NEW r \in Room, Matched(j, r), r <= created',
         UNCHANGED people, created <= created', created' \in 0..MaxRooms, open \subseteq open',
         \A q \in active' : q \in active \/ q > created
  PROVE  Moved
<1>1. job[j].user \in User
  BY DEF Typed, Rows, Row
<1>2. BooksMove
  BY <1>1 DEF Matched, BooksMove
<1>3. \A q \in Room \ {r} : Untouched(q)
  BY DEF Matched, Joins, Untouched
<1>4. Comes(j)
  BY IdleRow DEF Matched, Ends, Comes
<1>5. \A i \in Job \ {j} : Comes(i)
  BY <1>3, LateComes DEF Matched, Ends, Later
<1> QED BY <1>2, <1>4, <1>5 DEF Moved

LEMMA LookMoved ==
  ASSUME Typed, Checked, NEW j \in Job, job[j].at # "idle", NEW S \in SUBSET Room, Look(j, S),
         S = active \/ (job[j].at = "check" /\ S = job[j].rooms),
         UNCHANGED <<people, rooms>>
  PROVE  Moved
<1>0. created \in 0..MaxRooms /\ created' = created /\ UNCHANGED <<active, open>> /\ created <= created'
  BY RoomAssumption DEF Typed, TypeOK, rooms
<1>1. CASE LooksOn(j)
  BY <1>1, GoesMoved DEF LooksOn
<1>2. ASSUME NEW r \in S, Takes(j, r) PROVE Moved
  <2>1. r <= created
    <3>1. \A q \in active : q <= created
      BY RoomAssumption DEF Typed, TypeOK
    <3> QED BY <3>1 DEF Checked
  <2> QED BY <1>0, <1>2, <2>1, MatchedMoved DEF Takes
<1>3. ASSUME NEW r \in S, Checks(j, r, S), Suitable(r, job[j].user) PROVE Moved
  <2>1. UNCHANGED records
    BY <1>3 DEF Checks
  <2>2. \A i \in Job \ {j} : Same(i)
    BY <1>3 DEF Checks, Goes, Same
  <2>3. Chooses(j, S)
    BY <1>0, <1>3, <2>1 DEF Checks, Goes, Chooses
  <2>4. \A i \in Job \ {j} : Comes(i)
    BY <1>0, <2>1, <2>2, SameComes
  <2>5. Comes(j)
    BY <2>3 DEF Comes
  <2> QED BY <1>0, <2>1, <2>4, <2>5 DEF Moved, BooksMove
<1> QED BY <1>1, <1>2, <1>3, LookEffect

LEMMA VacateMoved ==
  ASSUME Typed, NEW u \in User, NEW r \in Room, Vacate(u, r), UNCHANGED <<people, created, records>>,
         \A i \in Job : job'[i].at = "check" =>
           /\ job'[i].at = job[i].at /\ job'[i].user = job[i].user /\ job'[i].room = job[i].room
           /\ job'[i].rooms = job[i].rooms /\ job'[i].others = job[i].others
           /\ job'[i].raced = (job[i].raced \/ (r \notin open' /\ job[i].room = r))
  PROVE  Moved
<1>1. /\ \A q \in Room \ {r} : q \in open => q \in open'
      /\ \A q \in active' : q \in active
  BY DEF Vacate
<1>2. \A q \in Room \ {r} : Untouched(q)
  BY <1>1 DEF Untouched, records
<1>3. r \in open' => Untouched(r)
  BY DEF Untouched, records
<1>4. ASSUME NEW i \in Job PROVE Comes(i)
  <2>1. job[i].at = "check" => job[i].room \in Room
    BY DEF Typed, Rows, Row
  <2>2. job[i].at = "check" /\ job[i].room # r => Untouched(job[i].room)
    BY <1>2, <2>1
  <2>3. job[i].at = "check" /\ job[i].room = r /\ r \in open' => Untouched(job[i].room)
    BY <1>3
  <2> QED BY <2>2, <2>3 DEF Comes, Stays
<1>5. created \in 0..MaxRooms
  BY DEF Typed, TypeOK
<1> QED BY <1>1, <1>4, <1>5, RoomAssumption DEF Moved, BooksMove

LEMMA NextMoved ==
  ASSUME Typed, Checked, Next
  PROVE  Moved
<1>0. /\ created \in 0..MaxRooms /\ created \in Nat /\ active \subseteq open /\ open \subseteq 1..created
      /\ \A j \in Job : job[j].at # "idle" => job[j].user \in User
      /\ inbox \in [User -> Seq(Answer)]
  BY RoomAssumption DEF Typed, TypeOK, Rows, Row
<1>1. ASSUME NEW j \in Job, Ask(j) PROVE Moved
  <2>1. CASE AsksOn(j)
    BY <1>1, <2>1, GoesMoved DEF Ask, AsksOn
  <2>2. CASE Refused(j)
    BY <1>1, <2>2, IdleRow, GoesMoved DEF Ask, Refused
  <2> QED BY <1>1, <2>1, <2>2, AskEffect
<1>2. ASSUME NEW j \in Job, AskFails(j) PROVE Moved
  <2>1. Goes(j, Idle)
    BY <1>2, IdleRow, GoesEffect DEF AskFails
  <2> QED BY <1>2, <2>1, IdleRow, GoesMoved DEF AskFails
<1>3. ASSUME NEW j \in Job, Find(j) PROVE Moved
  <2>1. active \in SUBSET Room /\ job[j].at # "idle"
    BY <1>0, <1>3, RoomAssumption DEF Room, Find
  <2> QED BY <1>3, <2>1, LookMoved DEF Find
<1>4. ASSUME NEW j \in Job, Check(j) PROVE Moved
  <2>1. /\ job[j].rooms \in SUBSET Room /\ job[j].room \in Room /\ job[j].at = "check"
        /\ job[j].room <= created
    BY <1>4 DEF Check, Typed, TypeOK, Jobs, Rows, Row, Checked
  <2>2. CASE Look(j, job[j].rooms)
    BY <1>4, <2>1, <2>2, LookMoved DEF Check
  <2>3. CASE Match(j, job[j].room)
    <3>1. Matched(j, job[j].room)
      BY <1>4, <2>1, <2>3, MatchEffect DEF Match, Check
    <3>2. created' = created /\ UNCHANGED <<active, open>> /\ created <= created'
      BY <1>0, <1>4 DEF Check, rooms
    <3> QED BY <1>0, <1>4, <2>1, <3>1, <3>2, MatchedMoved DEF Check
  <2> QED BY <1>4, <2>2, <2>3 DEF Check
<1>5. ASSUME NEW j \in Job, Create(j) PROVE Moved
  <2>1. PICK r \in Room : r = created'
    BY <1>0, <1>5, RoomAssumption DEF Create, Room
  <2>2. Matched(j, r) /\ job[j].at # "idle"
    BY <1>5, <2>1, MatchEffect DEF Create, Match
  <2>3. /\ created' = created + 1 /\ created' \in 0..MaxRooms /\ created <= created'
        /\ open \subseteq open' /\ r <= created' /\ \A q \in active' : q \in active \/ q > created
    BY <1>0, <1>5, <2>1, RoomAssumption DEF Create
  <2> QED BY <1>5, <2>2, <2>3, MatchedMoved DEF Create
<1>6. ASSUME NEW j \in Job, ServerError(j) PROVE Moved
  <2>1. Refused(j)
    BY <1>6, RefusedEffect DEF ServerError
  <2> QED BY <1>6, <2>1, IdleRow, GoesMoved DEF ServerError, Refused
<1>7. ASSUME NEW j \in Job, Left(j) PROVE Moved
  <2>1. Forgets(j) /\ job[j].user \in User /\ job[j].room \in Room
    BY <1>7, LeftEffect
  <2>2. Unrecords(job[j].room, job[j].user)
    BY <1>7, <2>1, UnrecordedEffect DEF Left
  <2>3. UNCHANGED <<people, created, active, open>>
    BY <1>7 DEF Left, rooms
  <2>4. \A q \in Room \ {job[j].room} : Untouched(q)
    BY <2>2, <2>3 DEF Unrecords, Untouched
  <2>5. Comes(j)
    BY <2>1, IdleRow DEF Forgets, Comes
  <2>6. \A i \in Job \ {j} : Comes(i)
    BY <2>1, <2>4, LateComes DEF Forgets
  <2>7. BooksMove
    BY <2>1, <2>2 DEF BooksMove
  <2> QED BY <1>0, <2>3, <2>5, <2>6, <2>7 DEF Moved
<1>8. ASSUME NEW u \in User, Seeks(u) PROVE Moved
  <2>1. PICK unsent \in BOOLEAN : Search(u, unsent)
    BY <1>8, SeeksEffect
  <2>2. Sought(u)
    BY <1>8, SeeksEffect
  <2>3. UNCHANGED <<people, created, active, open, records>>
    BY <2>1 DEF Search, rooms
  <2>4. ASSUME NEW i \in Job PROVE Comes(i)
    <3>1. Same(i) \/ job'[i].at # "check"
      BY <2>2 DEF Sought, Cut, Same
    <3>2. Same(i) => Comes(i)
      BY <2>3, SameComes
    <3> QED BY <3>1, <3>2 DEF Comes
  <2> QED BY <1>0, <2>3, <2>4 DEF Moved, BooksMove
<1>9. ASSUME NEW j \in Job, NEW u \in User, LeaveRoom(j, u) PROVE Moved
  <2>1. PICK r \in Room : Departs(j, u, r)
    BY <1>9, LeaveEffect
  <2>2. job'[j].at # "check"
    BY <2>1 DEF Departs, Starting
  <2>3. UNCHANGED <<people, created, records>>
    BY <1>9 DEF LeaveRoom
  <2>4. \A i \in Job : job'[i].at = "check" =>
          /\ job'[i].at = job[i].at /\ job'[i].user = job[i].user /\ job'[i].room = job[i].room
          /\ job'[i].rooms = job[i].rooms /\ job'[i].others = job[i].others
          /\ job'[i].raced = (job[i].raced \/ (r \notin open' /\ job[i].room = r))
    BY <2>1, <2>2 DEF Departs, Later
  <2>5. Vacate(u, r)
    BY <2>1 DEF Departs
  <2> QED BY <2>3, <2>4, <2>5, VacateMoved
<1>10. ASSUME NEW u \in User, UNCHANGED <<job, people, rooms, records>> PROVE Moved
  <2>1. \A i \in Job : Same(i)
    BY <1>10 DEF Same
  <2>2. UNCHANGED <<created, active, open>>
    BY <1>10 DEF rooms
  <2>3. \A i \in Job : Comes(i)
    BY <1>10, <2>1, <2>2, SameComes
  <2> QED BY <1>0, <1>10, <2>2, <2>3 DEF Moved, BooksMove
<1>11. ASSUME NEW u \in User, Receive(u) PROVE Moved
  <2>1. UNCHANGED <<people, rooms, records>> /\ (job' = Disconnected(u) \/ job' = job)
    BY <1>11 DEF Receive
  <2> QED BY <1>10, <2>1, LeavesMoved
<1>12. ASSUME NEW u \in User, JoinRoom(u) PROVE Moved
  <2>1. UNCHANGED <<people, rooms, records>> /\ (job' = Disconnected(u) \/ job' = job)
    BY <1>12 DEF JoinRoom
  <2> QED BY <1>10, <2>1, LeavesMoved
<1>13. ASSUME NEW u \in User, LeavePage(u) \/ Drop(u) \/ CancelSearch(u) PROVE Moved
  <2>1. UNCHANGED <<people, rooms, records>> /\ (job' = Disconnected(u) \/ job' = job)
    BY <1>13 DEF LeavePage, Drop, CancelSearch
  <2> QED BY <1>10, <2>1, LeavesMoved
<1>14. ASSUME NEW u \in User, LeaveUnrecorded(u) PROVE Moved
  <2>1. PICK r \in Room : Vacate(u, r) /\ job' = IF r \in open' THEN job ELSE Late(r)
    BY <1>14 DEF LeaveUnrecorded
  <2>2. UNCHANGED <<people, created, records>>
    BY <1>14 DEF LeaveUnrecorded
  <2>3. CASE r \in open'
    <3>1. job' = job /\ \A i \in Job : job[i].raced \in BOOLEAN
      BY <2>1, <2>3 DEF Typed, TypeOK, Jobs
    <3>2. \A i \in Job : job'[i].raced = (job[i].raced \/ (r \notin open' /\ job[i].room = r))
      BY <2>3, <3>1
    <3> QED BY <2>1, <2>2, <3>1, <3>2, VacateMoved
  <2>4. CASE r \notin open'
    <3>1. \A i \in Job : job'[i].at = "check" =>
            /\ job'[i].at = job[i].at /\ job'[i].user = job[i].user /\ job'[i].room = job[i].room
            /\ job'[i].rooms = job[i].rooms /\ job'[i].others = job[i].others
            /\ job'[i].raced = (job[i].raced \/ (r \notin open' /\ job[i].room = r))
      BY <2>1, <2>4, LateEffect DEF Later
    <3> QED BY <2>1, <2>2, <3>1, VacateMoved
  <2> QED BY <2>3, <2>4
<1>15. ASSUME NEW u \in User, NEW r \in Room, VisitRoom(u, r) PROVE Moved
  BY <1>15, LeavesMoved DEF VisitRoom
<1>16. ASSUME Restart PROVE Moved
  <2>1. \A i \in Job : Comes(i)
    BY <1>16, IdleRow DEF Restart, Comes
  <2> QED BY <1>0, <1>16, <2>1 DEF Moved, Restart, BooksMove
<1> QED BY <1>1, <1>2, <1>3, <1>4, <1>5, <1>6, <1>7, <1>8, <1>9, <1>11, <1>12, <1>13,
           <1>14, <1>15, <1>16 DEF Next, Seeks

LEMMA InitRecorded == Init => Kept /\ Checked /\ OnRecord
<1> SUFFICES ASSUME Init PROVE Kept /\ Checked /\ OnRecord
  OBVIOUS
<1>1. Kept
  BY FS_EmptySet DEF Init, Kept
<1>2. Checked
  BY IdleRow DEF Init, Checked
<1>3. OnRecord
  <2>1. \A r \in Room : \A v \in User : v \notin seats[r] /\ ~searching[v]
    BY DEF Init
  <2>2. \A r \in Room : Recorded(r)
    BY <2>1 DEF Recorded
  <2>3. \A j \in Job : job[j].at # "check"
    BY IdleRow DEF Init
  <2> QED BY <2>2, <2>3 DEF OnRecord
<1> QED BY <1>1, <1>2, <1>3

\* Who is expected in r or on record there: fewer expected, more on record.
LEMMA FewerExpected ==
  ASSUME NEW r, Recorded(r), roomElos[r] \subseteq roomElos'[r],
         \A v \in User : v \in seats'[r] => v \in seats[r] \/ v \in roomElos'[r],
         \A v \in User : searching'[v] /\ Has(inbox'[v], r) =>
           (searching[v] /\ Has(inbox[v], r)) \/ v \in roomElos'[r]
  PROVE  Recorded(r)'
BY DEF Recorded

LEMMA PageRecorded ==
  ASSUME Typed, NEW r \in Room, Recorded(r), NEW u \in User, NEW q \in Room \cup {None}, GoTo(u, q),
         UNCHANGED <<seats, roomElos>>
  PROVE  Recorded(r)'
<1>1. /\ ~searching'[u]
      /\ \A v \in User \ {u} : searching'[v] = searching[v] /\ inbox'[v] = inbox[v]
  BY GoToEffect
<1>2. \A v \in User : searching'[v] /\ Has(inbox'[v], r) => searching[v] /\ Has(inbox[v], r)
  BY <1>1
<1> QED BY <1>2, FewerExpected

LEMMA MatchedRecorded ==
  ASSUME Typed, NEW r \in Room, Recorded(r), NEW j \in Job, job[j].at # "idle", NEW q \in Room,
         Matched(j, q), UNCHANGED <<seats, searching>>
  PROVE  Recorded(r)'
<1>1. PICK u \in User : u = job[j].user
  BY DEF Typed, Rows, Row
<1>2. roomElos[r] \subseteq roomElos'[r] /\ u \in roomElos'[q]
  BY <1>1 DEF Matched, Joins
<1>3. ASSUME NEW v \in User, Has(inbox'[v], r) PROVE Has(inbox[v], r) \/ v \in roomElos'[r]
  <2>1. CASE job[j].live
    BY <1>1, <1>2, <1>3, <2>1 DEF Matched, Gets
  <2>2. CASE ~job[j].live
    BY <1>3, <2>2 DEF Matched
  <2> QED BY <2>1, <2>2
<1> QED BY <1>2, <1>3, FewerExpected

LEMMA RefusedRecorded ==
  ASSUME Typed, NEW r \in Room, Recorded(r), NEW j \in Job, job[j].at # "idle",
         Refused(j), UNCHANGED <<seats, searching, roomElos>>
  PROVE  Recorded(r)'
<1>1. PICK u \in User : u = job[j].user
  BY DEF Typed, Rows, Row
<1>2. ASSUME NEW v \in User, Has(inbox'[v], r) PROVE Has(inbox[v], r)
  BY <1>1, <1>2, RoomFacts DEF Refused, Gets
<1> QED BY <1>2, FewerExpected

LEMMA LookRecorded ==
  ASSUME Typed, NEW r \in Room, Recorded(r), NEW j \in Job, job[j].at # "idle",
         NEW S \in SUBSET Room, Look(j, S), UNCHANGED <<seats, searching>>
  PROVE  Recorded(r)'
<1>1. CASE LooksOn(j)
  BY <1>1, FewerExpected DEF LooksOn, records
<1>2. ASSUME NEW q \in S, Takes(j, q) PROVE Recorded(r)'
  BY <1>2, MatchedRecorded DEF Takes
<1>3. ASSUME NEW q \in S, Checks(j, q, S) PROVE Recorded(r)'
  BY <1>3, FewerExpected DEF Checks, records
<1> QED BY <1>1, <1>2, <1>3, LookEffect

\* But for a restart, what is on record stays on record while no room is odd.
LEMMA NextRecorded ==
  ASSUME Typed, Next, ~Restart, odd' = {}, NEW r \in Room, Recorded(r)
  PROVE  Recorded(r)'
<1>0. /\ created \in 0..MaxRooms /\ active \subseteq open /\ open \subseteq 1..created
      /\ inbox \in [User -> Seq(Answer)] /\ searching \in [User -> BOOLEAN]
      /\ page \in [User -> Room \cup {None}] /\ seats \in [Room -> SUBSET User]
  BY DEF Typed, TypeOK
<1>1. ASSUME NEW j \in Job, Ask(j) PROVE Recorded(r)'
  <2>1. CASE AsksOn(j)
    BY <1>1, <2>1, FewerExpected DEF Ask, AsksOn, records
  <2>2. CASE Refused(j)
    BY <1>1, <2>2, RefusedRecorded DEF Ask, records
  <2> QED BY <1>1, <2>1, <2>2, AskEffect
<1>2. ASSUME NEW j \in Job, AskFails(j) PROVE Recorded(r)'
  BY <1>2, FewerExpected DEF AskFails, records
<1>3. ASSUME NEW j \in Job, Find(j) PROVE Recorded(r)'
  <2>1. active \in SUBSET Room
    BY <1>0, RoomAssumption DEF Room
  <2> QED BY <1>3, <2>1, LookRecorded DEF Find
<1>4. ASSUME NEW j \in Job, Check(j) PROVE Recorded(r)'
  <2>1. job[j].rooms \in SUBSET Room /\ job[j].room \in Room /\ job[j].at = "check"
    BY <1>4 DEF Check, Typed, TypeOK, Jobs, Rows, Row
  <2>2. CASE Look(j, job[j].rooms)
    BY <1>4, <2>1, <2>2, LookRecorded DEF Check
  <2>3. CASE Match(j, job[j].room)
    <3>1. Matched(j, job[j].room)
      BY <2>1, <2>3, MatchEffect DEF Match
    <3> QED BY <1>4, <2>1, <3>1, MatchedRecorded DEF Check
  <2> QED BY <1>4, <2>2, <2>3 DEF Check
<1>5. ASSUME NEW j \in Job, Create(j) PROVE Recorded(r)'
  <2>1. PICK q \in Room : q = created'
    BY <1>0, <1>5, RoomAssumption DEF Create, Room
  <2>2. Matched(j, q) /\ job[j].at # "idle"
    BY <1>5, <2>1, MatchEffect DEF Create, Match
  <2> QED BY <1>5, <2>2, MatchedRecorded DEF Create
<1>6. ASSUME NEW j \in Job, ServerError(j) PROVE Recorded(r)'
  <2>1. Refused(j)
    BY <1>6, RefusedEffect DEF ServerError
  <2> QED BY <1>6, <2>1, RefusedRecorded DEF ServerError, records
<1>7. ASSUME NEW j \in Job, Left(j) PROVE Recorded(r)'
  <2>1. PICK u \in User, q \in Room : u = job[j].user /\ q = job[j].room
    BY <1>7, LeftEffect
  <2>2. Unrecords(q, u)
    BY <1>7, <2>1, UnrecordedEffect DEF Left
  <2>3. u \notin Expected(q)
    BY <1>7, <2>1 DEF Left
  <2>4. /\ u \notin seats[q] /\ ~(searching[u] /\ Has(inbox[u], q))
    BY <2>3 DEF Expected, Has
  <2>5. \A v \in User : searching'[v] /\ Has(inbox'[v], r) => searching[v] /\ Has(inbox[v], r)
    <3>1. CASE job[j].live
      <4>1. /\ ~searching'[u]
            /\ \A v \in User \ {u} : searching'[v] = searching[v] /\ inbox'[v] = inbox[v]
        BY <1>7, <2>1, <3>1, GoToEffect DEF Left
      <4> QED BY <4>1
    <3>2. CASE ~job[j].live
      BY <1>7, <3>2 DEF Left, client
    <3> QED BY <3>1, <3>2
  <2>6. UNCHANGED seats
    BY <1>7 DEF Left
  <2>7. CASE r # q
    BY <2>2, <2>5, <2>6, <2>7 DEF Recorded, Unrecords
  <2>8. CASE r = q
    <3>1. roomElos'[r] = roomElos[r] \ {u}
      BY <2>2, <2>8 DEF Unrecords
    <3> QED BY <2>4, <2>5, <2>6, <2>8, <3>1 DEF Recorded
  <2> QED BY <2>7, <2>8
<1>8. ASSUME NEW u \in User, Seeks(u) PROVE Recorded(r)'
  <2>0. PICK unsent \in BOOLEAN : Search(u, unsent)
    BY <1>8, SeeksEffect
  <2>1. /\ inbox'[u] = <<>> /\ inbox' = inbox
        /\ \A v \in User \ {u} : searching'[v] = searching[v]
    BY <1>0, <2>0 DEF Search
  <2>2. \A v \in User : searching'[v] /\ Has(inbox'[v], r) => searching[v] /\ Has(inbox[v], r)
    BY <2>1, NothingHas
  <2> QED BY <2>0, <2>2, FewerExpected DEF Search, records
<1>9. ASSUME NEW u \in User, NEW q \in Room, Vacate(u, q), UNCHANGED <<records, client>>
      PROVE  Recorded(r)'
  <2>1. \A v \in User : v \in seats'[r] => v \in seats[r]
    BY <1>0, <1>9 DEF Vacate
  <2> QED BY <1>9, <2>1, FewerExpected DEF records, client
<1>10. ASSUME NEW u \in User, CancelSearch(u) PROVE Recorded(r)'
  <2>1. \A v \in User : searching'[v] => searching[v]
    BY <1>0, <1>10 DEF CancelSearch
  <2> QED BY <1>10, <2>1, FewerExpected DEF CancelSearch, records
<1>11. ASSUME NEW u \in User, Receive(u) PROVE Recorded(r)'
  <2>1. PICK c \in Seq(Answer) : c = inbox[u] /\ c # <<>>
    BY <1>0, <1>11 DEF Receive
  <2>2. Head(c) \in Answer
    BY <2>1, TailHas
  <2>3. CASE searching[u] /\ Head(inbox[u]) # None
    <3>1. Head(c) \in Room \cup {None} /\ GoTo(u, Head(c))
      BY <1>11, <2>1, <2>2, <2>3 DEF Receive, Answer
    <3> QED BY <1>11, <3>1, PageRecorded DEF Receive, records
  <2>4. CASE ~(searching[u] /\ Head(inbox[u]) # None)
    <3>1. /\ ~searching'[u]
          /\ \A v \in User \ {u} : searching'[v] = searching[v] /\ inbox'[v] = inbox[v]
      BY <1>0, <1>11, <2>4 DEF Receive
    <3>2. \A v \in User : searching'[v] /\ Has(inbox'[v], r) => searching[v] /\ Has(inbox[v], r)
      BY <3>1
    <3> QED BY <1>11, <3>2, FewerExpected DEF Receive, records
  <2> QED BY <2>3, <2>4
<1>12. ASSUME NEW u \in User, JoinRoom(u) PROVE Recorded(r)'
  <2>1. UNCHANGED records
    BY <1>12 DEF JoinRoom
  <2>2. ASSUME NEW q \in Room \cup {None}, GoTo(u, q), UNCHANGED seats PROVE Recorded(r)'
    BY <2>1, <2>2, PageRecorded DEF records
  <2>3. CASE /\ page[u] \in open /\ seats' = [seats EXCEPT ![page[u]] = @ \cup {u}]
             /\ odd' = IF u \in roomElos[page[u]] THEN odd ELSE odd \cup {page[u]}
             /\ UNCHANGED <<searching, inbox>>
    <3>1. page[u] \in Room
      <4>1. PICK q \in Room \cup {None} : q = page[u]
        BY <1>0
      <4>2. q \in 1 .. created
        BY <1>0, <2>3, <4>1
      <4> QED BY <4>1, <4>2 DEF None
    <3>3. u \in roomElos[page[u]]
      BY <2>3
    <3>2. \A v \in User : v \in seats'[r] => v \in seats[r] \/ v \in roomElos'[r]
      BY <1>0, <2>1, <2>3, <3>1, <3>3 DEF records
    <3> QED BY <2>1, <2>3, <3>2, FewerExpected DEF records
  <2> QED BY <1>12, <2>2, <2>3 DEF JoinRoom
<1>13. ASSUME NEW u \in User, LeavePage(u) PROVE Recorded(r)'
  BY <1>13, PageRecorded DEF LeavePage, records
<1>14. ASSUME NEW u \in User, Drop(u) PROVE Recorded(r)'
  <2>1. /\ inbox'[u] = <<>> /\ searching' = searching
        /\ \A v \in User \ {u} : inbox'[v] = inbox[v]
    BY <1>0, <1>14 DEF Drop
  <2>2. \A v \in User : searching'[v] /\ Has(inbox'[v], r) => searching[v] /\ Has(inbox[v], r)
    BY <2>1, NothingHas
  <2> QED BY <1>14, <2>2, FewerExpected DEF Drop, records
<1>15. ASSUME NEW u \in User, NEW q \in Room, VisitRoom(u, q) PROVE Recorded(r)'
  BY <1>15, PageRecorded DEF VisitRoom, records
<1>16. ASSUME NEW j \in Job, NEW u \in User, LeaveRoom(j, u) PROVE Recorded(r)'
  BY <1>9, <1>16 DEF LeaveRoom
<1>17. ASSUME NEW u \in User, LeaveUnrecorded(u) PROVE Recorded(r)'
  BY <1>9, <1>17 DEF LeaveUnrecorded
<1> QED BY <1>1, <1>2, <1>3, <1>4, <1>5, <1>6, <1>7, <1>8, <1>10, <1>11, <1>12, <1>13,
           <1>14, <1>15, <1>16, <1>17 DEF Next, Seeks

LEMMA RestartOnRecord ==
  ASSUME Typed, Kept, OnRecord, Restart
  PROVE  OnRecord'
<1>1. /\ odd = {} /\ UNCHANGED <<created, seats>> /\ active' = {}
      /\ \A u \in User : inbox'[u] = <<>>
      /\ \A r \in Room : roomElos'[r] = {}
      /\ \A j \in Job : job'[j].at # "check"
  BY IdleRow DEF Restart, Followed
<1>2. ASSUME NEW r \in Room, r > created' PROVE Recorded(r)'
  <2>1. Recorded(r) /\ roomElos[r] = {}
    BY <1>1, <1>2 DEF OnRecord, Kept
  <2>2. \A u \in User : ~Has(inbox'[u], r)
    BY <1>1, NothingHas
  <2> QED BY <1>1, <2>1, <2>2 DEF Recorded
<1>3. \A r \in Room : r \in active' \/ r > created' => Recorded(r)'
  BY <1>1, <1>2
<1> QED BY <1>1, <1>3 DEF OnRecord, Recorded

----------------------------------------------------------------------------
(* The theorems *)

LEMMA InitIInv == Init => IInv
BY InitTyped, InitRecorded, InitSearch DEF IInv

LEMMA NextIInv == IInv /\ [Next]_vars => IInv'
<1>1. ASSUME IInv, Next PROVE IInv'
  <2>1. Typed /\ InLobby /\ SearchAnswered /\ Kept /\ Checked /\ OnRecord
    BY <1>1 DEF IInv
  <2>2. Typed' /\ InLobby' /\ SearchAnswered'
    BY <1>1, <2>1, NextTyped, NextSearch
  <2>3. Moved
    BY <1>1, <2>1, NextMoved
  <2>4. Kept'
    BY <2>1, <2>3, KeptMoves DEF Moved, people
  <2>5. Checked'
    BY <2>1, <2>3, CheckedMoves DEF Moved
  <2>6. OnRecord'
    <3>1. CASE Restart
      BY <2>1, <3>1, RestartOnRecord
    <3>2. CASE ~Restart
      <4>1. odd' = {} => \A r \in Room : Recorded(r) => Recorded(r)'
        BY <1>1, <2>1, <3>2, NextRecorded
      <4>2. odd = {}
        BY <1>1 DEF Next, Followed, Ask, AskFails, Find, Check, Create, ServerError, Left, QuickMatch,
           SearchDeaf, SearchInVain, Search, LeaveRoom, CancelSearch, Receive, JoinRoom, LeavePage, Drop, LeaveUnrecorded, VisitRoom, Restart
      <4> QED BY <2>1, <2>3, <4>1, <4>2, OnRecordMoves DEF Moved
    <3> QED BY <3>1, <3>2
  <2> QED BY <2>2, <2>4, <2>5, <2>6 DEF IInv
<1>2. ASSUME IInv, UNCHANGED vars PROVE IInv'
  BY <1>2 DEF vars, people, rooms, records, client, IInv, Typed, TypeOK, Rows, InLobby,
     SearchAnswered, Kept, Checked, OnRecord, Recorded, Suitable, Addresses
<1> QED BY <1>1, <1>2

LEMMA IInvInvariance == Spec => []IInv
BY InitIInv, NextIInv, PTL DEF Spec

\* What is recorded of a room is what MatchFits asks for.
LEMMA FitLemma ==
  ASSUME IInv, NEW r \in Room, NEW u \in User, Recorded(r), Suitable(r, u), r \in open',
         \A v \in roomElos[r] : {u, v} \notin suspects
  PROVE  FitsIn(u, r)
<1>1. Expected(r) \subseteq roomElos[r]
  BY ExpectedIs DEF IInv
<1>2. IsFiniteSet(roomElos[r]) /\ \A v \in roomElos[r] : ip[v] \in roomIps[r]
  BY DEF IInv, Kept
<1>3. /\ Cardinality(roomElos[r]) < Capacity /\ InRange(elo, roomElos[r], u)
      /\ ip[u] \notin roomIps[r]
  BY DEF Suitable
<1>4. Cardinality(Expected(r)) < Capacity
  <2>1. PICK S, T : S = roomElos[r] /\ T = Expected(r)
    OBVIOUS
  <2>2. IsFiniteSet(S) /\ T \in SUBSET S
    BY <1>1, <1>2, <2>1
  <2>3. Cardinality(T) <= Cardinality(S) /\ IsFiniteSet(T)
    BY <2>2, FS_Subset
  <2>4. Cardinality(T) \in Nat /\ Cardinality(S) \in Nat
    BY <2>2, <2>3, FS_CardinalityType
  <2> QED BY <1>3, <2>1, <2>3, <2>4, RoomAssumption
<1>5. \A v \in Expected(r) : ip[v] # ip[u] /\ {u, v} \notin suspects
  BY <1>1, <1>2, <1>3
<1>6. roomElos[r] \subseteq Expected(r) => InRange(elo, Expected(r), u)
  <2> SUFFICES ASSUME roomElos[r] \subseteq Expected(r) PROVE InRange(elo, Expected(r), u)
    OBVIOUS
  <2>1. Expected(r) = roomElos[r]
    BY <1>1
  <2> QED BY <1>3, <2>1
<1> QED BY <1>4, <1>5, <1>6 DEF FitsIn

LEMMA EmptyInRange == \A u : InRange(elo, {}, u)
BY DEF InRange

LEMMA NewFits ==
  ASSUME IInv, NEW r \in Room, NEW u \in User, Recorded(r), roomElos[r] = {}, r \in open'
  PROVE  FitsIn(u, r)
<1>1. Expected(r) = {}
  BY ExpectedIs DEF IInv
<1>2. Cardinality({}) < Capacity
  BY FS_EmptySet, RoomAssumption
<1> QED BY <1>1, <1>2, EmptyInRange DEF FitsIn

Fits == \A r \in Room : \A u \in roomElos'[r] \ roomElos[r] : r \in odd' \/ FitsIn(u, r)

LEMMA MatchedFits ==
  ASSUME Typed, NEW j \in Job, job[j].at # "idle", NEW r \in Room, Matched(j, r),
         r \in odd' \/ FitsIn(job[j].user, r)
  PROVE  Fits
<1>1. job[j].user \in User
  BY DEF Typed, Rows, Row
<1> QED BY <1>1 DEF Fits, Matched, Joins

LEMMA LookFits ==
  ASSUME IInv, NEW j \in Job, job[j].at # "idle", NEW S \in SUBSET Room, Look(j, S),
         UNCHANGED rooms, \A r \in S : Recorded(r)
  PROVE  Fits
<1>1. CASE LooksOn(j)
  BY <1>1 DEF LooksOn, records, Fits
<1>2. ASSUME NEW r \in S, Suitable(r, job[j].user), Takes(j, r) PROVE Fits
  <2>1. job[j].user \in User /\ Typed
    BY DEF IInv, Typed, Rows, Row
  <2>2. r \notin odd' => r \in open'
    BY <1>2 DEF Takes, rooms
  <2>3. r \in open' => FitsIn(job[j].user, r)
    BY <1>2, <2>1, NewFits DEF Takes
  <2> QED BY <1>2, <2>1, <2>2, <2>3, MatchedFits DEF Takes
<1>3. ASSUME NEW r \in S, Checks(j, r, S) PROVE Fits
  BY <1>3 DEF Checks, records, Fits
<1> QED BY <1>1, <1>2, <1>3, LookEffect DEF IInv

LEMMA NextFits ==
  ASSUME IInv, Next
  PROVE  Fits
<1>0. /\ Typed /\ Checked /\ OnRecord /\ created \in 0..MaxRooms
      /\ active \subseteq open /\ open \subseteq 1..created
  BY DEF IInv, Typed, TypeOK
<1>1. ASSUME UNCHANGED records PROVE Fits
  BY <1>1 DEF Fits, records
<1>2. ASSUME NEW j \in Job, Find(j) PROVE Fits
  <2>1. active \in SUBSET Room /\ odd = {}
    BY <1>0, <1>2, RoomAssumption DEF Room, Find, Followed
  <2> QED BY <1>0, <1>2, <2>1, LookFits DEF Find, OnRecord
<1>3. ASSUME NEW j \in Job, Check(j) PROVE Fits
  <2>1. PICK r \in Room, u \in User : r = job[j].room /\ u = job[j].user
    BY <1>0, <1>3 DEF Check, Typed, Rows, Row
  <2>2. job[j].rooms \in SUBSET Room /\ job[j].at = "check" /\ odd = {}
    BY <1>0, <1>3 DEF Check, Typed, TypeOK, Jobs, Followed
  <2>3. Recorded(r) /\ \A q \in job[j].rooms : Recorded(q)
    BY <1>0, <2>1, <2>2 DEF OnRecord
  <2>4. CASE Look(j, job[j].rooms)
    BY <1>3, <2>2, <2>3, <2>4, LookFits DEF Check
  <2>5. CASE Match(j, job[j].room) /\ ~Collusion(job[j].user, job[j].others)
    <3>1. Matched(j, r)
      BY <1>0, <2>1, <2>2, <2>5, MatchEffect DEF Match
    <3>2. r \in odd' \/ ~job[j].raced
      BY <2>1, <2>5 DEF Match
    <3>3. ~job[j].raced => r \in open /\ Suitable(r, u) /\ job[j].others = roomElos[r]
      BY <1>0, <2>1, <2>2 DEF Checked
    <3>4. open' = open /\ \A v \in job[j].others : {u, v} \notin suspects
      BY <1>3, <2>1, <2>5 DEF Check, rooms, Collusion
    <3>5. ~job[j].raced => FitsIn(u, r)
      BY <2>3, <3>3, <3>4, FitLemma
    <3> QED BY <1>0, <2>1, <2>2, <3>1, <3>2, <3>5, MatchedFits
  <2> QED BY <1>3, <2>4, <2>5 DEF Check
<1>4. ASSUME NEW j \in Job, Create(j) PROVE Fits
  <2>1. /\ created' = created + 1 /\ created' \in Room /\ odd = {} /\ job[j].at # "idle"
        /\ created' \in open' /\ Match(j, created')
    BY <1>0, <1>4, RoomAssumption DEF Create, Room, Followed
  <2>2. PICK r \in Room : r = created' /\ r > created
    BY <1>0, <2>1
  <2>3. PICK u \in User : u = job[j].user
    BY <1>0, <2>1 DEF Typed, Rows, Row
  <2>4. Recorded(r) /\ roomElos[r] = {}
    BY <1>0, <2>1, <2>2 DEF OnRecord, Kept, IInv
  <2>5. FitsIn(u, r)
    BY <2>1, <2>2, <2>4, NewFits
  <2>6. Matched(j, r)
    BY <1>0, <2>1, <2>2, MatchEffect DEF Match
  <2> QED BY <1>0, <2>1, <2>3, <2>5, <2>6, MatchedFits
<1>5. ASSUME NEW j \in Job, Left(j) PROVE Fits
  <2>1. PICK r \in Room, u \in User : r = job[j].room /\ u = job[j].user
    BY <1>0, <1>5, LeftEffect
  <2>2. Unrecords(r, u)
    BY <1>0, <1>5, <2>1, UnrecordedEffect DEF Left
  <2> QED BY <2>2 DEF Unrecords, Fits
<1>6. ASSUME Restart PROVE Fits
  BY <1>6 DEF Restart, Fits
<1>7. ASSUME NEW j \in Job, Ask(j) \/ AskFails(j) \/ ServerError(j) PROVE UNCHANGED records
  BY <1>7 DEF Ask, AskFails, ServerError
<1>8. ASSUME NEW j \in Job, NEW u \in User, LeaveRoom(j, u) PROVE UNCHANGED records
  BY <1>8 DEF LeaveRoom
<1>9. ASSUME NEW u \in User, Seeks(u) \/ CancelSearch(u) \/ Receive(u) \/ JoinRoom(u) \/ LeavePage(u) \/ Drop(u)
                               \/ LeaveUnrecorded(u) \/ \E r \in Room : VisitRoom(u, r)
      PROVE  UNCHANGED records
  BY <1>9 DEF Seeks, SearchInVain, QuickMatch, SearchDeaf, Search, CancelSearch, Receive, JoinRoom,
     LeavePage, Drop, LeaveUnrecorded, VisitRoom
<1> QED BY <1>1, <1>2, <1>3, <1>4, <1>5, <1>6, <1>7, <1>8, <1>9 DEF Next, Seeks

\* SearchAnswered: no page searches for ever, whatever is cancelled, asked again or
\* overtaken, unless its connection, the server or the database failed, or the browser's
\* token was gone, or was another one than the lobby has connected with.
THEOREM SearchesAnswered == Spec => []SearchAnswered
<1>1. IInv => SearchAnswered
  BY DEF IInv
<1> QED BY <1>1, IInvInvariance, PTL

\* MatchFits: whoever is sent to a room finds it there, with a seat, and the players
\* who sit there or are on their way suit him.
THEOREM MatchesFit == Spec => MatchFits
<1>1. IInv /\ [Next]_vars =>
        [\A r \in Room : \A u \in roomElos'[r] \ roomElos[r] : r \in odd' \/ FitsIn(u, r)]_vars
  BY NextFits DEF Fits
<1> QED BY <1>1, IInvInvariance, PTL DEF Spec, MatchFits

=============================================================================
