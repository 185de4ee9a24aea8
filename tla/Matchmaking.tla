----------------------------- MODULE Matchmaking -----------------------------
(***************************************************************************)
(* Quick match: the lobby page that searches (web/app/rooms/page.tsx), the *)
(* quick_match and leave_room handlers of app.gateway.ts, and              *)
(* matchmaking.service.ts, which chooses a room by what it has recorded of *)
(* the players it sent there and not by who sits there.                    *)
(*                                                                         *)
(* A call runs from one await to the next.  Tables are sets of players     *)
(* (SeatLedger has how they sit down and leave), Elo ratings stay as they  *)
(* are, and the tier is one and the same.                                  *)
(***************************************************************************)
EXTENDS Integers, FiniteSetsExt, Sequences

CONSTANTS
  User,
  Job, NoUser,  \* bound: the calls in progress at once
  Capacity,     \* config.maxPlayers
  MatchRange,        \* ELO_MATCH_RANGE
  MaxRooms,     \* bound: match rooms created
  MaxMoves      \* bound: quick_match calls, rooms opened by their address, restarts

ASSUME JobAssumption  == NoUser \notin User
ASSUME RoomAssumption == Capacity \in Nat \ {0} /\ MatchRange \in Nat /\ MaxRooms \in Nat /\ MaxMoves \in Nat

Room == 1..MaxRooms   \* in the order of createdAt
None == 0             \* no room; the lobby

VARIABLES
  elo, ip, suspects,  \* of the users: ratings, addresses, and who shared too many hands
  created,            \* how many rooms there have been
  active,             \* the rooms with status ACTIVE
  open,               \* the rooms that exist, ACTIVE or INACTIVE
  seats,              \* the players at each table
  roomElos, roomIps,  \* what matchmaking has recorded of each room
  job,                \* the calls
  page, searching,    \* the page of each user, and isSearchingRef in the lobby
  joining,            \* the room page has sent join_room
  inbox,              \* what the server has sent to that page
  deaf,               \* the lobby's handlers are on a connection it has no more
  lost,               \* history: the question or its answer went with a connection, or
                      \* was never sent
  moves,              \* how many of those have been
  odd                 \* history: the rooms where the records were overtaken

vars == <<elo, ip, suspects, created, active, open, seats, roomElos, roomIps, job, page,
          searching, joining, inbox, deaf, lost, moves, odd>>

people  == <<elo, ip, suspects>>
rooms   == <<created, active, open>>
records == <<roomElos, roomIps>>
client  == <<page, searching, joining, inbox, deaf, lost>>

\* Bound: a behaviour is followed up to the first odd room.
Followed == odd = {}

Moves == moves < MaxMoves /\ moves' = moves + 1

\* at: what the call awaits.  live: its connection is the user's page still.  rooms: the
\* candidates it has not looked at.  raced: the records it has checked have changed.
Jobs == [at : {"idle", "room", "find", "check", "create", "left"}, user : User \cup {NoUser},
         live : BOOLEAN, room : Room \cup {None}, rooms : SUBSET Room, others : SUBSET User,
         raced : BOOLEAN]
Idle == [at |-> "idle", user |-> NoUser, live |-> FALSE, room |-> None, rooms |-> {},
         others |-> {}, raced |-> FALSE]

\* match_found with its room, and match_error
Answer == Room \cup {None}

Addresses == {ip[u] : u \in User}

TypeOK ==
  /\ elo \in [User -> Nat] /\ suspects \subseteq SUBSET User
  /\ created \in 0..MaxRooms /\ active \subseteq open /\ open \subseteq 1..created
  /\ seats \in [Room -> SUBSET User] /\ roomElos \in [Room -> SUBSET User]
  /\ roomIps \in [Room -> SUBSET Addresses]
  /\ job \in [Job -> Jobs]
  /\ page \in [User -> Room \cup {None}] /\ searching \in [User -> BOOLEAN]
  /\ inbox \in [User -> Seq(Answer)]
  /\ joining \in [User -> BOOLEAN] /\ deaf \in [User -> BOOLEAN] /\ lost \in [User -> BOOLEAN]
  /\ odd \subseteq Room /\ moves \in 0..MaxMoves

\* Bound: of all the pairs of users at most one should not play together.
Init ==
  /\ \E u \in User : \E v \in User \ {u} :
       /\ elo \in {[w \in User |-> 1000], [w \in User |-> IF w = u THEN 1001 + MatchRange ELSE 1000]}
       /\ ip \in {[w \in User |-> w], [w \in User |-> IF w = u THEN v ELSE w]}
       /\ suspects \in {{}, {{u, v}}}
       /\ Cardinality({x \in {elo[u] # elo[v], ip[u] = ip[v], suspects # {}} : x}) <= 1
  /\ created = 0 /\ active = {} /\ open = {}
  /\ seats = [r \in Room |-> {}]
  /\ roomElos = seats /\ roomIps = seats
  /\ job = [j \in Job |-> Idle]
  /\ page = [u \in User |-> None]
  /\ searching = [u \in User |-> FALSE]
  /\ inbox = [u \in User |-> <<>>]
  /\ lost = searching /\ deaf = searching /\ joining = searching
  /\ odd = {} /\ moves = 0

\* Who sits in r or is on his way: match_found has taken his page there, or will.
Expected(r) ==
  seats[r] \cup {u \in User : \/ (page[u] = r /\ u \in roomElos[r])
                             \/ (searching[u] /\ \E i \in DOMAIN inbox[u] : inbox[u][i] = r)}

----------------------------------------------------------------------------
(* What the service has recorded *)

\* recordPlayerJoined
RecordPlayerJoined(r, u) ==
  /\ roomElos' = [roomElos EXCEPT ![r] = @ \cup {u}]
  /\ roomIps'  = [roomIps EXCEPT ![r] = @ \cup {ip[u]}]

\* recordPlayerLeft: the addresses stay until the last record is gone.
RecordPlayerLeft(r, u) ==
  /\ roomElos' = [roomElos EXCEPT ![r] = @ \ {u}]
  /\ roomIps'  = IF roomElos[r] = {u} THEN [roomIps EXCEPT ![r] = {}] ELSE roomIps

InRange(ratings, S, u) ==
  LET sum(v, total) == total + ratings[v]
      excess == FoldSet(sum, 0, S) - Cardinality(S) * ratings[u]
  IN  S # {} => excess \in -(MatchRange * Cardinality(S)) .. MatchRange * Cardinality(S)

\* Mutant: one seat too many.
SuitableOffByOne(r, u) ==
  /\ Cardinality(roomElos[r]) <= Capacity
  /\ InRange(elo, roomElos[r], u)
  /\ ip[u] \notin roomIps[r]

\* isRoomSuitable, up to checkCollusion (in production)
Suitable(r, u) ==
  /\ Cardinality(roomElos[r]) < Capacity
  /\ InRange(elo, roomElos[r], u)
  /\ ip[u] \notin roomIps[r]

\* checkCollusion
Collusion(u, others) == \E v \in others : {u, v} \in suspects

----------------------------------------------------------------------------
(* Steps of the calls *)

\* Job j ends and sends its page the answers.
Answers(j, answers) ==
  inbox' = IF job[j].live THEN [inbox EXCEPT ![job[j].user] = @ \o answers] ELSE inbox

\* The records of room r change, or it is gone: who is checking it is late.
Late(r) == [i \in Job |-> [job[i] EXCEPT !.raced = @ \/ (job[i].at = "check" /\ job[i].room = r)]]

\* findOrCreateMatchmakingRoom returns r.
Match(j, r) ==
  /\ RecordPlayerJoined(r, job[j].user)
  /\ Answers(j, <<r>>)
  /\ job' = [Late(r) EXCEPT ![j] = Idle]
  /\ odd' = IF job[j].raced THEN odd \cup {r} ELSE odd

\* The next of the candidates that suits by what is recorded now.
Look(j, candidates) ==
  LET u == job[j].user
      suitable == {r \in candidates : Suitable(r, u)}
      r == Min(suitable)
  IN  IF suitable = {}
      THEN /\ job' = [job EXCEPT ![j] = [@ EXCEPT !.at = "create", !.room = None, !.rooms = {},
                                                  !.others = {}, !.raced = FALSE]]
           /\ UNCHANGED <<records, inbox, odd>>
      ELSE IF roomElos[r] = {}
      THEN /\ RecordPlayerJoined(r, u) /\ Answers(j, <<r>>)
           /\ job' = [Late(r) EXCEPT ![j] = Idle]
           /\ odd' = IF r \in open THEN odd ELSE odd \cup {r}
      ELSE /\ job' = [job EXCEPT ![j] =
                [@ EXCEPT !.at = "check", !.room = r, !.others = roomElos[r],
                          !.rooms = {q \in candidates : q > r}, !.raced = r \notin open]]
           /\ UNCHANGED <<records, inbox, odd>>

\* Mutant: who is in a room already gets no answer.
AskSilently(j) ==
  /\ Followed /\ job[j].at = "room"
  /\ IF \E r \in Room : job[j].user \in seats[r]
     THEN job' = [job EXCEPT ![j] = Idle] /\ UNCHANGED inbox
     ELSE \/ job' = [job EXCEPT ![j].at = "find"] /\ UNCHANGED inbox
          \/ job' = [job EXCEPT ![j] = Idle] /\ Answers(j, <<None>>)
  /\ UNCHANGED <<people, rooms, seats, records, page, searching, joining, deaf, lost, odd, moves>>

\* handleQuickMatch up to findMany: already_in_room, insufficient_chips.
Ask(j) ==
  /\ Followed /\ job[j].at = "room"
  /\ \/ /\ \A r \in Room : job[j].user \notin seats[r]
        /\ job' = [job EXCEPT ![j].at = "find"] /\ UNCHANGED inbox
     \/ job' = [job EXCEPT ![j] = Idle] /\ Answers(j, <<None>>)
  /\ UNCHANGED <<people, rooms, seats, records, page, searching, joining, deaf, lost, odd, moves>>

\* A database call before the try block rejects: nobody answers.
AskFails(j) ==
  /\ Followed /\ job[j].at = "room"
  /\ job' = [job EXCEPT ![j] = Idle]
  /\ lost' = [lost EXCEPT ![job[j].user] = @ \/ (job[j].live /\ searching[job[j].user])]
  /\ UNCHANGED <<people, rooms, seats, records, page, searching, joining, inbox, deaf, odd, moves>>

Find(j) ==
  /\ Followed /\ job[j].at = "find"
  /\ Look(j, active)
  /\ UNCHANGED <<people, rooms, seats, page, searching, joining, deaf, lost, moves>>

Check(j) ==
  /\ Followed /\ job[j].at = "check"
  /\ IF Collusion(job[j].user, job[j].others) THEN Look(j, job[j].rooms)
     ELSE Match(j, job[j].room)
  /\ UNCHANGED <<people, rooms, seats, page, searching, joining, deaf, lost, moves>>

\* prisma.room.create
Create(j) ==
  /\ Followed /\ job[j].at = "create" /\ created < MaxRooms
  /\ created' = created + 1
  /\ active' = active \cup {created'} /\ open' = open \cup {created'}
  /\ Match(j, created')
  /\ UNCHANGED <<people, seats, page, searching, joining, deaf, lost, moves>>

\* A call of findOrCreateMatchmakingRoom rejects. (Bound: so it is when MaxRooms are created.)
ServerError(j) ==
  /\ Followed /\ job[j].at \in {"find", "check", "create"}
  /\ job' = [job EXCEPT ![j] = Idle]
  /\ Answers(j, <<None>>)
  /\ UNCHANGED <<people, rooms, seats, records, page, searching, joining, deaf, lost, odd, moves>>

----------------------------------------------------------------------------
(* The pages *)

\* The connection of u's page is gone, and what was to come over it.
Disconnected(u) == [j \in Job |-> [job[j] EXCEPT !.live = @ /\ job[j].user # u]]

GoTo(u, r) ==
  /\ page' = [page EXCEPT ![u] = r]
  /\ joining' = [joining EXCEPT ![u] = r # None]
  /\ searching' = [searching EXCEPT ![u] = FALSE]
  /\ inbox' = [inbox EXCEPT ![u] = <<>>]
  /\ deaf' = [deaf EXCEPT ![u] = FALSE]
  /\ lost' = [lost EXCEPT ![u] = FALSE]

\* handleQuickMatch of the lobby (bound: it has dealt with all answers), up to its token:
\* the page searches from now on.
Search(u, unsent) ==
  /\ Followed /\ page[u] = None /\ ~searching[u] /\ inbox[u] = <<>>
  /\ Moves
  /\ searching' = [searching EXCEPT ![u] = TRUE]
  /\ lost' = [lost EXCEPT ![u] = unsent]
  /\ UNCHANGED <<people, rooms, seats, records, page, joining, inbox, odd>>

Asking(u, live) == [Idle EXCEPT !.at = "room", !.user = u, !.live = live]

\* The token is the one the lobby has connected with.
QuickMatch(j, u) ==
  /\ Search(u, FALSE) /\ job[j] = Idle
  /\ job' = [job EXCEPT ![j] = Asking(u, ~deaf[u])]
  /\ UNCHANGED deaf

\* Another tab of the browser has logged out: nothing is sent.
SearchInVain(u) ==
  /\ Search(u, TRUE)
  /\ UNCHANGED <<job, deaf>>

\* Another tab has logged in: getSocket replaces the connection, and the new one has none of
\* the lobby's handlers.
SearchDeaf(j, u) ==
  /\ Search(u, FALSE) /\ job[j] = Idle
  /\ job' = [Disconnected(u) EXCEPT ![j] = Asking(u, FALSE)]
  /\ deaf' = [deaf EXCEPT ![u] = TRUE]

\* handleCancelSearch: the server is not told.
CancelSearch(u) ==
  /\ Followed /\ searching[u]
  /\ searching' = [searching EXCEPT ![u] = FALSE] /\ lost' = [lost EXCEPT ![u] = FALSE]
  /\ UNCHANGED <<people, rooms, seats, records, job, page, joining, inbox, deaf, odd, moves>>

\* onMatchFound, onMatchError
Receive(u) ==
  /\ Followed /\ inbox[u] # <<>>
  /\ IF searching[u] /\ Head(inbox[u]) # None
     THEN GoTo(u, Head(inbox[u])) /\ job' = Disconnected(u)
     ELSE /\ inbox' = [inbox EXCEPT ![u] = Tail(@)]
          /\ searching' = [searching EXCEPT ![u] = FALSE] /\ lost' = [lost EXCEPT ![u] = FALSE]
          /\ UNCHANGED <<page, joining, deaf, job>>
  /\ UNCHANGED <<people, rooms, seats, records, odd, moves>>

\* A player opens a room from his history or by its address.
VisitRoom(u, r) ==
  /\ Followed /\ Moves /\ page[u] = None /\ ~searching[u] /\ r \in open
  /\ GoTo(u, r) /\ job' = Disconnected(u)
  /\ UNCHANGED <<people, rooms, seats, records, odd>>

\* handleJoinRoom: seated, or sent on to the room he sits in, or back to the lobby (room_full,
\* insufficient_balance, Room not found).
JoinRoom(u) ==
  LET r == page[u] IN
  /\ Followed /\ joining[u]
  /\ \/ /\ r \in open /\ (u \in seats[r] \/ Cardinality(seats[r]) < Capacity)
        /\ \A q \in Room \ {r} : u \notin seats[q]
        /\ seats' = [seats EXCEPT ![r] = @ \cup {u}]
        /\ odd' = IF u \in roomElos[r] THEN odd ELSE odd \cup {r}
        /\ joining' = [joining EXCEPT ![u] = FALSE]
        /\ UNCHANGED <<job, page, searching, inbox, deaf, lost>>
     \/ /\ u \notin seats[r] /\ GoTo(u, None) /\ job' = Disconnected(u)
        /\ UNCHANGED <<seats, odd>>
     \/ /\ \E q \in Room \ {r} : u \in seats[q] /\ GoTo(u, q)
        /\ job' = Disconnected(u)
        /\ UNCHANGED <<seats, odd>>
  /\ UNCHANGED <<people, rooms, records, moves>>

\* The player goes back to the lobby, or closes the page, and keeps his seat for the moment.
LeavePage(u) ==
  /\ Followed /\ page[u] # None
  /\ GoTo(u, None) /\ job' = Disconnected(u)
  /\ UNCHANGED <<people, rooms, seats, records, odd, moves>>

\* socket.io: the connection of the lobby drops and comes back.
Drop(u) ==
  /\ searching[u] /\ Followed
  /\ job' = Disconnected(u)
  /\ inbox' = [inbox EXCEPT ![u] = <<>>]
  /\ lost' = [lost EXCEPT ![u] = TRUE]
  /\ UNCHANGED <<people, rooms, seats, records, page, searching, joining, deaf, odd, moves>>

----------------------------------------------------------------------------
(* Leaving *)

\* leaveCurrentRoom: an empty room is deleted, if it can be.
Vacate(u, r) ==
  /\ u \in seats[r]
  /\ seats' = [seats EXCEPT ![r] = @ \ {u}]
  /\ open' \in {open} \cup (IF seats[r] = {u} THEN {open \ {r}} ELSE {})
  /\ active' = active \cap open'

\* handleLeaveRoom, which waits for leaveCurrentRoom ...
LeaveRoom(j, u) ==
  /\ Followed /\ job[j] = Idle
  /\ \E r \in Room :
       /\ page[u] = r /\ ~joining[u] /\ Vacate(u, r)
       /\ job' = [(IF r \in open' THEN job ELSE Late(r)) EXCEPT
                     ![j] = [Idle EXCEPT !.at = "left", !.user = u, !.live = TRUE, !.room = r]]
  /\ UNCHANGED <<people, created, records, client, odd, moves>>

\* ... and then forgets the player; left_room takes the page to the lobby.
Left(j) ==
  LET u == job[j].user
      r == job[j].room
  IN  /\ Followed /\ job[j].at = "left"
      /\ RecordPlayerLeft(r, u)
      /\ odd' = IF u \in Expected(r) THEN odd \cup {r} ELSE odd
      /\ job' = [i \in Job |->
            IF i = j THEN Idle
            ELSE [Late(r)[i] EXCEPT !.live = @ /\ ~(job[j].live /\ job[i].user = u)]]
      /\ IF job[j].live THEN GoTo(u, None) ELSE UNCHANGED client
      /\ UNCHANGED <<people, rooms, seats, moves>>

\* POST /tables/me/leave-room, from the room page without an answer for 1.2 seconds or from
\* the lobby, and the end of a disconnect grace period: matchmaking is not told.
LeaveUnrecorded(u) ==
  /\ Followed /\ \E r \in Room : Vacate(u, r) /\ job' = IF r \in open' THEN job ELSE Late(r)
  /\ UNCHANGED <<people, created, records, client, odd, moves>>

\* The records are gone, and onModuleInit closes the rooms they were about.
Restart ==
  /\ Followed /\ Moves
  /\ active' = {}
  /\ roomElos' = [r \in Room |-> {}] /\ roomIps' = [r \in Room |-> {}]
  /\ job' = [j \in Job |-> Idle]
  /\ inbox' = [u \in User |-> <<>>]
  /\ lost' = searching
  /\ joining' = [u \in User |-> page[u] # None]
  /\ UNCHANGED <<people, created, open, seats, page, searching, deaf, odd>>

Next ==
  \/ \E j \in Job :
       \/ Ask(j) \/ AskFails(j) \/ Find(j) \/ Check(j) \/ Create(j) \/ ServerError(j)
       \/ Left(j) \/ \E u \in User : QuickMatch(j, u) \/ SearchDeaf(j, u) \/ LeaveRoom(j, u)
  \/ \E u \in User :
       \/ SearchInVain(u) \/ CancelSearch(u) \/ Receive(u) \/ JoinRoom(u) \/ LeavePage(u) \/ Drop(u)
       \/ LeaveUnrecorded(u) \/ \E r \in Room : VisitRoom(u, r)
  \/ Restart

Spec == Init /\ [][Next]_vars

----------------------------------------------------------------------------
(* Properties *)

FitsIn(u, r) ==
  /\ r \in open'
  /\ Cardinality(Expected(r)) < Capacity
  /\ \A v \in Expected(r) : ip[v] # ip[u] /\ {u, v} \notin suspects
  /\ roomElos[r] \subseteq Expected(r) => InRange(elo, Expected(r), u)

\* A player is sent only to a room that is there, with a seat for him besides those who sit
\* there and those on their way, none of whom has his address or has shared too many hands
\* with him; and, if nobody else is on record there, with an average rating in his range.
\* Except (odd) that the records changed or the room went while the room was being checked,
\* that somebody sits there who came by himself, or that leave_room dropped the
\* record of a player who was back.
MatchFits ==
  [][\A r \in Room : \A u \in roomElos'[r] \ roomElos[r] : r \in odd' \/ FitsIn(u, r)]_vars

\* A page that searches has its answer or a call that will give it one: whatever is
\* cancelled and asked again, and whichever call overtakes another, no page waits for ever.
\* Except (lost) that the browser had no token to ask with, the connection dropped, the
\* server restarted, or the database failed before the try block; or (deaf) that the
\* connection has been replaced since the browser's token had changed.
SearchAnswered ==
  \A u \in User : searching[u] =>
    \/ lost[u] \/ deaf[u] \/ inbox[u] # <<>>
    \/ \E j \in Job : job[j].user = u /\ job[j].live /\ job[j].at # "left"
=============================================================================
