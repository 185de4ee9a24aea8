------------------------------ MODULE Session ------------------------------
(***************************************************************************)
(* One user, his browsers and the server: logging in (auth.service.ts),    *)
(* the connection of a page (app.gateway.ts, packages/shared/src/socket.ts)*)
(* and the seat that outlives a lost one for DISCONNECT_GRACE_PERIOD_MS.   *)
(*                                                                         *)
(* A new login replaces the session in Redis; a connection that is made    *)
(* closes the user's other ones.  handleConnection, handleDisconnect and   *)
(* the callback of the grace timer await Redis or the database half-way.   *)
(* The room is reduced to whether the user has a seat in it.               *)
(***************************************************************************)
EXTENDS Naturals, FiniteSets

CONSTANTS
  Tab,        \* the pages the user has open
  Browser,    \* a localStorage each, with one token
  MaxSockets, \* bound: connections the server still has to do with at once
  MaxLogins   \* bound: logins

ASSUME SessionAssumption == MaxSockets \in Nat \ {0} /\ MaxLogins \in Nat

Socket == 1..MaxSockets
Login  == 0..MaxLogins      \* a login and its token and its session id; 0 is none
None   == 0

VARIABLES
  home,     \* the browser of each tab
  token,    \* localStorage.token of each browser
  tab,      \* the pages
  sock,     \* the connections, as the server sees them
  session,  \* user_session:<id> in Redis
  redisUp,  \* RedisService.isAvailable
  logins,   \* logins so far
  grace,    \* the user has an entry in pendingDisconnects
  cleaning, \* the callback of that timer is past its look at the connections
  seated,   \* the user has a seat
  lost      \* history: the seat may have been left to itself, see SeatWatched

vars == <<home, token, tab, sock, session, redisUp, logins, grace, cleaning,
          seated, lost>>

client == <<home, token, tab>>
server == <<session, redisUp, logins>>
seat   == <<grace, cleaning, seated>>

\* aside: the home page and the settings, which have a request to make and no connection.
Page == {"login", "aside", "rooms", "room"}

\* with: socketToken.  link: the connection of the page's socket object, if it has one.
Tabs == [page : Page, with : Login, link : 0..MaxSockets]

\* up: fetchSockets has it.  known: data.user is set.  at: what handleConnection awaits.
\* seen: the session it compared with.  bye: handleDisconnect is in progress.
\* joining: a join_room of it is.  told: force_logout is on its way, see LoginKept.
Sockets == [login : Login, up : BOOLEAN, known : BOOLEAN, at : {"redis", "room", "done"},
            seen : Login, bye : BOOLEAN, joining : BOOLEAN, told : {"no", "replaced", "mistaken"}]

Closed == [login |-> None, up |-> FALSE, known |-> FALSE, at |-> "done", seen |-> None,
           bye |-> FALSE, joining |-> FALSE, told |-> "no"]

Init ==
  /\ home \in [Tab -> Browser]
  /\ token = [b \in Browser |-> None]
  /\ tab = [t \in Tab |-> [page |-> "login", with |-> None, link |-> None]]
  /\ sock = [s \in Socket |-> Closed]
  /\ session = None /\ redisUp = TRUE /\ logins = 0
  /\ grace = FALSE /\ cleaning = FALSE /\ seated = FALSE
  /\ lost = FALSE

-----------------------------------------------------------------------------
(***************************************************************************)
(* Connections.                                                            *)
(***************************************************************************)
Token(t)  == token[home[t]]
Active(s) == sock[s].up /\ sock[s].known
Attached(s) == \E t \in Tab : tab[t].link = s
Free(s)   == sock[s] = Closed /\ ~Attached(s)

\* What force_logout to s is, if it finds anybody.
Telling(s, mistaken) == IF ~Attached(s) \/ ~sock[s].up THEN sock[s].told
                        ELSE IF mistaken THEN "mistaken" ELSE "replaced"

\* What nobody will look at again is forgotten.
Tidy(f) == [s \in Socket |->
              IF ~f[s].up /\ f[s].at = "done" /\ ~f[s].bye /\ ~f[s].joining /\ f[s].told = "no"
              THEN Closed
              ELSE [f[s] EXCEPT !.seen = IF f[s].at = "room" THEN f[s].seen ELSE None]]

\* hasOtherActiveSocket; the sockets S are on their way out.
OtherActive(S) == \E s \in Socket \ S : Active(s)

\* The server notices that the connections S are gone: handleDisconnect starts for
\* those it knows.
Gone(f, S) ==
  Tidy([s \in Socket |->
          IF s \in S THEN [f[s] EXCEPT !.up = FALSE, !.told = "no",
                                       !.bye = f[s].bye \/ (f[s].up /\ f[s].known)]
          ELSE f[s]])

\* JwtStrategy.validate
Authorized(t) ==
  /\ Token(t) # None
  /\ redisUp => session = Token(t)

\* Mutant: the user is known only after the comparison.
KnownWhenChecked(t, page, l, timer) ==
  LET old == {tab[t].link} \ {None} IN
  \E s \in Socket :
     /\ Free(s) /\ \A r \in Socket : Free(r) => s <= r
     /\ tab' = [tab EXCEPT ![t] = [page |-> page, with |-> l, link |-> s]]
     /\ sock' = [Gone(sock, old) EXCEPT ![s] =
                   [Closed EXCEPT !.login = l, !.up = TRUE, !.known = ~redisUp,
                                  !.at = IF redisUp THEN "redis" ELSE "room",
                                  !.joining = page = "room"]]
     /\ grace' = (timer /\ redisUp)
     /\ lost' = FALSE

\* getSocket on a page with the token l, after disconnectSocket on the last one; the room
\* page asks for its seat at once.  handleConnection knows the user before it awaits
\* anything, and skips the comparison without Redis.
\* timer: what the page has left of the grace timer before that.
Reconnected(t, page, l, timer) ==
  LET old == {tab[t].link} \ {None} IN
  \E s \in Socket :
     /\ Free(s) /\ \A r \in Socket : Free(r) => s <= r
     /\ tab' = [tab EXCEPT ![t] = [page |-> page, with |-> l, link |-> s]]
     /\ sock' = [Gone(sock, old) EXCEPT ![s] =
                   [Closed EXCEPT !.login = l, !.up = TRUE, !.known = TRUE,
                                  !.at = IF redisUp THEN "redis" ELSE "room",
                                  !.joining = page = "room"]]
     /\ grace' = (timer /\ redisUp)
     /\ lost' = FALSE

Connect(t, page, l) == Reconnected(t, page, l, grace)

\* disconnectSocket, on the way to a page that has no connection.
Disconnect(t, page) ==
  /\ tab' = [tab EXCEPT ![t] = [page |-> page, with |-> None, link |-> None]]
  /\ sock' = Gone(sock, {tab[t].link} \ {None})
  /\ UNCHANGED home

\* handleExpiredSession: the browser's token goes, whoever's it is by now.
SignOut(t) ==
  /\ token' = [token EXCEPT ![home[t]] = None]
  /\ Disconnect(t, "login")

\* Mutant: the session is not compared.
Unchecked(s) ==
  /\ sock[s].at = "redis"
  /\ LET stored == sock[s].login IN
     IF stored = sock[s].login
     THEN /\ sock' = [sock EXCEPT ![s].at = "room", ![s].seen = session]
          /\ grace' = FALSE
          /\ lost' = (lost \/ (grace /\ seated /\ ~sock[s].up))
     ELSE /\ sock' = Tidy([sock EXCEPT ![s].at = "done", ![s].known = FALSE, ![s].up = FALSE,
                                       ![s].told = Telling(s, ~redisUp)])
          /\ lost' = (lost \/ (seated /\ sock[s].up))
          /\ UNCHANGED grace
  /\ UNCHANGED <<client, server, cleaning, seated>>

\* handleConnection after user_session has been read (an outage reads as null).
CheckSession(s) ==
  /\ sock[s].at = "redis"
  /\ LET stored == IF redisUp THEN session ELSE None IN
     IF stored = sock[s].login
     THEN /\ sock' = [sock EXCEPT ![s].at = "room", ![s].seen = stored]
          /\ grace' = FALSE
          /\ lost' = (lost \/ (grace /\ seated /\ ~sock[s].up))
     ELSE /\ sock' = Tidy([sock EXCEPT ![s].at = "done", ![s].known = FALSE, ![s].up = FALSE,
                                       ![s].told = Telling(s, ~redisUp)])
          /\ lost' = (lost \/ (seated /\ sock[s].up))
          /\ UNCHANGED grace
  /\ UNCHANGED <<client, server, cleaning, seated>>

\* Mutant: only other logins are closed.
KickOtherDevices(s) ==
  /\ sock[s].at = "room"
  /\ LET others == {o \in Socket \ {s} : Active(o) /\ sock[o].login # sock[s].login} IN
     /\ sock' = Tidy([o \in Socket |->
                        IF o = s THEN [sock[o] EXCEPT !.at = "done"]
                        ELSE IF o \in others
                             THEN [sock[o] EXCEPT !.up = FALSE, !.bye = TRUE,
                                      !.told = Telling(o, sock[s].seen # session \/ ~Attached(s))]
                             ELSE sock[o]])
  /\ UNCHANGED <<client, server, seat, lost>>

\* Mutant: a closed connection is forgotten at once.
KickSilently(s) ==
  /\ sock[s].at = "room"
  /\ LET others == {o \in Socket \ {s} : Active(o)} IN
     /\ sock' = Tidy([o \in Socket |->
                        IF o = s THEN [sock[o] EXCEPT !.at = "done"]
                        ELSE IF o \in others
                             THEN [sock[o] EXCEPT !.up = FALSE, !.known = FALSE,
                                      !.told = Telling(o, sock[s].seen # session \/ ~Attached(s))]
                             ELSE sock[o]])
  /\ UNCHANGED <<client, server, seat, lost>>

\* The rest of it, once getUserCurrentRoomId has answered: every other connection of
\* the user is told to log out and closed.
KickOthers(s) ==
  /\ sock[s].at = "room"
  /\ LET others == {o \in Socket \ {s} : Active(o)} IN
     /\ sock' = Tidy([o \in Socket |->
                        IF o = s THEN [sock[o] EXCEPT !.at = "done"]
                        ELSE IF o \in others
                             THEN [sock[o] EXCEPT !.up = FALSE, !.bye = TRUE,
                                      !.told = Telling(o, sock[s].seen # session \/ ~Attached(s))]
                             ELSE sock[o]])
  /\ UNCHANGED <<client, server, seat, lost>>

\* handleDisconnect, and scheduleDisconnectCleanup
HandleDisconnect(s) ==
  /\ sock[s].bye
  /\ sock' = Tidy([sock EXCEPT ![s].bye = FALSE])
  /\ grace' = (grace \/ (seated /\ ~OtherActive({s})))
  /\ UNCHANGED <<client, server, cleaning, seated, lost>>

\* The callback of the grace timer, up to its first await ...
GraceEnds ==
  /\ grace /\ ~cleaning
  /\ grace' = FALSE
  /\ cleaning' = ~OtherActive({})
  /\ UNCHANGED <<client, sock, server, seated, lost>>

\* ... and behind the room lock.
CleanUp ==
  /\ cleaning
  /\ cleaning' = FALSE /\ seated' = FALSE /\ lost' = FALSE
  /\ UNCHANGED <<client, sock, server, grace>>

\* handleJoinRoom: whoever has a seat keeps it.  A connection that has been turned down
\* meanwhile has no user any more, and what is seated is a player without an id.
JoinRoom(s) ==
  /\ sock[s].joining
  /\ sock' = Tidy([sock EXCEPT ![s].joining = FALSE])
  /\ seated' = (seated \/ sock[s].known)
  /\ lost' = (lost \/ (~seated /\ sock[s].known /\ ~sock[s].up))
  /\ UNCHANGED <<client, server, grace, cleaning>>

-----------------------------------------------------------------------------
(***************************************************************************)
(* The pages.                                                              *)
(***************************************************************************)
\* Mutant: the session id is drawn again for the token.
LogInAfresh(t) ==
  /\ tab[t].page = "login" /\ logins < MaxLogins
  /\ redisUp \/ logins + 1 < MaxLogins
  /\ logins' = logins + 1
  /\ session' = IF redisUp THEN logins + 2 ELSE session
  /\ token' = [token EXCEPT ![home[t]] = logins + 1]
  /\ Connect(t, "rooms", logins + 1)
  /\ UNCHANGED <<home, redisUp, cleaning, seated>>

\* LoginPage.handleLogin, AuthService.login, and the rooms page that follows.  Without
\* Redis the session is not stored.
LogIn(t) ==
  /\ tab[t].page = "login" /\ logins < MaxLogins
  /\ redisUp \/ logins + 1 < MaxLogins
  /\ logins' = logins + 1
  /\ session' = IF redisUp THEN logins + 1 ELSE session
  /\ token' = [token EXCEPT ![home[t]] = logins + 1]
  /\ Connect(t, "rooms", logins + 1)
  /\ UNCHANGED <<home, redisUp, cleaning, seated>>

\* The home page, by its address, or the settings, from the rooms page.
OpenAside(t) ==
  /\ tab[t].page # "aside" /\ Token(t) # None
  /\ Disconnect(t, "aside")
  /\ UNCHANGED <<token, server, seat, lost>>

\* A page that finds a token opens, the home page's request may have sent it there; so does
\* the room page after current-room or rejoin_available on the rooms page.
OpenPage(t, page) ==
  /\ tab[t].page # page
  /\ Token(t) # None
  /\ Connect(t, page, Token(t))
  /\ UNCHANGED <<home, token, server, cleaning, seated>>

\* room_full, insufficient_balance, wrong_password
Refused(t) ==
  /\ tab[t].page = "room" /\ tab[t].link # None /\ Token(t) # None
  /\ sock[tab[t].link].joining /\ sock[tab[t].link].up /\ ~seated
  /\ tab' = [tab EXCEPT ![t].page = "rooms"]
  /\ sock' = [sock EXCEPT ![tab[t].link].joining = FALSE]
  /\ UNCHANGED <<home, token, server, seat, lost>>

\* socket.io: the network drops a connection, which the server does not see yet; the
\* page's socket object connects again with the token it was made with.
Drop(t) ==
  /\ tab[t].link # None
  /\ tab' = [tab EXCEPT ![t].link = None]
  /\ sock' = Tidy([sock EXCEPT ![tab[t].link].told = "no"])
  /\ UNCHANGED <<home, token, server, seat, lost>>

PingTimeout(s) ==
  /\ sock[s].up /\ ~Attached(s)
  /\ sock' = Gone(sock, {s})
  /\ UNCHANGED <<client, server, seat, lost>>

Reconnect(t) ==
  /\ tab[t].with # None /\ tab[t].link = None
  /\ Connect(t, tab[t].page, tab[t].with)
  /\ UNCHANGED <<home, token, server, cleaning, seated>>

\* force_logout: setForceLogoutHandler in SocketSessionProvider.
ForcedOut(t) ==
  /\ tab[t].link # None /\ sock[tab[t].link].told # "no"
  /\ SignOut(t)
  /\ UNCHANGED <<server, seat, lost>>

\* A request that is turned down (the interceptor of lib/api.ts), or a connection lost on
\* the room page when the token is gone.
SessionRefused(t) ==
  /\ tab[t].page # "login"
  /\ ~Authorized(t)
  /\ SignOut(t)
  /\ UNCHANGED <<server, seat, lost>>

\* fetchRooms on the rooms page, redirectIfLoggedIn on the home page, loadProfile in the
\* settings: any failing request removes the token.
FetchFails(t) ==
  /\ tab[t].page \in {"rooms", "aside"}
  /\ SignOut(t)
  /\ UNCHANGED <<server, seat, lost>>

\* The rooms page's menu, AuthService.logout
LogOut(t) ==
  /\ tab[t].page = "rooms"
  /\ session' = IF Authorized(t) /\ redisUp THEN None ELSE session
  /\ SignOut(t)
  /\ UNCHANGED <<redisUp, logins, seat, lost>>

\* handleConfirmLeave: handleLeaveRoom answers the leave_room it emits ...
LeaveRoom(t) ==
  /\ tab[t].page = "room" /\ Token(t) # None
  /\ tab[t].link # None /\ Active(tab[t].link)
  /\ seated' = FALSE
  /\ Reconnected(t, "rooms", Token(t), FALSE)
  /\ UNCHANGED <<home, token, server, cleaning>>

\* ... or POST /tables/me/leave-room does after 1.2 seconds without an answer.
PostLeaveRoom(t) ==
  /\ tab[t].page = "room"
  /\ Authorized(t)
  /\ seated' = FALSE
  /\ Connect(t, "rooms", Token(t))
  /\ UNCHANGED <<home, token, server, cleaning>>

\* fetchRooms on the rooms page leaves a matchmaking room the user still sits in.
LeaveStaleRoom(t) ==
  /\ tab[t].page = "rooms" /\ seated
  /\ Authorized(t)
  /\ seated' = FALSE /\ lost' = FALSE
  /\ UNCHANGED <<client, sock, server, grace, cleaning>>

-----------------------------------------------------------------------------
\* Bound: an outage begins, and is over, before the last login (see LogIn).
RedisFails ==
  /\ redisUp /\ logins < MaxLogins /\ redisUp' = FALSE
  /\ UNCHANGED <<client, sock, session, logins, seat, lost>>

RedisReturns ==
  /\ ~redisUp /\ redisUp' = TRUE
  /\ UNCHANGED <<client, sock, session, logins, seat, lost>>

\* The connections and the timer are gone, the seat is in the snapshot.
Restart ==
  /\ sock' = [s \in Socket |-> Closed]
  /\ tab' = [t \in Tab |-> [tab[t] EXCEPT !.link = None]]
  /\ grace' = FALSE /\ cleaning' = FALSE
  /\ lost' = (lost \/ seated)
  /\ UNCHANGED <<home, token, server, seated>>

Next ==
  \/ \E s \in Socket : \/ CheckSession(s) \/ KickOthers(s) \/ HandleDisconnect(s)
                       \/ JoinRoom(s) \/ PingTimeout(s)
  \/ GraceEnds \/ CleanUp
  \/ \E t \in Tab : \/ LogIn(t) \/ OpenAside(t) \/ OpenPage(t, "rooms") \/ OpenPage(t, "room")
                    \/ Refused(t) \/ Drop(t) \/ Reconnect(t) \/ ForcedOut(t) \/ SessionRefused(t)
                    \/ FetchFails(t) \/ LogOut(t) \/ LeaveRoom(t) \/ PostLeaveRoom(t)
                    \/ LeaveStaleRoom(t)
  \/ RedisFails \/ RedisReturns \/ Restart

Spec == Init /\ [][Next]_vars
-----------------------------------------------------------------------------
TypeOK ==
  /\ home \in [Tab -> Browser] /\ token \in [Browser -> Login]
  /\ tab \in [Tab -> Tabs] /\ sock \in [Socket -> Sockets]
  /\ session \in Login /\ logins \in Login
  /\ {redisUp, grace, cleaning, seated, lost} \subseteq BOOLEAN

\* Every connection has been dealt with.
AtRest == \A s \in Socket : sock[s].at = "done"

\* Single-device login: however logins, connections and their awaits overlap, when all
\* is dealt with the user has one connection at most.
OneDevice == AtRest => Cardinality({s \in Socket : Active(s)}) <= 1

\* A seat is never left to itself: its player is connected, or his leaving is being
\* dealt with, or the grace timer runs.  Except (lost) that a connection was turned down
\* which a clean-up had counted on, that a connection cleared the timer or took the seat
\* after it had gone itself, or that the server restarted.
SeatWatched ==
  seated => \/ lost \/ grace \/ cleaning
            \/ \E s \in Socket : sock[s].up \/ sock[s].bye

\* A player whose connection is back before the timer ends is not removed by it: the
\* callback goes past its check only when he has no connection at all.
BackInTime == [][cleaning' => \A s \in Socket : ~sock[s].up]_cleaning

\* The user logs out, or a request of the rooms page, the home page or the settings fails, or
\* a tab of t's browser is told to log out: by mistake, or because of another tab of that
\* browser.
Excused(t) ==
  \E u \in Tab : \/ LogOut(u) \/ FetchFails(u)
                 \/ /\ tab[u].link # None /\ home[u] = home[t]
                    /\ \/ sock[tab[u].link].told = "mistaken"
                       \/ /\ sock[tab[u].link].told = "replaced"
                          /\ \E v \in Tab \ {u} : home[v] = home[u]

\* The token of the current session is taken from its browser only when its user logs
\* out, or a request of the rooms page, the home page or the settings fails, or another tab
\* of the browser is told to log out.  Except that force_logout is a mistake: it comes from
\* a connection that has gone itself, or that compared with an earlier session or with
\* none, or the comparison failed with Redis.
LoginKept ==
  [][\A t \in Tab :
       Token(t) # None /\ Token(t) = session /\ Token(t)' = None => Excused(t)]_token
=============================================================================
