---------------------------- MODULE SessionProofs ----------------------------
(***************************************************************************)
(* The safety of Session for any number of pages, browsers, connections    *)
(* and logins.                                                             *)
(***************************************************************************)
EXTENDS Session, FiniteSetTheorems, TLAPS

\* handleConnection knows the user before it awaits anything.
Known == \A s \in Socket : sock[s].up => sock[s].known

\* Of two connections one has still to look for others.
Rivals ==
  \A s, r \in Socket : s # r /\ sock[s].up /\ sock[r].up
    => sock[s].at # "done" \/ sock[r].at # "done"

\* A page and the connection its socket object has belong together.
Linked ==
  /\ \A t, u \in Tab : tab[t].link # None /\ tab[t].link = tab[u].link => t = u
  /\ \A t \in Tab : tab[t].link # None =>
       /\ tab[t].with # None /\ sock[tab[t].link].login = tab[t].with
       /\ sock[tab[t].link].up \/ sock[tab[t].link].told # "no"

Compared == \A s \in Socket : sock[s].at = "room" => sock[s].seen \in {None, sock[s].login}

\* A token is of one login, made in one browser.
Issued ==
  /\ session <= logins
  /\ \A b \in Browser : token[b] <= logins
  /\ \A t \in Tab : tab[t].with <= logins
  /\ \A b, c \in Browser : token[b] # None /\ token[b] = token[c] => b = c
  /\ \A t \in Tab, b \in Browser : tab[t].with # None /\ token[b] = tab[t].with => b = home[t]

\* t is the only page of its browser.
Alone(t) == \A u \in Tab \ {t} : home[u] # home[t]

\* It has the token of its browser, and is told to log out only after another login.
OwnToken ==
  \A t \in Tab : Alone(t) =>
    /\ tab[t].with # None => token[home[t]] \in {None, tab[t].with}
    /\ tab[t].link # None /\ sock[tab[t].link].told = "replaced"
         => session = None \/ token[home[t]] # session

IInv ==
  /\ TypeOK /\ Known /\ Rivals /\ SeatWatched
  /\ Linked /\ Compared /\ Issued /\ OwnToken

----------------------------------------------------------------------------
(* Rows of sock *)

\* What Tidy leaves of a row x that it keeps or forgets.
Row(x, y) ==
  /\ y \in Sockets
  /\ y.up = x.up /\ y.at = x.at /\ y.bye = x.bye /\ y.told = x.told
  /\ x.up \/ x.told # "no" \/ x.at # "done" => y.login = x.login /\ y.known = x.known
  /\ x.at = "room" => y.seen = x.seen

LEMMA Bounds ==
  /\ None \in Login /\ None \in 0 .. MaxSockets /\ Socket \subseteq 0 .. MaxSockets
  /\ None \notin Socket /\ Closed \in Sockets
  /\ \A n \in Login : n \in Nat
  /\ IsFiniteSet(Socket)
<1>1. MaxSockets \in Nat /\ MaxLogins \in Nat
  BY SessionAssumption
<1>2. IsFiniteSet(Socket)
  BY <1>1, FS_Interval DEF Socket
<1> QED BY <1>1, <1>2 DEF None, Login, Socket, Closed, Sockets

LEMMA TidyRows ==
  ASSUME NEW f \in [Socket -> Sockets]
  PROVE  /\ Tidy(f) \in [Socket -> Sockets]
         /\ \A s \in Socket : Row(f[s], Tidy(f)[s])
<1>1. ASSUME NEW s \in Socket PROVE Row(f[s], Tidy(f)[s])
  <2> DEFINE x == f[s]
             n == IF x.at = "room" THEN x.seen ELSE None
             y == [x EXCEPT !.seen = n]
             gone == ~x.up /\ x.at = "done" /\ ~x.bye /\ ~x.joining /\ x.told = "no"
  <2>1. x \in Sockets /\ Tidy(f)[s] = IF gone THEN Closed ELSE y
    BY DEF Tidy
  <2>2. /\ y \in Sockets
        /\ y.up = x.up /\ y.at = x.at /\ y.bye = x.bye /\ y.told = x.told
        /\ y.login = x.login /\ y.known = x.known /\ y.seen = n
    BY <2>1, Bounds DEF Sockets
  <2>3. gone => x.up = FALSE /\ x.bye = FALSE
    BY <2>1 DEF Sockets
  <2>4. /\ Closed \in Sockets /\ Closed.up = FALSE /\ Closed.at = "done" /\ Closed.bye = FALSE
        /\ Closed.told = "no"
    BY Bounds DEF Closed
  <2> HIDE DEF y
  <2> QED BY <2>1, <2>2, <2>3, <2>4 DEF Row
<1>2. Tidy(f) = [s \in Socket |-> Tidy(f)[s]]
  BY DEF Tidy
<1> QED BY <1>1, <1>2 DEF Row

LEMMA GoneRows ==
  ASSUME TypeOK, NEW S \in SUBSET Socket, NEW g, g = Gone(sock, S)
  PROVE  /\ g \in [Socket -> Sockets]
         /\ \A s \in Socket \ S : Row(sock[s], g[s])
         /\ \A s \in S :
              /\ g[s].up = FALSE /\ g[s].told = "no" /\ g[s].at = sock[s].at
              /\ sock[s].bye \/ (sock[s].up /\ sock[s].known) => g[s].bye
              /\ sock[s].at # "done" => g[s].login = sock[s].login
              /\ sock[s].at = "room" => g[s].seen = sock[s].seen
<1> DEFINE n(s) == [sock[s] EXCEPT !.up = FALSE, !.told = "no",
                                   !.bye = sock[s].bye \/ (sock[s].up /\ sock[s].known)]
           f == [s \in Socket |-> IF s \in S THEN n(s) ELSE sock[s]]
<1>1. \A s \in Socket : sock[s] \in Sockets
  BY DEF TypeOK
<1>2. ASSUME NEW s \in Socket
      PROVE  /\ n(s) \in Sockets /\ n(s).up = FALSE /\ n(s).told = "no" /\ n(s).at = sock[s].at
             /\ n(s).bye = (sock[s].bye \/ (sock[s].up /\ sock[s].known))
             /\ n(s).login = sock[s].login /\ n(s).seen = sock[s].seen
  BY <1>1 DEF Sockets
<1>3. g = Tidy(f)
  BY DEF Gone
<1> HIDE DEF n
<1>4. f \in [Socket -> Sockets]
  BY <1>1, <1>2
<1>5. \A s \in Socket : f[s] = IF s \in S THEN n(s) ELSE sock[s]
  OBVIOUS
<1> HIDE DEF f
<1>6. g \in [Socket -> Sockets] /\ \A s \in Socket : Row(f[s], g[s])
  BY <1>3, <1>4, TidyRows
<1>7. \A s \in Socket \ S : Row(sock[s], g[s])
  BY <1>5, <1>6
<1>8. \A s \in S : s \in Socket /\ Row(n(s), g[s])
  BY <1>5, <1>6
<1>9. ASSUME NEW s \in S
      PROVE  /\ g[s].up = FALSE /\ g[s].told = "no" /\ g[s].at = sock[s].at
             /\ sock[s].bye \/ (sock[s].up /\ sock[s].known) => g[s].bye
             /\ sock[s].at # "done" => g[s].login = sock[s].login
             /\ sock[s].at = "room" => g[s].seen = sock[s].seen
  <2>1. s \in Socket /\ Row(n(s), g[s])
    BY <1>8
  <2> QED BY <1>2, <2>1 DEF Row
<1> QED BY <1>6, <1>7, <1>9

----------------------------------------------------------------------------
(* Steps *)

LEMMA InitIInv == Init => IInv
<1> SUFFICES ASSUME Init PROVE IInv
  OBVIOUS
<1>1. /\ \A s \in Socket : sock[s].up = FALSE /\ sock[s].at = "done"
      /\ \A t \in Tab : tab[t].link = None /\ tab[t].with = None
      /\ \A b \in Browser : token[b] = None
      /\ session = None /\ logins = 0 /\ seated = FALSE
  BY DEF Init, Closed
<1>2. TypeOK
  <2>1. tab \in [Tab -> Tabs]
    BY Bounds DEF Init, Tabs, Page
  <2>2. sock \in [Socket -> Sockets] /\ token \in [Browser -> Login]
    BY Bounds DEF Init
  <2>3. logins \in Login /\ session \in Login
    BY <1>1, Bounds DEF None
  <2> QED BY <2>1, <2>2, <2>3 DEF Init, TypeOK
<1>3. Known /\ Rivals /\ SeatWatched /\ Linked /\ Compared
  BY <1>1 DEF Known, Rivals, SeatWatched, Linked, Compared
<1>4. Issued /\ OwnToken
  BY <1>1 DEF Issued, OwnToken, None
<1> QED BY <1>2, <1>3, <1>4 DEF IInv

\* A step that changes neither pages nor logins.
LEMMA ServerStep ==
  ASSUME IInv, TypeOK', client' = client, session' = session, logins' = logins,
         Known', Rivals', SeatWatched', Compared',
         \A t \in Tab : tab[t].link # None =>
           /\ sock'[tab[t].link].login = sock[tab[t].link].login
           /\ sock'[tab[t].link].up \/ sock'[tab[t].link].told # "no"
           /\ sock'[tab[t].link].told = "replaced" =>
                \/ sock[tab[t].link].told = "replaced"
                \/ Alone(t) => session = None \/ token[home[t]] # session
  PROVE  IInv'
<1>1. home' = home /\ token' = token /\ tab' = tab
  BY DEF client
<1>2. \A t \in Tab : Alone(t)' = Alone(t)
  BY <1>1 DEF Alone
<1>3. Linked'
  BY <1>1 DEF IInv, Linked
<1>4. Issued'
  BY <1>1 DEF IInv, Issued
<1>5. OwnToken'
  BY <1>1, <1>2 DEF IInv, OwnToken
<1> QED BY <1>3, <1>4, <1>5 DEF IInv

\* The connection a page has is not forgotten.
LEMMA LinkRow ==
  ASSUME IInv, NEW t \in Tab, tab[t].link # None
  PROVE  /\ tab[t].link \in Socket /\ Attached(tab[t].link)
         /\ sock[tab[t].link].up \/ sock[tab[t].link].told # "no"
         /\ sock[tab[t].link].login = tab[t].with /\ tab[t].with # None
<1>1. tab[t] \in Tabs
  BY DEF IInv, TypeOK
<1>2. tab[t].link \in Socket
  BY <1>1 DEF Tabs, Socket, None
<1> QED BY <1>2 DEF IInv, Linked, Attached

LEMMA HandleDisconnectSound == ASSUME IInv, NEW s \in Socket, HandleDisconnect(s) PROVE IInv'
<1> DEFINE v == [sock[s] EXCEPT !.bye = FALSE]
           f == [sock EXCEPT ![s] = v]
<1>1. /\ TypeOK /\ sock \in [Socket -> Sockets] /\ sock' = Tidy(f)
      /\ grace' = (grace \/ (seated /\ ~OtherActive({s})))
      /\ UNCHANGED <<client, server, cleaning, seated, lost>>
  BY DEF HandleDisconnect, IInv, TypeOK
<1>2. /\ v \in Sockets /\ v.up = sock[s].up /\ v.known = sock[s].known /\ v.at = sock[s].at
      /\ v.login = sock[s].login /\ v.seen = sock[s].seen /\ v.told = sock[s].told
  BY <1>1 DEF Sockets
<1> HIDE DEF v
<1>3. f \in [Socket -> Sockets] /\ f[s] = v /\ \A r \in Socket \ {s} : f[r] = sock[r]
  BY <1>1, <1>2
<1> HIDE DEF f
<1>4. sock' \in [Socket -> Sockets] /\ \A r \in Socket : Row(f[r], sock'[r])
  BY <1>1, <1>3, TidyRows
<1>5. \A r \in Socket :
        /\ sock'[r].up = sock[r].up /\ sock'[r].at = sock[r].at /\ sock'[r].told = sock[r].told
        /\ sock[r].up \/ sock[r].told # "no" \/ sock[r].at # "done"
             => sock'[r].login = sock[r].login /\ sock'[r].known = sock[r].known
        /\ sock[r].at = "room" => sock'[r].seen = sock[r].seen
        /\ r # s => sock'[r].bye = sock[r].bye
  BY <1>2, <1>3, <1>4 DEF Row
<1>6. TypeOK'
  BY <1>1, <1>4 DEF TypeOK, client, server
<1>7. Known' /\ Rivals' /\ Compared'
  BY <1>5 DEF IInv, Known, Rivals, Compared
<1>8. SeatWatched'
  BY <1>1, <1>5 DEF IInv, SeatWatched, OtherActive, Active
<1> QED BY <1>1, <1>5, <1>6, <1>7, <1>8, LinkRow, ServerStep DEF server

LEMMA JoinRoomSound == ASSUME IInv, NEW s \in Socket, JoinRoom(s) PROVE IInv'
<1> DEFINE v == [sock[s] EXCEPT !.joining = FALSE]
           f == [sock EXCEPT ![s] = v]
<1>1. /\ TypeOK /\ sock \in [Socket -> Sockets] /\ sock' = Tidy(f)
      /\ seated' = (seated \/ sock[s].known)
      /\ lost' = (lost \/ (~seated /\ sock[s].known /\ ~sock[s].up))
      /\ UNCHANGED <<client, server, grace, cleaning>>
  BY DEF JoinRoom, IInv, TypeOK
<1>2. /\ v \in Sockets /\ v.up = sock[s].up /\ v.known = sock[s].known /\ v.at = sock[s].at
      /\ v.login = sock[s].login /\ v.seen = sock[s].seen /\ v.told = sock[s].told
      /\ v.bye = sock[s].bye
  BY <1>1 DEF Sockets
<1> HIDE DEF v
<1>3. f \in [Socket -> Sockets] /\ f[s] = v /\ \A r \in Socket \ {s} : f[r] = sock[r]
  BY <1>1, <1>2
<1> HIDE DEF f
<1>4. sock' \in [Socket -> Sockets] /\ \A r \in Socket : Row(f[r], sock'[r])
  BY <1>1, <1>3, TidyRows
<1>5. \A r \in Socket :
        /\ sock'[r].up = sock[r].up /\ sock'[r].at = sock[r].at /\ sock'[r].told = sock[r].told
        /\ sock[r].up \/ sock[r].told # "no" \/ sock[r].at # "done"
             => sock'[r].login = sock[r].login /\ sock'[r].known = sock[r].known
        /\ sock[r].at = "room" => sock'[r].seen = sock[r].seen
        /\ sock'[r].bye = sock[r].bye
  BY <1>2, <1>3, <1>4 DEF Row
<1>6. TypeOK'
  <2>1. sock[s] \in Sockets /\ sock[s].known \in BOOLEAN /\ sock[s].up \in BOOLEAN
    BY <1>1 DEF Sockets
  <2>2. seated' \in BOOLEAN /\ lost' \in BOOLEAN
    BY <1>1
  <2> QED BY <1>1, <1>4, <2>2 DEF TypeOK, client, server
<1>7. Known' /\ Rivals' /\ Compared'
  BY <1>5 DEF IInv, Known, Rivals, Compared
<1>8. SeatWatched'
  BY <1>1, <1>5 DEF IInv, SeatWatched
<1> QED BY <1>1, <1>5, <1>6, <1>7, <1>8, LinkRow, ServerStep DEF server

LEMMA PingTimeoutSound == ASSUME IInv, NEW s \in Socket, PingTimeout(s) PROVE IInv'
<1>1. /\ TypeOK /\ sock' = Gone(sock, {s}) /\ sock[s].up /\ ~Attached(s)
      /\ UNCHANGED <<client, server, seat, lost>>
  BY DEF PingTimeout, IInv
<1>2. /\ sock' \in [Socket -> Sockets]
      /\ \A r \in Socket \ {s} : Row(sock[r], sock'[r])
      /\ sock'[s].up = FALSE /\ sock'[s].at = sock[s].at
      /\ sock[s].known => sock'[s].bye
      /\ sock[s].at = "room" => sock'[s].login = sock[s].login /\ sock'[s].seen = sock[s].seen
  <2>1. {s} \in SUBSET Socket
    OBVIOUS
  <2> QED BY <1>1, <2>1, GoneRows
<1>3. TypeOK'
  BY <1>1, <1>2 DEF TypeOK, client, server, seat
<1>4. Known' /\ Rivals' /\ Compared'
  BY <1>2 DEF IInv, Known, Rivals, Compared, Row
<1>5. SeatWatched'
  BY <1>1, <1>2 DEF IInv, SeatWatched, Row, Known, seat
<1>6. \A t \in Tab : tab[t].link # None =>
        tab[t].link \in Socket \ {s} /\ Row(sock[tab[t].link], sock'[tab[t].link])
  BY <1>1, <1>2, LinkRow
<1> QED BY <1>1, <1>3, <1>4, <1>5, <1>6, LinkRow, ServerStep DEF server, Row

LEMMA CheckSessionSound == ASSUME IInv, NEW s \in Socket, CheckSession(s) PROVE IInv'
<1> DEFINE stored == IF redisUp THEN session ELSE None
<1>1. /\ TypeOK /\ sock \in [Socket -> Sockets] /\ sock[s] \in Sockets /\ sock[s].at = "redis"
      /\ UNCHANGED <<client, server, cleaning, seated>>
      /\ stored \in Login /\ seated \in BOOLEAN /\ grace \in BOOLEAN /\ lost \in BOOLEAN
      /\ sock[s].up \in BOOLEAN
  BY Bounds DEF CheckSession, IInv, TypeOK, Sockets
<1>2. ASSUME stored = sock[s].login PROVE IInv'
  <2> DEFINE v == [sock[s] EXCEPT !.at = "room", !.seen = stored]
  <2>1. /\ sock' = [sock EXCEPT ![s] = v] /\ grace' = FALSE
        /\ lost' = (lost \/ (grace /\ seated /\ ~sock[s].up))
    BY <1>1, <1>2 DEF CheckSession
  <2>2. /\ v \in Sockets /\ v.up = sock[s].up /\ v.known = sock[s].known /\ v.at = "room"
        /\ v.login = sock[s].login /\ v.seen = sock[s].login /\ v.told = sock[s].told
        /\ v.bye = sock[s].bye
    BY <1>1, <1>2 DEF Sockets
  <2> HIDE DEF v, stored
  <2>3. /\ sock' \in [Socket -> Sockets] /\ sock'[s] = v
        /\ \A r \in Socket \ {s} : sock'[r] = sock[r]
    BY <1>1, <2>1, <2>2
  <2>4. TypeOK'
    BY <1>1, <2>1, <2>3 DEF TypeOK, client, server
  <2>5. Known' /\ Rivals' /\ Compared'
    BY <2>2, <2>3 DEF IInv, Known, Rivals, Compared
  <2>6. SeatWatched'
    BY <1>1, <2>1, <2>2, <2>3 DEF IInv, SeatWatched
  <2> QED BY <1>1, <2>2, <2>3, <2>4, <2>5, <2>6, LinkRow, ServerStep DEF server
<1>3. ASSUME stored # sock[s].login PROVE IInv'
  <2> DEFINE tell == Telling(s, ~redisUp)
             v == [sock[s] EXCEPT !.at = "done", !.known = FALSE, !.up = FALSE, !.told = tell]
             f == [sock EXCEPT ![s] = v]
  <2>1. /\ sock' = Tidy(f) /\ grace' = grace
        /\ lost' = (lost \/ (seated /\ sock[s].up))
    BY <1>1, <1>3 DEF CheckSession
  <2>2. /\ tell \in {"no", "replaced", "mistaken"}
        /\ tell = "replaced" => sock[s].told = "replaced" \/ redisUp
        /\ Attached(s) /\ sock[s].up => tell # "no"
        /\ ~sock[s].up => tell = sock[s].told
    BY <1>1 DEF Telling, Sockets
  <2> HIDE DEF tell
  <2>3. /\ v \in Sockets /\ v.up = FALSE /\ v.at = "done"
        /\ v.login = sock[s].login /\ v.told = tell /\ v.bye = sock[s].bye
    BY <1>1, <2>2 DEF Sockets
  <2> HIDE DEF v
  <2>4. f \in [Socket -> Sockets] /\ f[s] = v /\ \A r \in Socket \ {s} : f[r] = sock[r]
    BY <1>1, <2>3
  <2> HIDE DEF f
  <2>5. sock' \in [Socket -> Sockets] /\ \A r \in Socket : Row(f[r], sock'[r])
    BY <2>1, <2>4, TidyRows
  <2>6. /\ sock'[s].up = FALSE /\ sock'[s].at = "done" /\ sock'[s].told = tell
        /\ sock'[s].bye = sock[s].bye
        /\ tell # "no" => sock'[s].login = sock[s].login
        /\ \A r \in Socket \ {s} : Row(sock[r], sock'[r])
    BY <2>3, <2>4, <2>5 DEF Row
  <2>7. TypeOK'
    BY <1>1, <2>1, <2>5 DEF TypeOK, client, server
  <2>8. Known' /\ Rivals' /\ Compared'
    BY <2>6 DEF IInv, Known, Rivals, Compared, Row
  <2>9. SeatWatched'
    BY <1>1, <2>1, <2>6 DEF IInv, SeatWatched, Row
  <2>10. ASSUME NEW t \in Tab, tab[t].link # None
         PROVE  /\ sock'[tab[t].link].login = sock[tab[t].link].login
                /\ sock'[tab[t].link].up \/ sock'[tab[t].link].told # "no"
                /\ sock'[tab[t].link].told = "replaced" =>
                     \/ sock[tab[t].link].told = "replaced"
                     \/ Alone(t) => session = None \/ token[home[t]] # session
    <3>1. CASE tab[t].link # s
      BY <2>6, <2>10, <3>1, LinkRow DEF Row
    <3>2. CASE tab[t].link = s
      <4>1. /\ sock[s].up \/ sock[s].told # "no"
            /\ sock[s].login = tab[t].with
            /\ tab[t].with # None /\ Attached(s)
        BY <2>10, <3>2, LinkRow
      <4>2. tell # "no"
        BY <1>1, <2>2, <4>1
      <4>3. redisUp /\ Alone(t) => session = None \/ token[home[t]] # session
        BY <1>3, <4>1, <3>2, <2>10, LinkRow DEF IInv, OwnToken
      <4> QED BY <2>2, <2>6, <3>2, <4>2, <4>3
    <3> QED BY <3>1, <3>2
  <2> QED BY <1>1, <2>7, <2>8, <2>9, <2>10, ServerStep DEF server
<1> QED BY <1>2, <1>3

LEMMA KickOthersSound == ASSUME IInv, NEW s \in Socket, KickOthers(s) PROVE IInv'
<1> DEFINE tell(o) == Telling(o, sock[s].seen # session \/ ~Attached(s))
           me == [sock[s] EXCEPT !.at = "done"]
           kicked(o) == [sock[o] EXCEPT !.up = FALSE, !.bye = TRUE, !.told = tell(o)]
           f == [o \in Socket |-> IF o = s THEN me
                                  ELSE IF o \in {x \in Socket \ {s} : Active(x)} THEN kicked(o)
                                  ELSE sock[o]]
<1>1. /\ TypeOK /\ sock \in [Socket -> Sockets] /\ \A o \in Socket : sock[o] \in Sockets
      /\ sock[s].at = "room" /\ sock' = Tidy(f)
      /\ UNCHANGED <<client, server, seat, lost>>
  BY DEF KickOthers, IInv, TypeOK
<1>2. ASSUME NEW o \in Socket
      PROVE  /\ tell(o) \in {"no", "replaced", "mistaken"}
             /\ tell(o) = "replaced" =>
                  \/ sock[o].told = "replaced"
                  \/ sock[s].seen = session /\ Attached(s)
             /\ Attached(o) /\ sock[o].up => tell(o) # "no"
  BY <1>1 DEF Telling, Sockets
<1> HIDE DEF tell
<1>3. /\ me \in Sockets /\ me.up = sock[s].up /\ me.known = sock[s].known /\ me.at = "done"
      /\ me.login = sock[s].login /\ me.told = sock[s].told /\ me.bye = sock[s].bye
  BY <1>1 DEF Sockets
<1>4. ASSUME NEW o \in Socket
      PROVE  /\ kicked(o) \in Sockets /\ kicked(o).up = FALSE /\ kicked(o).bye
             /\ kicked(o).told = tell(o) /\ kicked(o).at = sock[o].at
             /\ kicked(o).login = sock[o].login /\ kicked(o).seen = sock[o].seen
  BY <1>1, <1>2 DEF Sockets
<1> HIDE DEF me, kicked
<1>5. /\ f \in [Socket -> Sockets] /\ f[s] = me
      /\ \A o \in Socket \ {s} : f[o] = IF sock[o].up /\ sock[o].known THEN kicked(o)
                                        ELSE sock[o]
  BY <1>1, <1>3, <1>4 DEF Active
<1> HIDE DEF f
<1>6. sock' \in [Socket -> Sockets] /\ \A r \in Socket : Row(f[r], sock'[r])
  BY <1>1, <1>5, TidyRows
<1>7. /\ sock'[s].up = sock[s].up /\ sock'[s].at = "done" /\ sock'[s].told = sock[s].told
      /\ sock'[s].bye = sock[s].bye
      /\ sock[s].up \/ sock[s].told # "no"
           => sock'[s].login = sock[s].login /\ sock'[s].known = sock[s].known
  BY <1>3, <1>5, <1>6 DEF Row
<1>8. ASSUME NEW o \in Socket \ {s}, sock[o].up
      PROVE  /\ sock'[o].up = FALSE /\ sock'[o].told = tell(o) /\ sock'[o].bye
             /\ sock'[o].at = sock[o].at
             /\ tell(o) # "no" => sock'[o].login = sock[o].login
             /\ sock[o].at = "room" => sock'[o].login = sock[o].login
                                       /\ sock'[o].seen = sock[o].seen
  <2>1. sock[o].known
    BY <1>8 DEF IInv, Known
  <2>2. f[o] = kicked(o)
    BY <1>5, <1>8, <2>1
  <2>3. Row(kicked(o), sock'[o])
    BY <1>6, <2>2
  <2> QED BY <1>4, <2>3 DEF Row
<1>9. ASSUME NEW o \in Socket \ {s}, ~sock[o].up PROVE Row(sock[o], sock'[o])
  BY <1>5, <1>6, <1>9
<1>10. TypeOK'
  BY <1>1, <1>6 DEF TypeOK, client, server, seat
<1>11. Known' /\ Rivals' /\ Compared'
  <2>1. \A o \in Socket \ {s} : sock'[o].up = FALSE
    BY <1>1, <1>8, <1>9 DEF Row, Sockets
  <2>2. Known' /\ Rivals'
    BY <1>7, <2>1 DEF IInv, Known, Rivals
  <2>3. ASSUME NEW o \in Socket, sock'[o].at = "room"
        PROVE  sock'[o].seen \in {None, sock'[o].login}
    BY <1>7, <1>8, <1>9, <2>3 DEF IInv, Compared, Row
  <2> QED BY <2>2, <2>3 DEF Compared
<1>12. SeatWatched'
  BY <1>1, <1>7, <1>8, <1>9 DEF IInv, SeatWatched, Row, seat
<1>13. ASSUME NEW t \in Tab, tab[t].link # None
       PROVE  /\ sock'[tab[t].link].login = sock[tab[t].link].login
              /\ sock'[tab[t].link].up \/ sock'[tab[t].link].told # "no"
              /\ sock'[tab[t].link].told = "replaced" =>
                   \/ sock[tab[t].link].told = "replaced"
                   \/ Alone(t) => session = None \/ token[home[t]] # session
  <2>1. PICK o \in Socket : o = tab[t].link
    BY <1>13, LinkRow
  <2>2. /\ sock[o].up \/ sock[o].told # "no"
        /\ Attached(o) /\ sock[o].login = tab[t].with /\ tab[t].with # None
    BY <1>13, <2>1, LinkRow
  <2>3. CASE o = s \/ ~sock[o].up
    BY <1>7, <1>9, <2>1, <2>2, <2>3 DEF Row
  <2>4. CASE o # s /\ sock[o].up
    <3>1. tell(o) # "no"
      BY <1>2, <2>2, <2>4, <1>13, <2>1, LinkRow
    <3>2. ASSUME sock[s].seen = session, Attached(s), Alone(t), session # None
          PROVE  token[home[t]] # session
      <4>1. PICK u \in Tab : tab[u].link = s
        BY <3>2 DEF Attached
      <4>2. tab[u].link # None /\ u # t
        BY <2>1, <2>4, <4>1, Bounds
      <4>3. session = tab[u].with /\ tab[u].with # None
        BY <1>1, <3>2, <4>1, <4>2, LinkRow DEF IInv, Compared
      <4>4. home[t] \in Browser /\ home[u] # home[t]
        BY <1>1, <3>2, <4>2 DEF TypeOK, Alone
      <4> QED BY <4>3, <4>4 DEF IInv, Issued
    <3> QED BY <1>2, <1>8, <2>1, <2>4, <3>1, <3>2
  <2> QED BY <2>3, <2>4
<1> QED BY <1>1, <1>10, <1>11, <1>12, <1>13, ServerStep DEF server

LEMMA RefusedSound == ASSUME IInv, NEW t \in Tab, Refused(t) PROVE IInv'
<1> DEFINE v == [sock[tab[t].link] EXCEPT !.joining = FALSE]
<1>1. /\ TypeOK /\ sock \in [Socket -> Sockets] /\ tab \in [Tab -> Tabs]
      /\ tab[t].link \in Socket /\ tab[t].link # None
      /\ sock[tab[t].link] \in Sockets
      /\ tab' = [tab EXCEPT ![t].page = "rooms"]
      /\ sock' = [sock EXCEPT ![tab[t].link] = v]
      /\ UNCHANGED <<home, token, server, seat, lost>>
  BY LinkRow DEF Refused, IInv, TypeOK
<1>2. /\ v \in Sockets /\ v.up = sock[tab[t].link].up /\ v.known = sock[tab[t].link].known
      /\ v.at = sock[tab[t].link].at /\ v.login = sock[tab[t].link].login
      /\ v.seen = sock[tab[t].link].seen /\ v.told = sock[tab[t].link].told
      /\ v.bye = sock[tab[t].link].bye
  BY <1>1 DEF Sockets
<1> HIDE DEF v
<1>3. /\ sock' \in [Socket -> Sockets]
      /\ \A r \in Socket :
           /\ sock'[r].up = sock[r].up /\ sock'[r].at = sock[r].at
           /\ sock'[r].told = sock[r].told /\ sock'[r].bye = sock[r].bye
           /\ sock'[r].login = sock[r].login /\ sock'[r].known = sock[r].known
           /\ sock'[r].seen = sock[r].seen
  BY <1>1, <1>2
<1>4. /\ tab' \in [Tab -> Tabs]
      /\ \A u \in Tab : tab'[u].link = tab[u].link /\ tab'[u].with = tab[u].with
  <2>1. tab[t] \in Tabs
    BY <1>1
  <2>2. [tab[t] EXCEPT !.page = "rooms"] \in Tabs
    BY <2>1 DEF Tabs, Page
  <2>3. tab' = [tab EXCEPT ![t] = [tab[t] EXCEPT !.page = "rooms"]]
    BY <1>1
  <2>4. tab' \in [Tab -> Tabs]
    BY <1>1, <2>2, <2>3
  <2>5. /\ [tab[t] EXCEPT !.page = "rooms"].link = tab[t].link
        /\ [tab[t] EXCEPT !.page = "rooms"].with = tab[t].with
    BY <2>1 DEF Tabs
  <2> QED BY <1>1, <2>3, <2>4, <2>5
<1>5. TypeOK'
  BY <1>1, <1>3, <1>4 DEF TypeOK, server, seat
<1>6. Known' /\ Rivals' /\ Compared' /\ SeatWatched'
  BY <1>1, <1>3 DEF IInv, Known, Rivals, Compared, SeatWatched, seat
<1>7. Linked'
  BY <1>3, <1>4, LinkRow DEF IInv, Linked
<1>8. Issued'
  BY <1>1, <1>4 DEF IInv, Issued, server
<1>9. OwnToken'
  <2>1. \A u \in Tab : Alone(u)' = Alone(u)
    BY <1>1 DEF Alone
  <2> QED BY <1>1, <1>3, <1>4, <2>1, LinkRow DEF IInv, OwnToken, server
<1> QED BY <1>5, <1>6, <1>7, <1>8, <1>9 DEF IInv

LEMMA DropSound == ASSUME IInv, NEW t \in Tab, Drop(t) PROVE IInv'
<1>1. PICK s \in Socket : s = tab[t].link
  BY LinkRow DEF Drop
<1> DEFINE v == [sock[s] EXCEPT !.told = "no"]
           w == [tab[t] EXCEPT !.link = None]
           f == [sock EXCEPT ![s] = v]
<1>2. /\ TypeOK /\ sock \in [Socket -> Sockets] /\ tab \in [Tab -> Tabs] /\ tab[t].link # None
      /\ sock[s] \in Sockets /\ tab[t] \in Tabs
      /\ tab' = [tab EXCEPT ![t] = w] /\ sock' = Tidy(f)
      /\ UNCHANGED <<home, token, server, seat, lost>>
  BY <1>1 DEF Drop, IInv, TypeOK
<1>3. /\ v \in Sockets /\ v.up = sock[s].up /\ v.known = sock[s].known
      /\ v.at = sock[s].at /\ v.login = sock[s].login
      /\ v.seen = sock[s].seen /\ v.told = "no" /\ v.bye = sock[s].bye
  BY <1>2 DEF Sockets
<1>4. w \in Tabs /\ w.link = None /\ w.with = tab[t].with
  BY <1>2, Bounds DEF Tabs
<1> HIDE DEF v, w
<1>5. f \in [Socket -> Sockets] /\ f[s] = v /\ \A r \in Socket \ {s} : f[r] = sock[r]
  BY <1>2, <1>3
<1> HIDE DEF f
<1>6. sock' \in [Socket -> Sockets] /\ \A r \in Socket : Row(f[r], sock'[r])
  BY <1>2, <1>5, TidyRows
<1>7. /\ Row(v, sock'[s]) /\ \A r \in Socket \ {s} : Row(sock[r], sock'[r])
  BY <1>5, <1>6
<1>8. /\ tab' \in [Tab -> Tabs] /\ tab'[t] = w /\ \A u \in Tab \ {t} : tab'[u] = tab[u]
  BY <1>2, <1>4
<1>9. \A u \in Tab \ {t} : tab[u].link # None =>
        tab[u].link \in Socket \ {s} /\ Row(sock[tab[u].link], sock'[tab[u].link])
  BY <1>1, <1>2, <1>7, LinkRow DEF IInv, Linked
<1>10. TypeOK'
  BY <1>2, <1>6, <1>8 DEF TypeOK, server, seat
<1>11. Known' /\ Rivals' /\ Compared'
  BY <1>3, <1>7 DEF IInv, Known, Rivals, Compared, Row
<1>12. SeatWatched'
  BY <1>2, <1>3, <1>7 DEF IInv, SeatWatched, Row, seat
<1>13. Linked'
  BY <1>4, <1>8, <1>9, LinkRow DEF IInv, Linked, Row
<1>14. Issued'
  BY <1>2, <1>4, <1>8 DEF IInv, Issued, server
<1>15. OwnToken'
  <2>1. \A u \in Tab : Alone(u)' = Alone(u)
    BY <1>2 DEF Alone
  <2>2. ASSUME NEW u \in Tab, Alone(u), tab'[u].with # None
        PROVE  token'[home'[u]] \in {None, tab'[u].with}
    BY <1>2, <1>4, <1>8, <2>2 DEF IInv, OwnToken
  <2>3. ASSUME NEW u \in Tab, Alone(u), tab'[u].link # None,
               sock'[tab'[u].link].told = "replaced"
        PROVE  session' = None \/ token'[home'[u]] # session'
    <3>1. u # t /\ tab'[u] = tab[u] /\ Row(sock[tab[u].link], sock'[tab[u].link])
      BY <1>4, <1>8, <1>9, <2>3
    <3> QED BY <1>2, <2>3, <3>1 DEF IInv, OwnToken, Row, server
  <2> QED BY <2>1, <2>2, <2>3 DEF OwnToken
<1> QED BY <1>10, <1>11, <1>12, <1>13, <1>14, <1>15 DEF IInv

\* The old connection of a page, if it has one, is gone; the others stay.
LEMMA OldGone ==
  ASSUME IInv, NEW t \in Tab, NEW g, g = Gone(sock, {tab[t].link} \ {None})
  PROVE  /\ g \in [Socket -> Sockets]
         /\ \A r \in Socket : r # tab[t].link => Row(sock[r], g[r])
         /\ \A r \in Socket :
              /\ g[r].at = sock[r].at
              /\ g[r].up => sock[r].up /\ g[r].known = sock[r].known
              /\ sock[r].up \/ sock[r].bye => g[r].up \/ g[r].bye
              /\ sock[r].at = "room" => g[r].login = sock[r].login /\ g[r].seen = sock[r].seen
         /\ \A u \in Tab \ {t} : tab[u].link # None =>
              tab[u].link \in Socket /\ Row(sock[tab[u].link], g[tab[u].link])
<1>0. PICK S : S = {tab[t].link} \ {None}
  OBVIOUS
<1>1. S \in SUBSET Socket /\ TypeOK /\ g = Gone(sock, S)
  BY <1>0, LinkRow DEF IInv
<1>2. /\ g \in [Socket -> Sockets]
      /\ \A s \in Socket \ S : Row(sock[s], g[s])
      /\ \A s \in S :
           /\ g[s].up = FALSE /\ g[s].told = "no" /\ g[s].at = sock[s].at
           /\ sock[s].bye \/ (sock[s].up /\ sock[s].known) => g[s].bye
           /\ sock[s].at # "done" => g[s].login = sock[s].login
           /\ sock[s].at = "room" => g[s].seen = sock[s].seen
  BY <1>1, GoneRows
<1>3. ASSUME NEW r \in Socket \ S
      PROVE  /\ g[r].at = sock[r].at
             /\ g[r].up => sock[r].up /\ g[r].known = sock[r].known
             /\ sock[r].up \/ sock[r].bye => g[r].up \/ g[r].bye
             /\ sock[r].at = "room" => g[r].login = sock[r].login /\ g[r].seen = sock[r].seen
  <2>1. Row(sock[r], g[r])
    BY <1>2
  <2> QED BY <2>1 DEF Row
<1>4. ASSUME NEW r \in S
      PROVE  /\ g[r].at = sock[r].at
             /\ g[r].up => sock[r].up /\ g[r].known = sock[r].known
             /\ sock[r].up \/ sock[r].bye => g[r].up \/ g[r].bye
             /\ sock[r].at = "room" => g[r].login = sock[r].login /\ g[r].seen = sock[r].seen
  <2>1. sock[r].up => sock[r].known
    BY <1>1 DEF IInv, Known
  <2> QED BY <1>2, <2>1
<1>5. \A u \in Tab \ {t} : tab[u].link # None => tab[u].link \in Socket \ S
  BY <1>0, LinkRow DEF IInv, Linked
<1> QED BY <1>0, <1>2, <1>3, <1>4, <1>5

\* A page goes to one without a connection, and perhaps its token with it.
LEMMA DisconnectSound ==
  ASSUME IInv, NEW t \in Tab, NEW page \in Page, Disconnect(t, page),
         token' \in {token, [token EXCEPT ![home[t]] = None]}, session' \in {session, None},
         UNCHANGED <<redisUp, logins, seat, lost>>
  PROVE  IInv'
<1> DEFINE w == [page |-> page, with |-> None, link |-> None]
<1>1. /\ TypeOK /\ tab \in [Tab -> Tabs] /\ token \in [Browser -> Login] /\ home' = home
      /\ home[t] \in Browser /\ \A u \in Tab : home[u] \in Browser
      /\ tab' = [tab EXCEPT ![t] = w]
      /\ sock' = Gone(sock, {tab[t].link} \ {None})
  BY DEF Disconnect, IInv, TypeOK
<1>2. w \in Tabs /\ w.link = None /\ w.with = None
  BY Bounds DEF Tabs
<1> HIDE DEF w
<1>3. /\ tab' \in [Tab -> Tabs] /\ tab'[t] = w /\ \A u \in Tab \ {t} : tab'[u] = tab[u]
      /\ token' \in [Browser -> Login]
      /\ \A b \in Browser : token'[b] \in {token[b], None}
  BY <1>1, <1>2, Bounds
<1>4. /\ sock' \in [Socket -> Sockets]
      /\ \A r \in Socket :
           /\ sock'[r].at = sock[r].at
           /\ sock'[r].up => sock[r].up /\ sock'[r].known = sock[r].known
           /\ sock[r].up \/ sock[r].bye => sock'[r].up \/ sock'[r].bye
           /\ sock[r].at = "room" => sock'[r].login = sock[r].login /\ sock'[r].seen = sock[r].seen
      /\ \A u \in Tab \ {t} : tab[u].link # None =>
           tab[u].link \in Socket /\ Row(sock[tab[u].link], sock'[tab[u].link])
  BY <1>1, OldGone
<1>5. TypeOK'
  BY <1>1, <1>3, <1>4, Bounds DEF TypeOK, seat
<1>6. Known' /\ Rivals' /\ Compared'
  BY <1>4 DEF IInv, Known, Rivals, Compared
<1>7. SeatWatched'
  BY <1>4 DEF IInv, SeatWatched, seat
<1>8. Linked'
  BY <1>2, <1>3, <1>4, LinkRow DEF IInv, Linked, Row
<1>9. Issued'
  <2>1. session' <= logins' /\ \A b \in Browser : token'[b] <= logins'
    BY <1>1, <1>3, Bounds DEF IInv, Issued, TypeOK, None
  <2>2. \A u \in Tab : tab'[u].with = tab[u].with \/ tab'[u].with = None
    BY <1>2, <1>3
  <2>3. \A u \in Tab : tab'[u].with <= logins'
    BY <1>1, <2>2, Bounds DEF IInv, Issued, TypeOK, None
  <2> QED BY <1>1, <1>3, <2>1, <2>2, <2>3 DEF IInv, Issued
<1>10. OwnToken'
  <2>1. \A u \in Tab : Alone(u)' = Alone(u)
    BY <1>1 DEF Alone
  <2>2. ASSUME NEW u \in Tab, Alone(u), tab'[u].with # None
        PROVE  token'[home[u]] \in {None, tab'[u].with}
    BY <1>1, <1>2, <1>3, <2>2 DEF IInv, OwnToken
  <2>3. ASSUME NEW u \in Tab, Alone(u), tab'[u].link # None,
               sock'[tab'[u].link].told = "replaced"
        PROVE  session' = None \/ token'[home[u]] # session'
    <3>1. u # t /\ tab'[u] = tab[u] /\ Row(sock[tab[u].link], sock'[tab[u].link])
      BY <1>2, <1>3, <1>4, <2>3
    <3> QED BY <1>1, <1>3, <2>3, <3>1 DEF IInv, OwnToken, Row
  <2> QED BY <1>1, <2>1, <2>2, <2>3 DEF OwnToken
<1> QED BY <1>5, <1>6, <1>7, <1>8, <1>9, <1>10 DEF IInv

\* A page that connects, with whatever has become of tokens, session and seat.
LEMMA ReconnectedSound ==
  ASSUME IInv, NEW t \in Tab, NEW page \in Page, NEW l \in Login, l # None,
         NEW timer \in BOOLEAN, Reconnected(t, page, l, timer),
         home' = home, redisUp' = redisUp, cleaning' = cleaning, seated' \in BOOLEAN,
         token' \in [Browser -> Login], session' \in Login, logins' \in Login,
         logins <= logins', session' <= logins', l <= logins',
         \A b \in Browser : token'[b] <= logins',
         \A b, c \in Browser : token'[b] # None /\ token'[b] = token'[c] => b = c,
         \A b \in Browser : token'[b] = l => b = home[t],
         \A u \in Tab \ {t}, b \in Browser :
           tab[u].with # None /\ token'[b] = tab[u].with => b = home[u],
         Alone(t) => token'[home[t]] \in {None, l},
         \A u \in Tab \ {t} : Alone(u) =>
           /\ token'[home[u]] = token[home[u]]
           /\ session' = session \/ token[home[u]] # session'
  PROVE  IInv'
<1> DEFINE old == {tab[t].link} \ {None}
<1>1. PICK s \in Socket :
        /\ Free(s)
        /\ tab' = [tab EXCEPT ![t] = [page |-> page, with |-> l, link |-> s]]
        /\ sock' = [Gone(sock, old) EXCEPT ![s] =
                      [Closed EXCEPT !.login = l, !.up = TRUE, !.known = TRUE,
                                     !.at = IF redisUp THEN "redis" ELSE "room",
                                     !.joining = page = "room"]]
        /\ grace' = (timer /\ redisUp) /\ lost' = FALSE
  BY DEF Reconnected
<1>2. PICK g : g = Gone(sock, old)
  OBVIOUS
<1> DEFINE v == [Closed EXCEPT !.login = l, !.up = TRUE, !.known = TRUE,
                               !.at = IF redisUp THEN "redis" ELSE "room",
                               !.joining = page = "room"]
           w == [page |-> page, with |-> l, link |-> s]
<1>3. /\ v \in Sockets /\ v.up = TRUE /\ v.known = TRUE /\ v.at # "done" /\ v.login = l
      /\ v.seen = None /\ v.told = "no"
  BY Bounds DEF Closed, Sockets
<1>4. w \in Tabs /\ w.with = l /\ w.link = s
  BY Bounds DEF Tabs
<1>5. tab' = [tab EXCEPT ![t] = w] /\ sock' = [g EXCEPT ![s] = v]
  BY <1>1, <1>2
<1> HIDE DEF v, w
<1>6. /\ TypeOK /\ tab \in [Tab -> Tabs] /\ redisUp \in BOOLEAN
      /\ \A u \in Tab : home[u] \in Browser
  BY DEF IInv, TypeOK
<1>7. /\ g \in [Socket -> Sockets]
      /\ \A r \in Socket :
           /\ g[r].at = sock[r].at
           /\ g[r].up => sock[r].up /\ g[r].known = sock[r].known
           /\ sock[r].at = "room" => g[r].login = sock[r].login /\ g[r].seen = sock[r].seen
      /\ \A u \in Tab \ {t} : tab[u].link # None =>
           tab[u].link \in Socket /\ Row(sock[tab[u].link], g[tab[u].link])
  BY <1>2, OldGone
<1>8. /\ sock' \in [Socket -> Sockets] /\ sock'[s] = v
      /\ \A r \in Socket \ {s} : sock'[r] = g[r]
      /\ tab' \in [Tab -> Tabs] /\ tab'[t] = w /\ \A u \in Tab \ {t} : tab'[u] = tab[u]
  BY <1>3, <1>4, <1>5, <1>6, <1>7
<1>9. \A u \in Tab \ {t} : tab[u].link # None =>
        /\ tab[u].link \in Socket \ {s} /\ sock'[tab[u].link] = g[tab[u].link]
        /\ Row(sock[tab[u].link], sock'[tab[u].link])
  BY <1>1, <1>7, <1>8 DEF Free, Attached
<1>10. TypeOK'
  BY <1>1, <1>6, <1>8 DEF IInv, TypeOK
<1>11. Known' /\ Rivals' /\ Compared'
  BY <1>3, <1>7, <1>8 DEF IInv, Known, Rivals, Compared
<1>12. SeatWatched'
  BY <1>3, <1>8 DEF SeatWatched
<1>13. Linked'
  <2>1. s # None
    BY Bounds
  <2> QED BY <1>3, <1>4, <1>8, <1>9, <2>1, LinkRow DEF IInv, Linked, Row
<1>14. Issued'
  <2>1. \A u \in Tab : tab'[u].with <= logins'
    <3>1. ASSUME NEW u \in Tab \ {t} PROVE tab'[u].with <= logins'
      <4>1. tab[u].with \in Nat /\ logins \in Nat /\ logins' \in Nat /\ tab[u].with <= logins
        BY <1>6, Bounds DEF IInv, Issued, TypeOK, Tabs
      <4> QED BY <1>8, <4>1
    <3> QED BY <1>4, <1>8, <3>1
  <2>2. \A u \in Tab, b \in Browser : tab'[u].with # None /\ token'[b] = tab'[u].with => b = home[u]
    BY <1>4, <1>8
  <2> QED BY <2>1, <2>2 DEF Issued
<1>15. OwnToken'
  <2>1. \A u \in Tab : Alone(u)' = Alone(u)
    BY DEF Alone
  <2>2. ASSUME NEW u \in Tab, Alone(u), tab'[u].with # None
        PROVE  token'[home[u]] \in {None, tab'[u].with}
    BY <1>4, <1>8, <2>2 DEF IInv, OwnToken
  <2>3. ASSUME NEW u \in Tab, Alone(u), tab'[u].link # None,
               sock'[tab'[u].link].told = "replaced"
        PROVE  session' = None \/ token'[home[u]] # session'
    <3>1. u # t /\ tab'[u] = tab[u] /\ Row(sock[tab[u].link], sock'[tab[u].link])
      BY <1>3, <1>4, <1>8, <1>9, <2>3
    <3> QED BY <2>3, <3>1 DEF IInv, OwnToken, Row
  <2> QED BY <2>1, <2>2, <2>3 DEF OwnToken
<1> QED BY <1>10, <1>11, <1>12, <1>13, <1>14, <1>15 DEF IInv

\* A page that connects again with a token its browser has, or had, for it.
LEMMA SameLoginSound ==
  ASSUME IInv, NEW t \in Tab, NEW page \in Page, NEW l \in Login, l # None,
         l = tab[t].with \/ l = Token(t),
         NEW timer \in BOOLEAN, Reconnected(t, page, l, timer),
         UNCHANGED <<home, token, server, cleaning>>, seated' \in BOOLEAN
  PROVE  IInv'
<1>1. /\ TypeOK /\ tab \in [Tab -> Tabs] /\ home[t] \in Browser
      /\ tab[t].with \in Login /\ logins \in Nat
  BY Bounds DEF IInv, TypeOK, Tabs
<1>2. l <= logins
  BY <1>1 DEF IInv, Issued, Token
<1>3. \A b \in Browser : token[b] = l => b = home[t]
  BY <1>1 DEF IInv, Issued, Token
<1>4. Alone(t) => token[home[t]] \in {None, l}
  BY <1>1 DEF IInv, OwnToken, Token
<1> QED BY <1>1, <1>2, <1>3, <1>4, ReconnectedSound DEF IInv, Issued, TypeOK, server

LEMMA LogInSound == ASSUME IInv, NEW t \in Tab, LogIn(t) PROVE IInv'
<1>1. PICK l \in Nat : l = logins + 1
  BY Bounds DEF IInv, TypeOK
<1>2. /\ TypeOK /\ tab \in [Tab -> Tabs] /\ home[t] \in Browser /\ logins \in Nat
      /\ \A u \in Tab : home[u] \in Browser /\ tab[u].with \in Nat
      /\ \A b \in Browser : token[b] \in Nat
      /\ session \in Nat /\ grace \in BOOLEAN /\ cleaning \in BOOLEAN /\ seated \in BOOLEAN
  BY Bounds DEF IInv, TypeOK, Tabs
<1>3. /\ logins < MaxLogins /\ logins' = l /\ token' = [token EXCEPT ![home[t]] = l]
      /\ session' = IF redisUp THEN l ELSE session
      /\ Reconnected(t, "rooms", l, grace)
      /\ UNCHANGED <<home, redisUp, cleaning, seated>>
  BY <1>1 DEF LogIn, Connect
<1>4. l \in Login /\ l # None /\ "rooms" \in Page
  BY <1>1, <1>2, <1>3, SessionAssumption DEF Login, None, Page
<1>5. /\ token'[home[t]] = l /\ \A b \in Browser \ {home[t]} : token'[b] = token[b]
      /\ token' \in [Browser -> Login]
  BY <1>2, <1>3, <1>4 DEF TypeOK
<1>6. /\ session <= logins
      /\ \A b \in Browser : token[b] <= logins /\ token[b] # l
      /\ \A u \in Tab : tab[u].with <= logins /\ tab[u].with # l
  BY <1>1, <1>2 DEF IInv, Issued
<1>7. session' \in Login /\ session' <= l /\ \A b \in Browser : token'[b] <= l
  BY <1>1, <1>2, <1>3, <1>4, <1>5, <1>6 DEF TypeOK
<1>8. \A b, c \in Browser : token'[b] # None /\ token'[b] = token'[c] => b = c
  BY <1>5, <1>6 DEF IInv, Issued
<1>9. \A b \in Browser : token'[b] = l => b = home[t]
  BY <1>5, <1>6
<1>10. \A u \in Tab \ {t}, b \in Browser :
         tab[u].with # None /\ token'[b] = tab[u].with => b = home[u]
  BY <1>5, <1>6 DEF IInv, Issued
<1>11. \A u \in Tab \ {t} : Alone(u) =>
         /\ token'[home[u]] = token[home[u]]
         /\ session' = session \/ token[home[u]] # session'
  BY <1>2, <1>3, <1>5, <1>6 DEF Alone
<1>12. logins <= l
  BY <1>1, <1>2
<1> QED BY <1>2, <1>3, <1>4, <1>5, <1>7, <1>8, <1>9, <1>10, <1>11, <1>12, ReconnectedSound

LEMMA PagesSound ==
  ASSUME IInv, NEW t \in Tab,
         \/ OpenPage(t, "rooms") \/ OpenPage(t, "room") \/ Reconnect(t)
         \/ LeaveRoom(t) \/ PostLeaveRoom(t)
  PROVE  IInv'
<1>1. /\ TypeOK /\ tab[t] \in Tabs /\ home[t] \in Browser /\ Token(t) \in Login
      /\ tab[t].with \in Login /\ tab[t].page \in Page /\ grace \in BOOLEAN
      /\ cleaning \in BOOLEAN /\ seated \in BOOLEAN /\ {"rooms", "room"} \subseteq Page
  BY DEF IInv, TypeOK, Tabs, Token, Page
<1>2. CASE OpenPage(t, "rooms") \/ OpenPage(t, "room")
  BY <1>1, <1>2, SameLoginSound DEF OpenPage, Connect
<1>3. CASE Reconnect(t)
  BY <1>1, <1>3, SameLoginSound DEF Reconnect, Connect
<1>4. CASE LeaveRoom(t)
  BY <1>1, <1>4, SameLoginSound DEF LeaveRoom
<1>5. CASE PostLeaveRoom(t)
  BY <1>1, <1>5, SameLoginSound DEF PostLeaveRoom, Connect, Authorized
<1> QED BY <1>2, <1>3, <1>4, <1>5

LEMMA SignedOutSound ==
  ASSUME IInv, NEW t \in Tab,
         OpenAside(t) \/ ForcedOut(t) \/ SessionRefused(t) \/ FetchFails(t) \/ LogOut(t)
  PROVE  IInv'
<1>1. {"login", "aside"} \subseteq Page
  BY DEF Page
<1> QED BY <1>1, DisconnectSound
        DEF OpenAside, SignOut, ForcedOut, SessionRefused, FetchFails, LogOut, server, seat

\* A step of the seat, of Redis, or none.
LEMMA AsideSound ==
  ASSUME IInv, UNCHANGED <<client, sock, session, logins>>,
         {redisUp', grace', cleaning', seated', lost'} \subseteq BOOLEAN, SeatWatched'
  PROVE  IInv'
<1>1. TypeOK'
  BY DEF IInv, TypeOK, client
<1>2. Known' /\ Rivals' /\ Compared'
  BY DEF IInv, Known, Rivals, Compared
<1>3. \A t \in Tab : tab[t].link # None =>
        sock[tab[t].link].up \/ sock[tab[t].link].told # "no"
  BY LinkRow
<1> QED BY <1>1, <1>2, <1>3, ServerStep

LEMMA SeatSound ==
  ASSUME IInv, \/ GraceEnds \/ CleanUp \/ RedisFails \/ RedisReturns
               \/ \E t \in Tab : LeaveStaleRoom(t)
  PROVE  IInv'
<1>1. /\ UNCHANGED <<client, sock, session, logins>>
      /\ {redisUp', grace', cleaning', seated', lost'} \subseteq BOOLEAN
  BY DEF GraceEnds, CleanUp, RedisFails, RedisReturns, LeaveStaleRoom, IInv, TypeOK, server, seat,
     OtherActive
<1>2. SeatWatched'
  BY DEF GraceEnds, CleanUp, RedisFails, RedisReturns, LeaveStaleRoom, IInv, SeatWatched, seat,
     OtherActive, Active
<1> QED BY <1>1, <1>2, AsideSound

LEMMA RestartSound == ASSUME IInv, Restart PROVE IInv'
<1>1. /\ TypeOK /\ sock' = [s \in Socket |-> Closed]
      /\ tab' = [t \in Tab |-> [tab[t] EXCEPT !.link = None]]
      /\ grace' = FALSE /\ cleaning' = FALSE /\ lost' = (lost \/ seated)
      /\ UNCHANGED <<home, token, server, seated>>
  BY DEF Restart, IInv
<1>2. /\ \A s \in Socket : ~sock'[s].up /\ sock'[s].at = "done"
      /\ sock' \in [Socket -> Sockets]
  BY <1>1, Bounds DEF Closed
<1>3. ASSUME NEW t \in Tab
      PROVE  tab'[t] \in Tabs /\ tab'[t].link = None /\ tab'[t].with = tab[t].with
  <2>1. tab[t] \in Tabs
    BY <1>1 DEF TypeOK
  <2> QED BY <1>1, <2>1, Bounds DEF Tabs
<1>4. TypeOK'
  <2>1. tab' \in [Tab -> Tabs]
    BY <1>1, <1>3
  <2> QED BY <1>1, <1>2, <2>1 DEF TypeOK, server
<1>5. Known' /\ Rivals' /\ Compared' /\ Linked'
  BY <1>2, <1>3 DEF Known, Rivals, Compared, Linked
<1>6. SeatWatched'
  BY <1>1 DEF SeatWatched
<1>7. Issued'
  BY <1>1, <1>3 DEF IInv, Issued, server
<1>8. OwnToken'
  BY <1>1, <1>3 DEF IInv, OwnToken, Alone
<1> QED BY <1>4, <1>5, <1>6, <1>7, <1>8 DEF IInv

LEMMA NextIInv == IInv /\ [Next]_vars => IInv'
<1> SUFFICES ASSUME IInv, [Next]_vars PROVE IInv'
  OBVIOUS
<1>1. CASE UNCHANGED vars
  <2>1. /\ UNCHANGED <<client, sock, session, logins>>
        /\ {redisUp', grace', cleaning', seated', lost'} \subseteq BOOLEAN /\ SeatWatched'
    BY <1>1 DEF vars, client, IInv, TypeOK, SeatWatched
  <2> QED BY <2>1, AsideSound
<1>2. CASE Next
  BY <1>2, CheckSessionSound, KickOthersSound, HandleDisconnectSound, JoinRoomSound,
     PingTimeoutSound, SeatSound, LogInSound, PagesSound, RefusedSound, DropSound,
     SignedOutSound, RestartSound DEF Next
<1> QED BY <1>1, <1>2

LEMMA IInvInvariance == Spec => []IInv
BY InitIInv, NextIInv, PTL DEF Spec

----------------------------------------------------------------------------

\* Pages, connections and the session stay of their types.
THEOREM TypeCorrect == Spec => []TypeOK
<1>1. IInv => TypeOK
  BY DEF IInv
<1> QED BY <1>1, IInvInvariance, PTL

\* OneDevice: however many pages log in and connect at once, when the server has dealt
\* with them one connection of the user is left at most.
THEOREM SingleDevice == Spec => []OneDevice
<1>1. IInv => OneDevice
  <2> SUFFICES ASSUME IInv, AtRest PROVE Cardinality({s \in Socket : Active(s)}) <= 1
    BY DEF OneDevice
  <2> DEFINE A == {s \in Socket : Active(s)}
  <2>1. \A s, r \in A : s = r
    BY DEF IInv, Rivals, AtRest, Active
  <2>2. ASSUME A = {} PROVE Cardinality(A) <= 1
    BY <2>2, FS_EmptySet
  <2>3. ASSUME A # {} PROVE Cardinality(A) <= 1
    <3>1. PICK s : A = {s}
      BY <2>1, <2>3
    <3> QED BY <3>1, FS_Singleton
  <2> QED BY <2>2, <2>3
<1> QED BY <1>1, IInvInvariance, PTL

\* SeatWatched: a seat is never left without a connection, a departure that is being
\* dealt with, or the grace timer, but for the mishaps that lost records.
THEOREM SeatsWatched == Spec => []SeatWatched
<1>1. IInv => SeatWatched
  BY DEF IInv
<1> QED BY <1>1, IInvInvariance, PTL

\* BackInTime: the grace timer removes nobody who has a connection again.
THEOREM ReturnBeatsTimer == Spec => BackInTime
<1>1. ASSUME IInv, [Next]_vars, cleaning' # cleaning, cleaning', NEW s \in Socket
      PROVE  ~sock[s].up
  <2>1. GraceEnds \/ CleanUp \/ Restart
    BY <1>1 DEF Next, vars, CheckSession, KickOthers, HandleDisconnect, JoinRoom, PingTimeout,
       LogIn, OpenAside, OpenPage, Refused, Drop, Reconnect, ForcedOut, SessionRefused,
       FetchFails, LogOut, LeaveRoom, PostLeaveRoom, LeaveStaleRoom, RedisFails, RedisReturns, seat
  <2>2. GraceEnds
    BY <1>1, <2>1 DEF CleanUp, Restart
  <2> QED BY <1>1, <2>2 DEF GraceEnds, OtherActive, Active, IInv, Known
<1>2. IInv /\ [Next]_vars => [cleaning' => \A s \in Socket : ~sock[s].up]_cleaning
  BY <1>1
<1> QED BY <1>2, IInvInvariance, PTL DEF Spec, BackInTime

\* LoginKept: nobody but the user himself, a failing request, or a force_logout that was
\* sent by mistake ends the session that is current.
THEOREM LoginsKept == Spec => LoginKept
<1>1. ASSUME IInv, [Next]_vars, token' # token, NEW t \in Tab,
             Token(t) # None, Token(t) = session, Token(t)' = None
      PROVE  Excused(t)
  <2>1. \E u \in Tab : LogIn(u) \/ ForcedOut(u) \/ SessionRefused(u) \/ FetchFails(u) \/ LogOut(u)
    BY <1>1 DEF Next, vars, CheckSession, KickOthers, HandleDisconnect, JoinRoom, PingTimeout,
       OpenAside, OpenPage, Refused, Drop, Reconnect, LeaveRoom, PostLeaveRoom, LeaveStaleRoom, RedisFails,
       RedisReturns, Restart, GraceEnds, CleanUp, client
  <2>2. PICK u \in Tab : LogIn(u) \/ ForcedOut(u) \/ SessionRefused(u) \/ FetchFails(u) \/ LogOut(u)
    BY <2>1
  <2>3. /\ token \in [Browser -> Login] /\ home[t] \in Browser /\ home[u] \in Browser
        /\ logins \in Nat
    BY <1>1, Bounds DEF IInv, TypeOK
  <2>4. ~LogIn(u)
    <3> SUFFICES ASSUME LogIn(u) PROVE FALSE
      OBVIOUS
    <3>1. token' = [token EXCEPT ![home[u]] = logins + 1] /\ home' = home
      BY DEF LogIn
    <3>2. logins + 1 # None
      BY <2>3 DEF None
    <3> QED BY <1>1, <2>3, <3>1, <3>2 DEF Token
  <2>5. CASE LogOut(u) \/ FetchFails(u)
    BY <2>5 DEF Excused
  <2>6. CASE ForcedOut(u) \/ SessionRefused(u)
    <3>1. token' = [token EXCEPT ![home[u]] = None] /\ home' = home
      BY <2>6 DEF ForcedOut, SessionRefused, SignOut, Disconnect
    <3>2. home[u] = home[t] /\ Token(u) = session /\ Token(u) # None
      BY <1>1, <2>3, <3>1 DEF Token
    <3>3. ~SessionRefused(u)
      BY <3>2 DEF SessionRefused, Authorized
    <3>4. tab[u].link # None /\ sock[tab[u].link].told # "no"
      BY <2>6, <3>3 DEF ForcedOut
    <3>5. sock[tab[u].link] \in Sockets
      BY <1>1, <3>4, LinkRow DEF IInv, TypeOK
    <3>6. sock[tab[u].link].told = "mistaken" \/ sock[tab[u].link].told = "replaced"
      BY <3>4, <3>5 DEF Sockets
    <3>7. sock[tab[u].link].told = "replaced" => ~Alone(u)
      BY <1>1, <3>2, <3>4 DEF IInv, OwnToken, Token
    <3> QED BY <3>2, <3>4, <3>6, <3>7 DEF Excused, Alone
  <2> QED BY <2>2, <2>4, <2>5, <2>6
<1>2. IInv /\ [Next]_vars =>
        [\A t \in Tab : Token(t) # None /\ Token(t) = session /\ Token(t)' = None
           => Excused(t)]_token
  BY <1>1
<1> QED BY <1>2, IInvInvariance, PTL DEF Spec, LoginKept
=============================================================================
