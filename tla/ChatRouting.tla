---------------------------- MODULE ChatRouting -----------------------------
(***************************************************************************)
(* How a request of one user reaches another over several chat servers:    *)
(* AddFriendApply, AuthFriendApply and DealChatTextMsg of LogicSystem, the *)
(* gRPC calls of ChatGrpcClient, the handlers of ChatServiceImpl, and the  *)
(* part of LoginHandler they race with.                                    *)
(*                                                                         *)
(* A friend request or an answer to one is a row in MySQL before anybody   *)
(* is notified, and a login reads these rows; a text is nowhere but in the *)
(* notification.  Which server a user is on is told by the Redis key uip_. *)
(* The sender is answered Success in every case, so the answer is left     *)
(* out.  MySQL: a row is committed when it is inserted and seen by every   *)
(* later login, which is so on connections AddFriend has not used before   *)
(* (it turns their auto-commit off).                                       *)
(*                                                                         *)
(* Each server has one logic thread, which runs one handler at a time and  *)
(* waits in it for the peer's answer; gRPC handlers run on threads of      *)
(* their own.  The session, its queue and the user table of one server are *)
(* treated in ChatSession, SendQueue and LogicQueue: a Send to a session   *)
(* whose client is there arrives, in order, and a user comes back to a     *)
(* server only after it has cleared his old session.                       *)
(*                                                                         *)
(* A login goes on when its client has left, while it waits in the queue   *)
(* or runs: it then writes uip_ and the user table for a session that is   *)
(* dead, perhaps after the user has logged in on another server.           *)
(***************************************************************************)
EXTENDS Naturals, Sequences

CONSTANTS
    Servers, Users,
    Requests,     \* the requests explored, each issued at most once
    From, To,     \* the users a request is from and for
    Rows,         \* the requests that are rows in MySQL: all but texts
    Applies,      \* the rows that are friend requests, one per pair of users
    ListLimit,    \* how many friend requests a login reads, the oldest
    Earlier,      \* how many each user may have in MySQL at the beginning
    None,         \* no server, no user, no request
    MaxConns      \* bound: connections of each user

ASSUME ChatRoutingAssumption ==
    /\ From \in [Requests -> Users] /\ To \in [Requests -> Users]
    /\ Rows \subseteq Requests /\ Applies \subseteq Rows
    /\ \A q, r \in Applies : From[q] = From[r] /\ To[q] = To[r] => q = r
    /\ ListLimit \in Nat /\ Earlier \subseteq [Users -> Nat]
    /\ None \notin Servers \union Users \union Requests
    /\ MaxConns \in [Users -> Nat]

VARIABLES
    home,            \* the server a user's client is connected to
    phase,           \* the client: "off", "asked" to log in, "in"
    epoch,           \* the number of a user's present connection
    uip,             \* the uip_ keys in Redis
    uid_to_session,  \* each server's user table: a connection, 0 for none
    dying,           \* the lost sessions that a server has to clear
    table,           \* friend_apply and friend in MySQL: the rows inserted
    applies,         \* how many rows of friend_apply each user has
    older,           \* ... and had when a request's row was inserted
    waiting,         \* the logins in each server's queue
    logic,           \* each server's logic thread: place, login or request
    call,            \* a request at the recipient's server
    known,           \* what a user's client shows: listed, then notified
    delivered,       \* the notifications a user's clients showed, in order
    begun,           \* history: the requests begun, in order, with epochs
    overlapped,      \* history: requests that ran during a recipient's login
    disturbed,       \* history: ... while the recipient was not all there
    overtaken,       \* history: users whose uip_ a dead session's login set
    strayed,         \* history: requests that went where such a uip_ said
    failed           \* history: Redis or the RPC failed for the request

client == <<home, phase, epoch>>
mysql == <<table, applies, older>>
server == <<uip, uid_to_session, mysql>>
queue == <<dying, waiting>>
screen == <<known, delivered>>
history == <<begun, overlapped, disturbed, overtaken, strayed, failed>>
vars == <<client, server, queue, logic, call, screen, history>>

Session(u, c) == [user |-> u, conn |-> c]
Idle == [at |-> "idle", user |-> None, conn |-> 0, req |-> None]
NoCall == [at |-> "none", server |-> None, conn |-> 0]

Init ==
    /\ home = [u \in Users |-> None]
    /\ phase = [u \in Users |-> "off"]
    /\ epoch = [u \in Users |-> 0]
    /\ uip = [u \in Users |-> None]
    /\ uid_to_session = [s \in Servers |-> [u \in Users |-> 0]]
    /\ dying = [s \in Servers |-> {}]
    /\ table = {} /\ applies \in Earlier /\ older = [r \in Requests |-> 0]
    /\ waiting = [s \in Servers |-> {}]
    /\ logic = [s \in Servers |-> Idle]
    /\ call = [r \in Requests |-> NoCall]
    /\ known = [u \in Users |-> {}]
    /\ delivered = [u \in Users |-> <<>>]
    /\ begun = <<>>
    /\ overlapped = {} /\ disturbed = {} /\ failed = {}
    /\ overtaken = {} /\ strayed = {}

-----------------------------------------------------------------------------
Goes(s, from, to) == logic[s].at = from /\ logic' = [logic EXCEPT ![s].at = to]
Ends(s, from) == logic[s].at = from /\ logic' = [logic EXCEPT ![s] = Idle]

Running(r) == \E s \in Servers : logic[s].req = r
RequestsTo(u) == {r \in Requests : To[r] = u}

(* The client of a connection is still there and waits for the answer. *)
Live(u, c) == phase[u] = "asked" /\ epoch[u] = c
LoggingIn(u) == \E s \in Servers : logic[s].user = u /\ Live(u, logic[s].conn)

(* The session x has its uid: its login has come to SetUserId. *)
Named(s, x) ==
    /\ x \notin waiting[s]
    /\ ~(logic[s].at = "uid" /\ x = Session(logic[s].user, logic[s].conn))

(* A login reads the friend requests in the order of their ids. *)
Listable(r) == r \in Applies => older[r] < ListLimit

(* Faulty variants of definitions below, used only by the mutation runs:   *)
(* ClearSession deletes the uip_ key too, a login sets it only if it is    *)
(* absent, the call is not waited for, the peer looks the user up on its    *)
(* logic thread.                                                           *)
ClearDeletesUip(s, x) ==
    /\ dying' = [dying EXCEPT ![s] = @ \ {x}]
    /\ uid_to_session' = [uid_to_session EXCEPT ![s][x.user] = IF Named(s, x) THEN 0 ELSE @]
    /\ uip' = [uip EXCEPT ![x.user] = None]
    /\ UNCHANGED <<client, mysql, waiting, logic, call, screen, history>>
UipKept(s) ==
    /\ Goes(s, "uip", "map")
    /\ uip' = [uip EXCEPT ![logic[s].user] = IF @ = None THEN s ELSE @]
    /\ UNCHANGED <<client, uid_to_session, mysql, queue, call, screen, history>>
EndsUnanswered(s) ==
    /\ Ends(s, "wait")
    /\ UNCHANGED <<client, server, queue, call, screen, history>>
FindsOnLogicThread(r) ==
    /\ call[r].at = "called"
    /\ logic[call[r].server] = Idle \/ logic[call[r].server].req = r
    /\ LET c == uid_to_session[call[r].server][To[r]] IN
         call' = [call EXCEPT ![r].at = IF c = 0 THEN "done" ELSE "found", ![r].conn = c]
    /\ UNCHANGED <<client, server, queue, logic, screen, history>>

(* The client: connects and asks to log in, and goes away at any time. *)
Connect(u, s) ==
    /\ phase[u] = "off" /\ \A x \in dying[s] : x.user # u
    /\ epoch[u] < MaxConns[u]
    /\ phase' = [phase EXCEPT ![u] = "asked"]
    /\ home' = [home EXCEPT ![u] = s]
    /\ epoch' = [epoch EXCEPT ![u] = @ + 1]
    /\ waiting' = [waiting EXCEPT ![s] = @ \union {Session(u, epoch[u] + 1)}]
    /\ UNCHANGED <<server, dying, logic, call, screen, history>>

Disconnect(u) ==
    /\ phase[u] # "off"
    /\ phase' = [phase EXCEPT ![u] = "off"]
    /\ home' = [home EXCEPT ![u] = None]
    /\ dying' = [dying EXCEPT ![home[u]] = @ \union {Session(u, epoch[u])}]
    /\ disturbed' = disturbed \union {r \in RequestsTo(u) : Running(r)}
    /\ UNCHANGED <<epoch, server, waiting, logic, call, screen, begun, overlapped, overtaken,
                   strayed, failed>>

(* ClearSession removes the session's user from the table, whoever is      *)
(* there, and leaves uip_.  A session without a uid removes nobody.        *)
ClearSession(s, x) ==
    /\ dying' = [dying EXCEPT ![s] = @ \ {x}]
    /\ uid_to_session' = [uid_to_session EXCEPT ![s][x.user] = IF Named(s, x) THEN 0 ELSE @]
    /\ UNCHANGED <<client, uip, mysql, waiting, logic, call, screen, history>>

-----------------------------------------------------------------------------
(* LoginHandler, for the session the login came from.  Logins of one user  *)
(* are handled in their order.  What the lists hold is what the client     *)
(* will show when the answer arrives.                                      *)
LoginReadsLists(s, x) ==
    /\ logic[s] = Idle
    /\ \A y \in waiting[s] : y.user = x.user => x.conn <= y.conn
    /\ waiting' = [waiting EXCEPT ![s] = @ \ {x}]
    /\ logic' = [logic EXCEPT ![s] = [at |-> "uid", user |-> x.user, conn |-> x.conn, req |-> None]]
    /\ IF Live(x.user, x.conn)
         THEN /\ known' = [known EXCEPT ![x.user] =
                              {r \in table \intersect RequestsTo(x.user) : Listable(r)}]
              /\ overlapped' = overlapped \union {r \in RequestsTo(x.user) : Running(r)}
         ELSE UNCHANGED <<known, overlapped>>
    /\ UNCHANGED <<client, server, dying, call, delivered, begun, disturbed, overtaken, strayed,
                   failed>>

LoginSetsUserId(s) ==
    /\ Goes(s, "uid", "uip")
    /\ UNCHANGED <<client, server, queue, call, screen, history>>

LoginSetsUip(s) ==
    /\ Goes(s, "uip", "map")
    /\ LET u == logic[s].user IN
         /\ uip' = [uip EXCEPT ![u] = s]
         /\ overtaken' = IF Live(u, logic[s].conn) THEN overtaken \ {u} ELSE overtaken \union {u}
    /\ UNCHANGED <<client, uid_to_session, mysql, queue, call, screen, begun, overlapped, disturbed,
                   strayed, failed>>

LoginSetsSession(s) ==
    /\ Goes(s, "map", "answer")
    /\ uid_to_session' = [uid_to_session EXCEPT ![s][logic[s].user] = logic[s].conn]
    /\ UNCHANGED <<client, uip, mysql, queue, call, screen, history>>

LoginAnswers(s) ==
    /\ Ends(s, "answer")
    /\ LET u == logic[s].user IN
         phase' = [phase EXCEPT ![u] = IF Live(u, logic[s].conn) THEN "in" ELSE @]
    /\ UNCHANGED <<home, epoch, server, queue, call, screen, history>>

-----------------------------------------------------------------------------
(* A request of a client: its row, if it has one, then the notification.   *)
RequestBegins(s, r) ==
    /\ logic[s] = Idle
    /\ home[From[r]] = s /\ phase[From[r]] = "in"
    /\ \A i \in DOMAIN begun : begun[i].req # r
    /\ begun' = Append(begun, [req |-> r, conn |-> epoch[From[r]]])
    /\ overlapped' = IF LoggingIn(To[r]) THEN overlapped \union {r} ELSE overlapped
    /\ disturbed' = IF phase[To[r]] # "in" THEN disturbed \union {r} ELSE disturbed
    /\ logic' = [logic EXCEPT ![s] = [at |-> IF r \in Rows THEN "insert" ELSE "route",
                                      user |-> None, conn |-> 0, req |-> r]]
    /\ UNCHANGED <<client, server, queue, call, screen, overtaken, strayed, failed>>

(* The result of the insert is not looked at. *)
InsertsRow(s) ==
    /\ Goes(s, "insert", "route")
    /\ \/ UNCHANGED mysql
       \/ LET r == logic[s].req  u == To[r] IN
            /\ table' = table \union {r}
            /\ older' = [older EXCEPT ![r] = applies[u]]
            /\ applies' = [applies EXCEPT ![u] = IF r \in Applies THEN @ + 1 ELSE @]
    /\ UNCHANGED <<client, uip, uid_to_session, queue, call, screen, history>>

(* The recipient's server by Redis: unknown, or Redis fails, and nothing   *)
(* more happens; this server or a peer, and the user is looked up there.   *)
RouteUnknown(s) ==
    /\ Ends(s, "route")
    /\ uip[To[logic[s].req]] = None
    /\ UNCHANGED <<client, server, queue, call, screen, history>>

RouteFails(s) ==
    /\ Ends(s, "route")
    /\ failed' = failed \union {logic[s].req}
    /\ UNCHANGED <<client, server, queue, call, screen, begun, overlapped, disturbed, overtaken,
                   strayed>>

RoutesTo(s, t) ==
    /\ Goes(s, "route", "wait")
    /\ LET r == logic[s].req  u == To[r] IN
         /\ uip[u] = t
         /\ call' = [call EXCEPT ![r] = [at |-> "called", server |-> t, conn |-> 0]]
         /\ strayed' = IF phase[u] = "in" /\ u \in overtaken THEN strayed \union {r} ELSE strayed
    /\ UNCHANGED <<client, server, queue, screen, begun, overlapped, disturbed, overtaken, failed>>

(* The logic thread itself, or a gRPC handler of the peer. *)
Finds(r) ==
    /\ call[r].at = "called"
    /\ LET c == uid_to_session[call[r].server][To[r]] IN
         call' = [call EXCEPT ![r].at = IF c = 0 THEN "done" ELSE "found", ![r].conn = c]
    /\ UNCHANGED <<client, server, queue, logic, screen, history>>

(* The client shows a notification only when the chat dialog exists, which *)
(* the login answer creates.                                               *)
Shows(r) ==
    /\ home[To[r]] = call[r].server /\ epoch[To[r]] = call[r].conn
    /\ phase[To[r]] = "in"

Sends(r) ==
    /\ call[r].at = "found"
    /\ call' = [call EXCEPT ![r].at = "done"]
    /\ IF Shows(r)
         THEN /\ known' = [known EXCEPT ![To[r]] = @ \union {r}]
              /\ delivered' = [delivered EXCEPT ![To[r]] = Append(@, r)]
         ELSE UNCHANGED screen
    /\ UNCHANGED <<client, server, queue, logic, history>>

RequestEnds(s) ==
    /\ Ends(s, "wait")
    /\ call[logic[s].req].at = "done"
    /\ UNCHANGED <<client, server, queue, call, screen, history>>

(* The connection to the peer breaks: the caller gets an error, whether    *)
(* the peer's handler has run, is still running or never will.             *)
RpcFails(s) ==
    /\ Ends(s, "wait")
    /\ LET r == logic[s].req IN
         /\ call[r].server # s
         /\ call' \in {call, [call EXCEPT ![r].at = "done"]}
         /\ failed' = failed \union {r}
    /\ UNCHANGED <<client, server, queue, screen, begun, overlapped, disturbed, overtaken, strayed>>

-----------------------------------------------------------------------------
LoginHandler(s) ==
    \/ \E x \in waiting[s] : LoginReadsLists(s, x)
    \/ LoginSetsUserId(s) \/ LoginSetsUip(s) \/ LoginSetsSession(s) \/ LoginAnswers(s)

RequestHandler(s) ==
    \/ InsertsRow(s) \/ RouteUnknown(s) \/ RouteFails(s)
    \/ \E t \in Servers : RoutesTo(s, t)
    \/ RequestEnds(s)

Notifies(r) == Finds(r) \/ Sends(r)

Next ==
    \/ \E u \in Users : Disconnect(u) \/ \E s \in Servers : Connect(u, s)
    \/ \E s \in Servers : \E x \in dying[s] : ClearSession(s, x)
    \/ \E s \in Servers : LoginHandler(s) \/ RequestHandler(s) \/ RpcFails(s)
    \/ \E s \in Servers, r \in Requests : RequestBegins(s, r)
    \/ \E r \in Requests : Notifies(r)

(* Threads run: handlers once begun, gRPC handlers once called.  No RPC has *)
(* to fail: none has a deadline.                                           *)
Fairness ==
    /\ \A s \in Servers : WF_vars(LoginHandler(s)) /\ WF_vars(RequestHandler(s))
    /\ \A r \in Requests : WF_vars(Notifies(r))

Spec == Init /\ [][Next]_vars
FairSpec == Spec /\ Fairness

-----------------------------------------------------------------------------
TypeOK ==
    /\ home \in [Users -> Servers \union {None}]
    /\ phase \in [Users -> {"off", "asked", "in"}]
    /\ epoch \in [Users -> Nat]
    /\ uip \in [Users -> Servers \union {None}]
    /\ uid_to_session \in [Servers -> [Users -> Nat]]
    /\ dying \in [Servers -> SUBSET [user : Users, conn : Nat]]
    /\ waiting \in [Servers -> SUBSET [user : Users, conn : Nat]]
    /\ table \subseteq Rows
    /\ applies \in [Users -> Nat] /\ older \in [Requests -> Nat]
    /\ logic \in [Servers -> [at : {"idle", "uid", "uip", "map", "answer",
                                    "insert", "route", "wait"},
                              user : Users \union {None}, conn : Nat,
                              req : Requests \union {None}]]
    /\ call \in [Requests -> [at : {"none", "called", "found", "done"},
                              server : Servers \union {None}, conn : Nat]]
    /\ known \in [Users -> SUBSET Requests]
    /\ delivered \in [Users -> Seq(Requests)]
    /\ begun \in Seq([req : Requests, conn : Nat])
    /\ overlapped \subseteq Requests /\ disturbed \subseteq Requests
    /\ overtaken \subseteq Users /\ strayed \subseteq Requests
    /\ failed \subseteq Requests

Handled(r) == ~Running(r) /\ \E i \in DOMAIN begun : begun[i].req = r

(* Redis and the user table agree about every user who is logged in: the   *)
(* table of the server he is on has this connection, and his uip_ key      *)
(* names that server, whatever earlier connections, to other servers, have *)
(* left behind.  One thing makes uip_ wrong: the login of a session he     *)
(* lost before it was through, handled after his own.                      *)
RoutedHome ==
    \A u \in Users : phase[u] = "in" =>
        /\ uid_to_session[home[u]][u] = epoch[u]
        /\ uip[u] = home[u] \/ u \in overtaken

(* A friend request, or an answer to one, in MySQL is on the recipient's   *)
(* screen whenever he is logged in, from his lists or from the             *)
(* notification.  The gaps, where nothing fails: his login, on another     *)
(* server, read the lists before the row was there and was not done when   *)
(* the notification went out; the notification followed a uip_ that a dead *)
(* session's login had set; or ListLimit older requests fill the list.     *)
RowIsSeen ==
    \A r \in table : Handled(r) /\ phase[To[r]] = "in" /\ Listable(r) =>
        r \in known[To[r]] \union overlapped \union strayed \union failed

(* A request handled while its recipient is logged in, on any server, over *)
(* one connection is delivered, unless the login of a session he lost      *)
(* earlier has set his uip_ after his own.                                 *)
SteadyIsNotified ==
    \A r \in Requests : Handled(r) /\ r \notin disturbed \union strayed \union failed =>
        \E i \in DOMAIN delivered[To[r]] : delivered[To[r]][i] = r

(* The notifications from one connection of a sender arrive in the order   *)
(* he issued the requests, and none twice, even if the recipient moves to  *)
(* another server in between.                                              *)
BeganBefore(q, r) ==
    \E i, j \in DOMAIN begun :
        i < j /\ begun[i].req = q /\ begun[j].req = r /\ begun[i].conn = begun[j].conn

NotifiedInOrder ==
    \A u \in Users : \A i, j \in DOMAIN delivered[u] : i < j =>
        LET q == delivered[u][i]  r == delivered[u][j] IN
            /\ q # r
            /\ From[q] = From[r] /\ r \notin failed => ~BeganBefore(r, q)

(* No logic thread waits for ever, although two servers may call each      *)
(* other at the same time from handlers that block their logic threads.    *)
HandlersEnd == \A s \in Servers : logic[s].at # "idle" ~> logic[s].at = "idle"
=============================================================================
