---------------------------- MODULE ChatSession -----------------------------
(***************************************************************************)
(* The life of the TCP sessions of one chat server and the table of users  *)
(* who are logged in: CServer, CSession, UserMgr and LoginHandler.         *)
(*                                                                         *)
(* Four kinds of thread touch this state, each a part of Next:             *)
(*  - the main thread runs the acceptor (HandleAccept);                    *)
(*  - one io_context thread runs the read and write handlers of every      *)
(*    session, ClearSession included (AsioServicePool::GetIOService never  *)
(*    advances its index, so all sessions share the first io_context);     *)
(*  - the logic thread runs LoginHandler under LogicSystem::_mutex, which  *)
(*    PostMsgToQue needs as well;                                          *)
(*  - gRPC threads look users up and send them notifications.              *)
(*                                                                         *)
(* The Redis keys LoginHandler reads and writes on its way (token, uip_,   *)
(* LOGIN_COUNT) decide nothing here but whether the login is accepted.     *)
(*                                                                         *)
(* A session object stands for one accepted connection.  Its client may    *)
(* send any number of logins over it, each under a user of its own choice: *)
(* LoginHandler does not ask whether the session has a user already.       *)
(***************************************************************************)
EXTENDS Naturals, Sequences

CONSTANTS
    Sessions,   \* the connections explored, each accepted at most once
    Users,      \* user ids
    Logins,     \* the login requests explored, each sent at most once,
    SessionOf,  \* the session a login arrives on,
    UserOf,     \* and the user it is for
    Arrivals,   \* bound: the sets of logins that arrive together in a run
    None        \* nullptr, and the uid 0 of a session nobody logged in to

ASSUME ChatSessionAssumption ==
    /\ SessionOf \in [Logins -> Sessions]
    /\ UserOf \in [Logins -> Users]
    /\ None \notin Sessions /\ None \notin Users /\ None \notin Logins

VARIABLES
    link,            \* the client's end: "none", "up", "down"
    acceptor,        \* HandleAccept between Start() and emplace: the session
    sessions,        \* CServer::_sessions
    read,            \* its reads: "none", "pending", "stopped", or "dead"
    write,           \* its write chain: "idle", "pending", "failed"
    open,            \* the sessions whose socket Close() has not closed
    user_uid,        \* CSession::_user_uid
    uid_to_session,  \* UserMgr::_uid_to_session
    asked,           \* the logins that have arrived
    rsp,             \* the answer to a login: "none", "ok", "error"
    msg_que,         \* LogicSystem::_msg_que, its logins
    logic,           \* LoginHandler for the front message: its last step
    io,              \* the io_context thread: handler, session, uid, login
    notice,          \* a gRPC handler between GetSession and Send
    passed,          \* history: the logins that got as far as SetUserId
    cleared,         \* history: the sessions whose ClearSession has ended
    early,           \* history: ClearSession looked before the emplace
    missed,          \* history: its find() raced with an emplace and failed
    late             \* history: SetUserSession came after RmvUserSession

tables == <<sessions, uid_to_session, user_uid>>
socket == <<link, read, write, open>>
login == <<asked, rsp, msg_que, logic>>
history == <<passed, cleared, early, missed, late>>
vars == <<acceptor, tables, socket, login, io, notice, history>>

Idle == [at |-> "idle", session |-> None, uid |-> None, login |-> None]
NoNotice == [session |-> None, uid |-> None]

Init ==
    /\ link = [s \in Sessions |-> "none"]
    /\ acceptor = None
    /\ sessions = {}
    /\ read = [s \in Sessions |-> "none"]
    /\ write = [s \in Sessions |-> "idle"]
    /\ open = {}
    /\ user_uid = [s \in Sessions |-> None]
    /\ uid_to_session = [u \in Users |-> None]
    /\ asked = {}
    /\ rsp = [l \in Logins |-> "none"]
    /\ msg_que = <<>>
    /\ logic = "wait"
    /\ io = Idle
    /\ notice = NoNotice
    /\ passed = {} /\ cleared = {} /\ early = {} /\ missed = {} /\ late = {}

-----------------------------------------------------------------------------
(* The main thread.  HandleAccept starts the new session's reads before it *)
(* enters the session in _sessions; the next accept starts after that.     *)
AcceptStarts(s) ==
    /\ acceptor = None
    /\ link[s] = "none"
    /\ link' = [link EXCEPT ![s] = "up"]
    /\ read' = [read EXCEPT ![s] = "pending"]
    /\ open' = open \union {s}
    /\ acceptor' = s
    /\ UNCHANGED <<tables, write, login, io, notice, history>>

AcceptEmplaces ==
    /\ acceptor # None
    /\ sessions' = sessions \union {acceptor}
    /\ acceptor' = None
    /\ UNCHANGED <<uid_to_session, user_uid, socket, login, io, notice, history>>

(* The client closes the connection, or loses it (external). *)
LinkDown(s) ==
    /\ link[s] = "up"
    /\ link' = [link EXCEPT ![s] = "down"]
    /\ UNCHANGED <<acceptor, tables, read, write, open, login, io, notice, history>>

-----------------------------------------------------------------------------
(* The io_context thread, one handler after another. *)
IoRuns(at, s, l) == io = Idle /\ io' = [at |-> at, session |-> s, uid |-> None, login |-> l]

Alive(s) == link[s] = "up" /\ s \in open

(* Faulty variants of definitions below, used only by the mutation runs.   *)
FailsWithoutClear(s) ==
    /\ read[s] = "pending" /\ ~Alive(s)
    /\ read' = [read EXCEPT ![s] = "stopped"]
    /\ open' = open \ {s}
    /\ UNCHANGED <<acceptor, tables, link, write, login, io, notice, history>>
RemovesNothing ==
    /\ io.at = "rmv"
    /\ io' = [io EXCEPT !.at = "erase"]
    /\ UNCHANGED <<acceptor, tables, socket, login, notice, history>>

(* A complete login request arrives; the handler posts it, for which it    *)
(* has to wait while the logic thread is inside a callback.                *)
ReadsLogin(l) ==
    /\ read[SessionOf[l]] = "pending" /\ Alive(SessionOf[l])
    /\ l \notin asked /\ asked \union {l} \in Arrivals
    /\ asked' = asked \union {l}
    /\ IoRuns("post", SessionOf[l], l)
    /\ UNCHANGED <<acceptor, tables, socket, rsp, msg_que, logic, notice, history>>

PostMsgToQue ==
    /\ io.at = "post"
    /\ logic = "wait"
    /\ msg_que' = Append(msg_que, io.login)
    /\ io' = Idle
    /\ UNCHANGED <<acceptor, tables, socket, asked, rsp, logic, notice, history>>

(* A read ends in an error: the client is gone or the socket closed. *)
ReadFails(s) ==
    /\ read[s] = "pending" /\ ~Alive(s)
    /\ read' = [read EXCEPT ![s] = "stopped"]
    /\ open' = open \ {s}
    /\ IoRuns("find", s, None)
    /\ UNCHANGED <<acceptor, tables, link, write, login, notice, history>>

(* A header with an id or length over MAX_LENGTH ends the reads and the    *)
(* session, without closing the socket.                                    *)
ReadsBadHeader(s) ==
    /\ read[s] = "pending" /\ Alive(s)
    /\ read' = [read EXCEPT ![s] = "stopped"]
    /\ IoRuns("find", s, None)
    /\ UNCHANGED <<acceptor, tables, link, write, open, login, notice, history>>

(* A negative length is under MAX_LENGTH; the new char[] it then gives the *)
(* size of throws, and the handler's catch leaves the session as it is: no *)
(* read is pending any more, and nobody closes or clears it.               *)
ReadsNegativeLength(s) ==
    /\ read[s] = "pending" /\ Alive(s)
    /\ io = Idle
    /\ read' = [read EXCEPT ![s] = "dead"]
    /\ UNCHANGED <<acceptor, tables, link, write, open, login, io, notice, history>>

(* Send starts the write chain if it is idle; after a failed write the     *)
(* queue is never empty again, so nothing starts it (module SendQueue).    *)
Send(s) == write' = [write EXCEPT ![s] = IF @ = "idle" THEN "pending" ELSE @]

WriteEnds(s) ==
    /\ write[s] = "pending" /\ Alive(s)
    /\ io = Idle
    /\ write' = [write EXCEPT ![s] = "idle"]
    /\ UNCHANGED <<acceptor, tables, link, read, open, login, io, notice, history>>

WriteFails(s) ==
    /\ write[s] = "pending" /\ ~Alive(s)
    /\ write' = [write EXCEPT ![s] = "failed"]
    /\ open' = open \ {s}
    /\ IoRuns("find", s, None)
    /\ UNCHANGED <<acceptor, tables, link, read, login, notice, history>>

(* ClearSession, CServer.cpp:22: find() without the mutex.  While the main *)
(* thread is inserting, the search may miss an entry it would have found.  *)
ClearFinds ==
    /\ io.at = "find"
    /\ io.session \in sessions
    /\ io' = [io EXCEPT !.at = "rmv", !.uid = user_uid[io.session]]
    /\ UNCHANGED <<acceptor, tables, socket, login, notice, history>>

ClearFindsNothing ==
    /\ io.at = "find"
    /\ io.session \notin sessions \/ acceptor # None
    /\ early' = IF io.session = acceptor THEN early \union {acceptor} ELSE early
    /\ missed' = IF io.session \in sessions THEN missed \union {io.session} ELSE missed
    /\ io' = [io EXCEPT !.at = "erase"]
    /\ UNCHANGED <<acceptor, tables, socket, login, notice, passed, cleared, late>>

RmvUserSession ==
    /\ io.at = "rmv"
    /\ uid_to_session' = [u \in Users |-> IF u = io.uid THEN None ELSE uid_to_session[u]]
    /\ io' = [io EXCEPT !.at = "erase"]
    /\ UNCHANGED <<acceptor, sessions, user_uid, socket, login, notice, history>>

ClearErases ==
    /\ io.at = "erase"
    /\ sessions' = sessions \ {io.session}
    /\ cleared' = cleared \union {io.session}
    /\ io' = Idle
    /\ UNCHANGED <<acceptor, uid_to_session, user_uid, socket, login, notice, passed, early, missed, late>>

ClearSession == ClearFinds \/ ClearFindsNothing \/ RmvUserSession \/ ClearErases

-----------------------------------------------------------------------------
(* The logic thread in LoginHandler, for the front of the queue.  Either a *)
(* check fails (token, user), or the login is accepted and registered.     *)
LogicGoes(from, to) ==
    /\ logic = from /\ logic' = to
    /\ msg_que # <<>>

Answer(reply) ==
    /\ rsp' = [rsp EXCEPT ![Head(msg_que)] = reply]
    /\ Send(SessionOf[Head(msg_que)])
    /\ msg_que' = Tail(msg_que)

(* Faulty variants, for mutation runs: a login that sets the uid before it *)
(* is checked, one that answers nothing, one that forgets SetUserId.       *)
UidBeforeTheChecks ==
    /\ LogicGoes("wait", "wait")
    /\ user_uid' = [user_uid EXCEPT ![SessionOf[Head(msg_que)]] = UserOf[Head(msg_que)]]
    /\ Answer("error")
    /\ UNCHANGED <<acceptor, sessions, uid_to_session, link, read, open, asked, io, notice, history>>
RejectedInSilence ==
    /\ LogicGoes("wait", "wait")
    /\ msg_que' = Tail(msg_que)
    /\ UNCHANGED <<acceptor, tables, socket, asked, rsp, io, notice, history>>
UidNotSet ==
    /\ LogicGoes("accepted", "uid set")
    /\ passed' = passed \union {Head(msg_que)}
    /\ UNCHANGED <<acceptor, tables, socket, asked, rsp, msg_que, io, notice, cleared, early, missed, late>>

LoginRejected ==
    /\ LogicGoes("wait", "wait")
    /\ Answer("error")
    /\ UNCHANGED <<acceptor, tables, link, read, open, asked, io, notice, history>>

LoginAccepted ==
    /\ LogicGoes("wait", "accepted")
    /\ UNCHANGED <<acceptor, tables, socket, asked, rsp, msg_que, io, notice, history>>

SetUserId ==
    /\ LogicGoes("accepted", "uid set")
    /\ LET l == Head(msg_que) IN
         /\ user_uid' = [user_uid EXCEPT ![SessionOf[l]] = UserOf[l]]
         /\ passed' = passed \union {l}
    /\ UNCHANGED <<acceptor, sessions, uid_to_session, socket, asked, rsp, msg_que, io, notice, cleared, early, missed, late>>

(* ClearSession will not remove a login's mapping any more: it has ended,  *)
(* or it has read another uid.                                             *)
PastRemoval(l) ==
    \/ SessionOf[l] \in cleared
    \/ io.session = SessionOf[l] /\ (io.at = "erase" \/ (io.at = "rmv" /\ io.uid # UserOf[l]))

SetUserSession ==
    /\ LogicGoes("uid set", "mapped")
    /\ LET l == Head(msg_que) IN
         /\ uid_to_session' = [uid_to_session EXCEPT ![UserOf[l]] = SessionOf[l]]
         /\ late' = IF PastRemoval(l) THEN late \union {SessionOf[l]} ELSE late
    /\ UNCHANGED <<acceptor, sessions, user_uid, socket, asked, rsp, msg_que, io, notice, passed, cleared, early, missed>>

(* The Defer of LoginHandler sends the response; the message is popped. *)
LoginAnswered ==
    /\ LogicGoes("mapped", "wait")
    /\ Answer("ok")
    /\ UNCHANGED <<acceptor, tables, link, read, open, asked, io, notice, history>>

LoginHandler ==
    \/ LoginRejected \/ LoginAccepted
    \/ SetUserId \/ SetUserSession \/ LoginAnswered

-----------------------------------------------------------------------------
(* A gRPC handler that notifies user u, if u is logged in here.            *)
NotifyFinds(u) ==
    /\ notice = NoNotice
    /\ uid_to_session[u] # None
    /\ notice' = [session |-> uid_to_session[u], uid |-> u]
    /\ UNCHANGED <<acceptor, tables, socket, login, io, history>>

NotifySends ==
    /\ notice # NoNotice
    /\ Send(notice.session)
    /\ notice' = NoNotice
    /\ UNCHANGED <<acceptor, tables, link, read, open, login, io, history>>

-----------------------------------------------------------------------------
Reads(s) ==
    \/ \E l \in Logins : SessionOf[l] = s /\ ReadsLogin(l)
    \/ ReadFails(s) \/ ReadsBadHeader(s) \/ ReadsNegativeLength(s)
Writes(s) == WriteEnds(s) \/ WriteFails(s)

Next ==
    \/ \E s \in Sessions : AcceptStarts(s) \/ LinkDown(s) \/ Reads(s) \/ Writes(s)
    \/ AcceptEmplaces
    \/ PostMsgToQue \/ ClearSession
    \/ LoginHandler
    \/ \E u \in Users : NotifyFinds(u)
    \/ NotifySends

(* The io_context and logic threads run what is ready.  A read of a closed *)
(* or broken connection ends with an error; a client need not send.        *)
Fairness ==
    /\ \A s \in Sessions : WF_vars(ReadFails(s)) /\ WF_vars(Writes(s))
    /\ WF_vars(PostMsgToQue)
    /\ WF_vars(ClearSession)
    /\ WF_vars(LoginHandler)

Spec == Init /\ [][Next]_vars
FairSpec == Spec /\ Fairness

-----------------------------------------------------------------------------
TypeOK ==
    /\ link \in [Sessions -> {"none", "up", "down"}]
    /\ acceptor \in Sessions \union {None}
    /\ sessions \subseteq Sessions
    /\ read \in [Sessions -> {"none", "pending", "stopped", "dead"}]
    /\ write \in [Sessions -> {"idle", "pending", "failed"}]
    /\ open \subseteq Sessions
    /\ user_uid \in [Sessions -> Users \union {None}]
    /\ uid_to_session \in [Users -> Sessions \union {None}]
    /\ asked \subseteq Logins
    /\ rsp \in [Logins -> {"none", "ok", "error"}]
    /\ msg_que \in Seq(Logins)
    /\ logic \in {"wait", "accepted", "uid set", "mapped"}
    /\ io \in [at : {"idle", "post", "find", "rmv", "erase"},
               session : Sessions \union {None}, uid : Users \union {None},
               login : Logins \union {None}]
    /\ notice \in [session : Sessions \union {None}, uid : Users \union {None}]
    /\ passed \subseteq Logins
    /\ cleared \subseteq Sessions /\ early \subseteq Sessions
    /\ missed \subseteq Sessions /\ late \subseteq Sessions

(* The session has passed a login as the user. *)
LoggedIn(s, u) == \E l \in passed : SessionOf[l] = s /\ UserOf[l] = u

(* ... and has passed one as somebody else too. *)
ChangedUser(s, u) == \E v \in Users \ {u} : LoggedIn(s, v)

Mapped(s) == \E u \in Users : uid_to_session[u] = s

(* A user's notification, also one already past its lookup, goes to a      *)
(* session that has logged in as that user, never to one that only tried;  *)
(* and that user is still the session's uid unless the session has logged  *)
(* in as another user since, which no lookup notices.                      *)
ReachesUser(s, u) == LoggedIn(s, u) /\ (user_uid[s] = u \/ ChangedUser(s, u))

NoticeReachesItsUser ==
    /\ \A u \in Users : uid_to_session[u] # None => ReachesUser(uid_to_session[u], u)
    /\ notice # NoNotice => ReachesUser(notice.session, notice.uid)

(* The session's ClearSession has removed its uid from the user table. *)
Ended(s) == s \in cleared \/ (io.at = "erase" /\ io.session = s)

(* Whoever was told that he is logged in can be reached until a session    *)
(* that has itself logged in as him ends: his own or, since RmvUserSession *)
(* erases the uid whatever session it maps to, an older or a newer one.    *)
(* No session of another user unmaps him, nor one that he was refused on.  *)
LoggedInReachable ==
    \A l \in Logins : rsp[l] = "ok" =>
        \/ uid_to_session[UserOf[l]] # None
        \/ \E s \in Sessions : Ended(s) /\ LoggedIn(s, UserOf[l])

(* After its ClearSession a session stays in the user table only because   *)
(* it has logged in as another user since, who alone is removed, or        *)
(* through one of three races: it was not yet in _sessions, the unlocked   *)
(* find() missed it, or its login was still queued or running.             *)
ClearedIsUnmapped ==
    \A s \in cleared, u \in Users : uid_to_session[u] = s =>
        s \in early \union missed \union late \/ ChangedUser(s, u)

(* ... and stays in _sessions only through the first race. *)
ClearedIsErased == cleared \intersect sessions \subseteq early

(* So ClearSession leaves nothing of a session behind but in these cases. *)
ClearedIsGone == ClearedIsUnmapped /\ ClearedIsErased

(* A negative length ended the reads, and no write is there to fail. *)
Deaf(s) == read[s] = "dead" /\ write[s] = "idle"

(* A lost connection is cleared in the end, unless a negative length has   *)
(* left it deaf and nothing is sent to it: no handler is stuck behind the  *)
(* logic thread's mutex, and every other open session has a read pending.  *)
LostIsCleared == \A s \in Sessions : link[s] = "down" /\ ~Deaf(s) ~> s \in cleared

(* Every well-formed login that arrives is answered, if only into a closed *)
(* socket: the thread that read it is not blocked for ever posting it.     *)
LoginIsAnswered == \A l \in Logins : l \in asked ~> rsp[l] # "none"
=============================================================================
