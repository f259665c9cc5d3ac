------------------------------- MODULE SqlDao -------------------------------
(***************************************************************************)
(* MySqlDao of the chat servers (ChatServer/MySqlPool.cpp): friend         *)
(* requests, their confirmation and the lists a login reads, each over a   *)
(* connection of the server's pool, with what AddFriend does to the        *)
(* connection it uses: it turns auto-commit off and never on again.        *)
(*                                                                         *)
(* Every server has one logic thread, which runs the handlers below one at *)
(* a time, and gRPC threads, of which one is modelled, that look users up. *)
(* GetConnection and ReturnConnection are steps under the pool's mutex     *)
(* (how threads sleep there is RedisPool's subject).  Left out: the users' *)
(* own table, which does not change here, the handlers' look-ups of users  *)
(* (they take and return a connection as the gRPC thread does), and Close, *)
(* at the end of the process.                                              *)
(*                                                                         *)
(* MySQL (external) is InnoDB: a row that a transaction has written is     *)
(* locked until the transaction ends; a plain SELECT reads the snapshot of *)
(* the transaction's first read; a statement that waits for a lock too     *)
(* long, or for itself in a circle, throws.  The tables have no two rows   *)
(* of the same two users, as INSERT IGNORE and ON DUPLICATE KEY suppose.   *)
(***************************************************************************)
EXTENDS Naturals, Sequences, FiniteSets

CONSTANTS
    Servers, Users,
    Requests,       \* the messages handled, each at most once
    Kind,           \* "apply", "auth" or "login"
    From, To,       \* who sends it, and the other user it names
    Home,           \* the server its sender is logged in to
    Readers,        \* the servers where a gRPC thread reads a user
    PoolSize,       \* connections per server, 5 in the program
    ListLimit,      \* rows GetApplyList reads, 10 in the program
    Earlier,        \* the friend requests that may be in MySQL at the beginning
    NoReq, NoConn,
    MaxFaults       \* bound: connections lost, statements failing, processes ended

(* What a row says: u has asked v to be his friend, v has confirmed it     *)
(* (the status of the same row), u has the friend v.                       *)
Facts == {"applied", "authed", "friend"} \X Users \X Users

Conns == Servers \X (1..PoolSize)
ConnsOf(s) == {<<s, i>> : i \in 1..PoolSize}

ASSUME SqlDaoAssumption ==
    /\ Kind \in [Requests -> {"apply", "auth", "login"}]
    /\ From \in [Requests -> Users] /\ To \in [Requests -> Users]
    /\ Home \in [Requests -> Servers] /\ Readers \subseteq Servers
    /\ PoolSize \in Nat /\ ListLimit \in Nat /\ MaxFaults \in Nat
    /\ \A F \in Earlier : /\ F \subseteq {"applied"} \X Users \X Users
                          /\ \A f, g \in F : f[3] = g[3] => f = g
    /\ NoReq \notin Requests /\ NoConn \notin Conns

Row(f) == <<IF f[1] = "friend" THEN "friend" ELSE "friend_apply", f[2], f[3]>>
Rows(F) == {Row(f) : f \in F}

VARIABLES
    committed,  \* the facts in the tables
    ahead,      \* the users whose requests to v have lower ids than u's
    auto,       \* auto-commit of each connection
    pending,    \* the facts its open transaction has written
    locks,      \* the rows its open transaction has locked
    snapshot,   \* its snapshot, as {what it read}, or {}
    broken,     \* the connections that are lost
    pool,       \* _sql_connection_pool of each server
    logic,      \* each server's logic thread
    reader,     \* the connection of a gRPC thread in GetUser
    begun,      \* the requests begun
    reported,   \* the facts reported as written, by requests that ended
    befriended, \* the servers that have run an AddFriend since their start
    safe,       \* those reported by a server that had not
    faults      \* faults so far

tables == <<committed, pending, locks, snapshot>>
state == <<ahead, auto, broken>>
history == <<begun, reported, befriended, safe>>
vars == <<tables, state, pool, logic, reader, history, faults>>

(* at: the next step in the DAO function `call`, on the connection con and *)
(* in GetFriendList con2; wrote: what the request's functions have written *)
(* and reported with true; left: the friends GetFriendList has to look up. *)
Idle == [at |-> "idle", call |-> "none", req |-> NoReq, con |-> NoConn, con2 |-> NoConn,
         wrote |-> {}, list |-> {}, left |-> {}]

FreshPool(s) == [i \in 1..PoolSize |-> <<s, i>>]

Init ==
    /\ committed \in Earlier
    /\ ahead = [p \in Users \X Users |-> {}]
    /\ auto = [c \in Conns |-> TRUE]
    /\ pending = [c \in Conns |-> {}]
    /\ locks = [c \in Conns |-> {}]
    /\ snapshot = [c \in Conns |-> {}]
    /\ broken = {}
    /\ pool = [s \in Servers |-> FreshPool(s)]
    /\ logic = [s \in Servers |-> Idle]
    /\ reader = [s \in Servers |-> NoConn]
    /\ begun = {} /\ reported = {} /\ befriended = {} /\ safe = committed
    /\ faults = 0

-----------------------------------------------------------------------------
At(s, place, function) == logic[s].at = place /\ logic[s].call = function
Goes(s, from, to) == logic[s].at = from /\ logic' = [logic EXCEPT ![s].at = to]

Applied(r) == <<"applied", From[r], To[r]>>
(* The request that a confirmation answers went the other way. *)
Answered(r) == <<"applied", To[r], From[r]>>
Authed(r) == <<"authed", To[r], From[r]>>
Friend(r) == <<"friend", From[r], To[r]>>
FriendBack(r) == <<"friend", To[r], From[r]>>

(* The friend requests to a user, and how many of these have ids below one *)
(* of them.                                                                *)
ApplyRows(F, u) == {f \in F : f[1] # "friend" /\ f[3] = u}
Older(F, f) == Cardinality({w \in ahead[<<f[2], f[3]>>] : <<"applied", w, f[3]>> \in F})

Unlocked(c, rows) == \A d \in Conns \ {c} : locks[d] \intersect rows = {}

(* What a plain SELECT on a connection reads, and the snapshot it takes.   *)
View(c) == IF auto[c] THEN committed
           ELSE pending[c] \union (IF snapshot[c] = {} THEN committed ELSE UNION snapshot[c])
SnapshotAfterRead(c) ==
    IF auto[c] \/ snapshot[c] # {} THEN snapshot ELSE [snapshot EXCEPT ![c] = {committed}]

(* A statement writes: at once, or in the connection's transaction. *)
Write(c, F) ==
    /\ c \notin broken
    /\ Unlocked(c, Rows(F))
    /\ committed' = IF auto[c] THEN committed \union F ELSE committed
    /\ pending' = IF auto[c] THEN pending ELSE [pending EXCEPT ![c] = @ \union (F \ committed)]
    /\ locks' = IF auto[c] THEN locks ELSE [locks EXCEPT ![c] = @ \union Rows(F)]
    /\ UNCHANGED snapshot

(* The transactions of connections C end; what they wrote is lost unless   *)
(* it has been committed in the same step.                                 *)
EndTransactions(C) ==
    /\ pending' = [c \in Conns |-> IF c \in C THEN {} ELSE pending[c]]
    /\ locks' = [c \in Conns |-> IF c \in C THEN {} ELSE locks[c]]
    /\ snapshot' = [c \in Conns |-> IF c \in C THEN {} ELSE snapshot[c]]

-----------------------------------------------------------------------------
(* A handler of LogicSystem: its DAO calls, one after another.             *)
FirstCall == [apply |-> "AddFriendApply", auth |-> "AuthFriendApply", login |-> "GetApplyList"]
NextCall(function) ==
    CASE function = "AuthFriendApply" -> "AddFriend"
      [] function = "GetApplyList" -> "GetFriendList"
      [] OTHER -> "none"

Begin(s, r) ==
    /\ logic[s] = Idle
    /\ Home[r] = s /\ r \notin begun
    /\ begun' = begun \union {r}
    /\ logic' = [logic EXCEPT ![s] = [Idle EXCEPT !.at = "get", !.req = r,
                                                  !.call = FirstCall[Kind[r]]]]
    /\ UNCHANGED <<tables, state, pool, reader, reported, befriended, safe, faults>>

GetConnection(s) ==
    /\ logic[s].at = "get"
    /\ pool[s] # <<>>
    /\ logic' = [logic EXCEPT ![s].at = "run", ![s].con = Head(pool[s])]
    /\ pool' = [pool EXCEPT ![s] = Tail(@)]
    /\ UNCHANGED <<tables, state, reader, history, faults>>

(* The Defer of every function returns the connection, whatever happened.  *)
(* After the last call the request is answered and its user notified.      *)
ReturnConnection(s) ==
    /\ logic[s].at = "return"
    /\ pool' = [pool EXCEPT ![s] = Append(@, logic[s].con)]
    /\ LET next == NextCall(logic[s].call)  l == logic[s] IN
         IF next # "none"
           THEN /\ logic' = [logic EXCEPT ![s].at = "get", ![s].call = next, ![s].con = NoConn]
                /\ UNCHANGED <<reported, safe>>
           ELSE /\ logic' = [logic EXCEPT ![s] = Idle]
                /\ reported' = reported \union l.wrote
                /\ safe' = IF s \in befriended THEN safe ELSE safe \union l.wrote
    /\ UNCHANGED <<tables, state, reader, begun, befriended, faults>>

-----------------------------------------------------------------------------
Wrote(s, F, to) ==
    logic' = [logic EXCEPT ![s].at = to, ![s].wrote = @ \union F]

-----------------------------------------------------------------------------
(* Faulty variants of definitions below, used only by the mutation runs.   *)
SetAutoCommitForgotten(s) ==
    /\ At(s, "run", "AddFriend")
    /\ Goes(s, "run", "insert")
    /\ UNCHANGED <<tables, state, pool, reader, history, faults>>

FailureReportedAsTrue(s) ==
    /\ At(s, "run", "AddFriendApply") /\ logic[s].con \in broken
    /\ Wrote(s, {Applied(logic[s].req)}, "return")
    /\ UNCHANGED <<tables, state, pool, reader, history, faults>>

ListsYoungest(s) ==
    /\ At(s, "run", "GetApplyList")
    /\ LET c == logic[s].con  u == From[logic[s].req]  F == View(c)
           younger(f) == {w \in Users : <<"applied", w, u>> \in F /\ f[2] \in ahead[<<w, u>>]} IN
         /\ c \notin broken
         /\ logic' = [logic EXCEPT ![s].at = "return",
                ![s].list = {f \in ApplyRows(F, u) : Cardinality(younger(f)) < ListLimit}]
         /\ snapshot' = SnapshotAfterRead(c)
    /\ UNCHANGED <<committed, pending, locks, state, pool, reader, history, faults>>

UserConnectionKept(s) ==
    /\ logic[s].at = "user"
    /\ \E v \in logic[s].left :
         logic' = [logic EXCEPT ![s].left = @ \ {v}, ![s].con2 = NoConn,
                                ![s].at = IF logic[s].left = {v} THEN "return" ELSE "getuser"]
    /\ UNCHANGED <<tables, state, pool, reader, history, faults>>

NoNextFriend(s) ==
    /\ logic[s].at = "user"
    /\ pool' = [pool EXCEPT ![s] = Append(@, logic[s].con2)]
    /\ logic' = [logic EXCEPT ![s].con2 = NoConn, ![s].at = "getuser"]
    /\ UNCHANGED <<tables, state, reader, history, faults>>

-----------------------------------------------------------------------------
(* INSERT ... ON DUPLICATE KEY UPDATE: an existing row stays as it is, and *)
(* a new one gets the highest id, whether it is committed or not.          *)
Inserted == committed \union UNION {pending[c] : c \in Conns}

Youngest(u, v) ==
    [p \in Users \X Users |->
        IF p = <<u, v>> THEN {w \in Users \ {u} : <<"applied", w, v>> \in Inserted}
        ELSE IF p[2] = v THEN ahead[p] \ {u} ELSE ahead[p]]

AddFriendApply(s) ==
    /\ At(s, "run", "AddFriendApply")
    /\ LET r == logic[s].req  F == {Applied(r)} IN
         /\ Write(logic[s].con, F) /\ Wrote(s, F, "return")
         /\ ahead' = IF Applied(r) \in Inserted THEN ahead ELSE Youngest(From[r], To[r])
    /\ UNCHANGED <<auto, broken, pool, reader, history, faults>>

(* UPDATE reads what is committed, not the snapshot; without a row of that *)
(* request it changes nothing, which is reported with true as well.        *)
AuthFriendApply(s) ==
    /\ At(s, "run", "AuthFriendApply")
    /\ LET c == logic[s].con  r == logic[s].req
           F == IF Answered(r) \in committed \union pending[c] THEN {Authed(r)} ELSE {} IN
         /\ Unlocked(c, {Row(Answered(r))})
         /\ Write(c, F)
         /\ Wrote(s, F, "return")
    /\ UNCHANGED <<state, pool, reader, history, faults>>

SetAutoCommit(s) ==
    /\ At(s, "run", "AddFriend")
    /\ logic[s].con \notin broken
    /\ auto' = [auto EXCEPT ![logic[s].con] = FALSE]
    /\ befriended' = befriended \union {s}
    /\ Goes(s, "run", "insert")
    /\ UNCHANGED <<tables, ahead, broken, pool, reader, begun, reported, safe, faults>>

InsertFriend(s) ==
    /\ Goes(s, "insert", "insert2")
    /\ Write(logic[s].con, {Friend(logic[s].req)})
    /\ UNCHANGED <<state, pool, reader, history, faults>>

InsertFriendBack(s) ==
    /\ Goes(s, "insert2", "commit")
    /\ Write(logic[s].con, {FriendBack(logic[s].req)})
    /\ UNCHANGED <<state, pool, reader, history, faults>>

(* Everything the connection's transaction has written, by earlier         *)
(* requests too, is committed with the two rows.                           *)
Commit(s) ==
    /\ logic[s].at = "commit"
    /\ logic[s].con \notin broken
    /\ committed' = committed \union pending[logic[s].con]
    /\ EndTransactions({logic[s].con})
    /\ Wrote(s, {Friend(logic[s].req), FriendBack(logic[s].req)}, "return")
    /\ UNCHANGED <<state, pool, reader, history, faults>>

(* An exception in AddFriend is followed by a rollback. *)
AfterException(s) == IF logic[s].call = "AddFriend" THEN "rollback" ELSE "return"

(* The rows that the next statement writes. *)
Wants(s) == LET r == logic[s].req IN
    CASE At(s, "run", "AddFriendApply") -> {Row(Applied(r))}
      [] At(s, "run", "AuthFriendApply") -> {Row(Answered(r))}
      [] logic[s].at = "insert" -> {Row(Friend(r))}
      [] logic[s].at = "insert2" -> {Row(FriendBack(r))}
      [] OTHER -> {}

(* A statement throws: the connection is lost, a lock is not to be had, or *)
(* for another reason.  The victim of a circle of waits has its            *)
(* transaction rolled back.                                                *)
StatementFails(s) ==
    /\ logic[s].at \in {"run", "insert", "insert2"}
    /\ logic' = [logic EXCEPT ![s].at = AfterException(s)]
    /\ LET c == logic[s].con  expected == c \in broken \/ ~Unlocked(c, Wants(s)) IN
         /\ expected \/ faults < MaxFaults
         /\ faults' = IF expected THEN faults ELSE faults + 1
         /\ EndTransactions({}) \/ EndTransactions({c})
    /\ UNCHANGED <<committed, state, pool, reader, history>>

(* A commit throws: the connection is lost, and MySQL has got the commit   *)
(* or not.                                                                 *)
CommitFails(s) ==
    /\ Goes(s, "commit", "rollback")
    /\ logic[s].con \in broken \/ faults < MaxFaults
    /\ faults' = IF logic[s].con \in broken THEN faults ELSE faults + 1
    /\ broken' = broken \union {logic[s].con}
    /\ committed' \in {committed, committed \union pending[logic[s].con]}
    /\ EndTransactions({logic[s].con})
    /\ UNCHANGED <<ahead, auto, pool, reader, history>>

(* On a lost connection rollback() may return or throw. *)
Rollback(s) ==
    /\ Goes(s, "rollback", "return")
    /\ EndTransactions({logic[s].con})
    /\ UNCHANGED <<committed, state, pool, reader, history, faults>>

-----------------------------------------------------------------------------
(* The requests to the user, the oldest ListLimit of them. *)
GetApplyList(s) ==
    /\ At(s, "run", "GetApplyList")
    /\ LET c == logic[s].con  u == From[logic[s].req]  F == View(c) IN
         /\ c \notin broken
         /\ logic' = [logic EXCEPT ![s].at = "return",
                ![s].list = {f \in ApplyRows(F, u) : Older(F, f) < ListLimit}]
         /\ snapshot' = SnapshotAfterRead(c)
    /\ UNCHANGED <<committed, pending, locks, state, pool, reader, history, faults>>

(* The friends are looked up one by one over a second connection, while    *)
(* the first is kept.                                                      *)
GetFriendList(s) ==
    /\ At(s, "run", "GetFriendList")
    /\ LET c == logic[s].con  u == From[logic[s].req]
           friends == {v \in Users : <<"friend", u, v>> \in View(c)} IN
         /\ c \notin broken
         /\ logic' = [logic EXCEPT ![s].left = friends,
                                   ![s].at = IF friends = {} THEN "return" ELSE "getuser"]
         /\ snapshot' = SnapshotAfterRead(c)
    /\ UNCHANGED <<committed, pending, locks, state, pool, reader, history, faults>>

GetUserTakes(s) ==
    /\ logic[s].at = "getuser"
    /\ pool[s] # <<>>
    /\ logic' = [logic EXCEPT ![s].at = "user", ![s].con2 = Head(pool[s])]
    /\ pool' = [pool EXCEPT ![s] = Tail(@)]
    /\ UNCHANGED <<tables, state, reader, history, faults>>

Reads(c) == snapshot' = IF c \in broken THEN snapshot ELSE SnapshotAfterRead(c)

GetUserReturns(s) ==
    /\ logic[s].at = "user"
    /\ Reads(logic[s].con2)
    /\ pool' = [pool EXCEPT ![s] = Append(@, logic[s].con2)]
    /\ \E v \in logic[s].left :
         logic' = [logic EXCEPT ![s].left = @ \ {v}, ![s].con2 = NoConn,
                                ![s].at = IF logic[s].left = {v} THEN "return" ELSE "getuser"]
    /\ UNCHANGED <<committed, pending, locks, state, reader, history, faults>>

(* ChatServiceImpl::GetBaseInfo, on a gRPC thread. *)
ReaderTakes(s) ==
    /\ s \in Readers /\ reader[s] = NoConn
    /\ pool[s] # <<>>
    /\ reader' = [reader EXCEPT ![s] = Head(pool[s])]
    /\ pool' = [pool EXCEPT ![s] = Tail(@)]
    /\ UNCHANGED <<tables, state, logic, history, faults>>

ReaderReturns(s) ==
    /\ reader[s] # NoConn
    /\ Reads(reader[s])
    /\ reader' = [reader EXCEPT ![s] = NoConn]
    /\ pool' = [pool EXCEPT ![s] = Append(@, reader[s])]
    /\ UNCHANGED <<committed, pending, locks, state, logic, history, faults>>

-----------------------------------------------------------------------------
(* A connection is lost: MySQL rolls its transaction back. *)
Breaks(c) ==
    /\ c \notin broken /\ faults < MaxFaults
    /\ faults' = faults + 1
    /\ broken' = broken \union {c}
    /\ EndTransactions({c})
    /\ UNCHANGED <<committed, ahead, auto, pool, logic, reader, history>>

InPool(s) == {pool[s][i] : i \in DOMAIN pool[s]}

(* CheckConnection replaces the lost connections it finds in the pool. *)
CheckConnection(s) ==
    /\ InPool(s) \intersect broken # {}
    /\ broken' = broken \ InPool(s)
    /\ auto' = [c \in Conns |-> auto[c] \/ c \in InPool(s) \intersect broken]
    /\ UNCHANGED <<tables, ahead, pool, logic, reader, history, faults>>

(* The process ends and is started again. *)
Restart(s) ==
    /\ auto' = [c \in Conns |-> auto[c] \/ c \in ConnsOf(s)]
    /\ broken' = broken \ ConnsOf(s)
    /\ EndTransactions(ConnsOf(s))
    /\ pool' = [pool EXCEPT ![s] = FreshPool(s)]
    /\ logic' = [logic EXCEPT ![s] = Idle]
    /\ reader' = [reader EXCEPT ![s] = NoConn]
    /\ befriended' = befriended \ {s}
    /\ UNCHANGED <<committed, ahead, begun, reported, safe>>

Crash(s) == faults < MaxFaults /\ faults' = faults + 1 /\ Restart(s)

(* An exception nobody catches: rollback() of AddFriend, or connect() of   *)
(* CheckConnection, each inside a catch clause, throws.                    *)
Terminates(s) ==
    /\ \/ logic[s].at = "rollback" /\ logic[s].con \in broken
       \/ InPool(s) \intersect broken # {}
    /\ Restart(s)
    /\ UNCHANGED faults

-----------------------------------------------------------------------------
Statement(s) ==
    \/ AddFriendApply(s) \/ AuthFriendApply(s)
    \/ SetAutoCommit(s) \/ InsertFriend(s) \/ InsertFriendBack(s)
    \/ Commit(s) \/ CommitFails(s) \/ Rollback(s)
    \/ GetApplyList(s) \/ GetFriendList(s) \/ GetUserReturns(s)
    \/ StatementFails(s)

Gets(s) == GetConnection(s) \/ GetUserTakes(s)

Next ==
    \/ \E s \in Servers :
          \/ \E r \in Requests : Begin(s, r)
          \/ Gets(s) \/ Statement(s) \/ ReturnConnection(s)
          \/ ReaderTakes(s) \/ ReaderReturns(s)
          \/ CheckConnection(s) \/ Crash(s) \/ Terminates(s)
    \/ \E c \in Conns : Breaks(c)

(* Threads run, a statement ends if only by a timeout, and a thread that   *)
(* waits for a connection gets one that is returned again and again.       *)
Fairness == \A s \in Servers :
    /\ WF_vars(Statement(s)) /\ WF_vars(ReturnConnection(s))
    /\ SF_vars(Gets(s)) /\ WF_vars(ReaderReturns(s))

Spec == Init /\ [][Next]_vars
FairSpec == Spec /\ Fairness

-----------------------------------------------------------------------------
LogicStates ==
    [at : {"idle", "get", "run", "insert", "insert2", "commit", "rollback",
           "getuser", "user", "return"},
     call : {"none", "AddFriendApply", "AuthFriendApply", "AddFriend",
             "GetApplyList", "GetFriendList"},
     req : Requests \union {NoReq},
     con : Conns \union {NoConn}, con2 : Conns \union {NoConn},
     wrote : SUBSET Facts, list : SUBSET Facts, left : SUBSET Users]

TypeOK ==
    /\ committed \subseteq Facts
    /\ ahead \in [Users \X Users -> SUBSET Users]
    /\ auto \in [Conns -> BOOLEAN]
    /\ pending \in [Conns -> SUBSET Facts]
    /\ locks \in [Conns -> SUBSET Rows(Facts)]
    /\ snapshot \in [Conns -> SUBSET SUBSET Facts]
    /\ broken \subseteq Conns
    /\ pool \in [Servers -> Seq(Conns)]
    /\ logic \in [Servers -> LogicStates]
    /\ reader \in [Servers -> Conns \union {NoConn}]
    /\ begun \subseteq Requests
    /\ reported \subseteq Facts /\ safe \subseteq Facts
    /\ befriended \subseteq Servers
    /\ faults \in 0..MaxFaults

(* Friendship is mutual in the tables, at every moment, whatever fails     *)
(* between the two inserts of AddFriend, however many servers confirm the  *)
(* same two users at once, and whatever earlier requests have left in the  *)
(* transaction; and no connection goes back to the pool with half of it.   *)
FriendsBothWays ==
    /\ \A u, v \in Users : <<"friend", u, v>> \in committed => <<"friend", v, u>> \in committed
    /\ \A s \in Servers : \A c \in InPool(s), u, v \in Users : <<"friend", u, v>> \notin pending[c]

(* What a server reports before its first friendship since its start is in *)
(* the tables for good, whatever happens to it or the others afterwards:   *)
(* none of its connections has auto-commit off.  ChatRouting takes this    *)
(* for granted of its rows.                                                *)
DurableUntilFriendship == safe \subseteq committed

(* A login on such a server lists all such friend requests to its user,    *)
(* written by any server, as long as they are among the ListLimit oldest   *)
(* in the table; the list has no place for the others.                     *)
ListsAreCurrent ==
    [][\A s \in Servers : GetApplyList(s) /\ s \notin befriended =>
         {f \in ApplyRows(safe, From[logic[s].req]) : Older(committed, f) < ListLimit}
             \subseteq logic'[s].list]_vars

(* Every connection of a server is in its pool or with one of its threads, *)
(* and in one place only, also on the error paths.                         *)
Holders(s) == {logic[s].con, logic[s].con2, reader[s]} \ {NoConn}
ConnectionsConserved == \A s \in Servers :
    /\ InPool(s) \union Holders(s) = ConnsOf(s)
    /\ InPool(s) \intersect Holders(s) = {}
    /\ \A i, j \in DOMAIN pool[s] : pool[s][i] = pool[s][j] => i = j
    /\ logic[s].con # NoConn => logic[s].con \notin {logic[s].con2, reader[s]}
    /\ logic[s].con2 # NoConn => logic[s].con2 # reader[s]

(* No handler hangs: neither on the second connection of GetFriendList nor *)
(* on rows that other servers have locked.                                 *)
RequestsEnd == \A s \in Servers : logic[s].at # "idle" ~> logic[s].at = "idle"

(* LogicSystem.cpp:276, "add it to MySQL directly", and :374, "first       *)
(* update the database": when a request is answered and its user notified, *)
(* what was written is in the tables.                                      *)
UpdatedFirst == reported \subseteq committed
=============================================================================
