----------------------------- MODULE GateServer -----------------------------
(***************************************************************************)
(* The gate server's requests for a code, a registration and a new         *)
(* password (GateServer/LogicSystem.cpp, MySqlPool.cpp), the verification  *)
(* server that makes the codes (VarifyServer/server.js, redis.js) and the  *)
(* first half of /user_login; FrontDoor has its second half.               *)
(*                                                                         *)
(* An accepted HTTP connection belongs to the io_context of one thread,    *)
(* and a handler keeps that thread until it has answered: it waits there   *)
(* for a pooled connection and for RPCs without a deadline.  The           *)
(* verification server is one node process whose requests interleave at    *)
(* every await.  One command to Redis or MySQL is one step.                *)
(*                                                                         *)
(* Left out: requests that do not parse (they are answered at once), the   *)
(* pools of gRPC stubs and of Redis connections in use (a thread returns   *)
(* what it uses before it waits again, so they only delay), CheckConnection*)
(* and Close.  Two codes are never equal, as if they had all the digits of *)
(* the uuid they are cut from.  A person types a code that was mailed to   *)
(* somebody, or 0, a wrong one.                                            *)
(***************************************************************************)
EXTENDS Integers, Sequences, FiniteSets

CONSTANTS
    Devices,            \* whoever sends HTTP requests, one at a time each
    Names, Emails, Passwords,
    Threads,            \* threads of AsioIOServicePool
    SqlPool, RedisPool, \* connections of the gate's pools, 5 and 5 in the program
    Tables,             \* the user tables to start from
    Budgets,            \* bounds: how often each kind of step may happen
    NoRow, NoThread, NoAsk

Kinds == {"code", "register", "reset", "login"}
Asks == [kind : Kinds, name : Names, email : Emails, code : Nat, pwd : Passwords]
Rows == [email : Emails, pwd : Passwords, proof : Nat]
Bounds == Kinds \cup {"fault", "outage"}

ASSUME GateAssumption ==
    /\ IsFiniteSet(Devices)
    /\ Names # {} /\ Passwords # {}
    /\ SqlPool \in Nat /\ RedisPool \in Nat
    /\ NoRow \notin Rows /\ NoAsk \notin Asks /\ NoThread \notin Threads
    /\ Tables \subseteq [Names -> Rows \cup {NoRow}]
    /\ \A T \in Tables, n \in Names : T[n] # NoRow => T[n].proof = 0
    /\ Budgets \subseteq [Bounds -> Nat]

VARIABLES
    stage,      \* how far each device's request has come
    ask,        \* the request
    thread,     \* the thread whose io_context has its connection
    table,      \* MySQL's user table; proof is the code its password came with
    idle,       \* connections in the gate's MySQL pool
    redis,      \* connections left in the gate's Redis pool
    store,      \* Redis: code_<email>, 0 when there is none
    expires,    \* whether that key has an expiry
    nodeRedis,  \* whether the verification server's Redis client works
    budget,     \* what is left of the bounds
    \* history
    issued,     \* the addresses of the codes stored so far, in order
    seen,       \* how many there were when a request looked for one
    mails,      \* <<address, code>> mailed
    unfinished, \* addresses whose SET was not followed by its EXPIRE
    lost        \* MySQL connections never given back

pools == <<idle, redis, lost>>
codes == <<store, expires, nodeRedis, issued, seen, mails, unfinished>>
gateVars == <<stage, ask, thread, table, pools, codes, budget>>

(* Stages in which the verification server handles a request, in which the *)
(* gate's handler has a MySQL connection, and in which it has a thread.    *)
NodeStages == {"look", "set", "expire", "mail"}
Holding == {"insert", "email", "update", "check"}
Waiting == {"wait insert", "wait email", "wait update", "wait check"}
GateStages == NodeStages \cup Holding \cup Waiting
              \cup {"compare", "choose", "poll", "issue", "reply"}
InGate(d) == stage[d] \in GateStages

Spend(b) == budget[b] > 0 /\ budget' = [budget EXCEPT ![b] = @ - 1]

(* From one stage to the next, with the request a.  A request that has been*)
(* answered leaves its thread.                                             *)
GoWith(d, from, to, a) ==
    /\ stage[d] = from
    /\ stage' = [stage EXCEPT ![d] = to]
    /\ ask' = [ask EXCEPT ![d] = IF to = "away" THEN NoAsk ELSE a]
    /\ thread' = IF to = "away" THEN [thread EXCEPT ![d] = NoThread] ELSE thread
Go(d, from, to) == GoWith(d, from, to, ask[d])
AllAnswered(D) ==
    /\ stage' = [d \in Devices |-> IF d \in D THEN "away" ELSE stage[d]]
    /\ ask' = [d \in Devices |-> IF d \in D THEN NoAsk ELSE ask[d]]
    /\ thread' = [d \in Devices |-> IF d \in D THEN NoThread ELSE thread[d]]

-----------------------------------------------------------------------------
(* An HTTP connection is accepted for some thread; the thread reads and    *)
(* handles the request when no other handler occupies it.                  *)
Accept(d, a, t) ==
    /\ Spend(a.kind)
    /\ stage[d] = "away" /\ stage' = [stage EXCEPT ![d] = "queued"]
    /\ ask' = [ask EXCEPT ![d] = a]
    /\ thread' = [thread EXCEPT ![d] = t]
    /\ UNCHANGED <<table, pools, codes>>

FirstStage ==
    [code |-> "look", register |-> "compare", reset |-> "compare", login |-> "wait check"]

ThreadFree(d) == \A e \in Devices : thread[e] = thread[d] => ~InGate(e)

HandleReq(d) ==
    /\ stage[d] = "queued"
    /\ ThreadFree(d)
    /\ Go(d, "queued", FirstStage[ask[d].kind])
    /\ UNCHANGED <<table, pools, codes, budget>>

(* Answered: the response is written, or its connection is gone by then.   *)
Answered == "away"

-----------------------------------------------------------------------------
(* The verification server.  GetRedis returns null for an absent key and   *)
(* for any error; a client whose connection failed has called quit().      *)
AlwaysNewCode(d) ==  \* mutant: the code in force is not looked for
    /\ GoWith(d, "look", "set", ask[d])
    /\ seen' = [seen EXCEPT ![d] = Len(issued)]
    /\ UNCHANGED <<table, pools, store, expires, nodeRedis, issued, mails, unfinished, budget>>

GetRedis(d) ==
    /\ stage[d] = "look"
    /\ LET found == IF nodeRedis THEN store[ask[d].email] ELSE 0 IN
       GoWith(d, "look", IF found = 0 THEN "set" ELSE "mail", [ask[d] EXCEPT !.code = found])
    /\ seen' = [seen EXCEPT ![d] = Len(issued)]
    /\ UNCHANGED <<table, pools, store, expires, nodeRedis, issued, mails,
                   unfinished, budget>>

(* SetRedisExpire: SET, which also removes an expiry, and then EXPIRE.     *)
ExpireThenSet(d) ==  \* mutant: EXPIRE first, which does nothing yet
    LET e == ask[d].email IN
    /\ nodeRedis
    /\ GoWith(d, "set", "mail", [ask[d] EXCEPT !.code = Len(issued) + 1])
    /\ issued' = Append(issued, e)
    /\ store' = [store EXCEPT ![e] = Len(issued) + 1]
    /\ expires' = [expires EXCEPT ![e] = FALSE]
    /\ UNCHANGED <<table, pools, nodeRedis, seen, mails, unfinished, budget>>

SetCode(d) ==
    LET e == ask[d].email IN
    /\ nodeRedis
    /\ GoWith(d, "set", "expire", [ask[d] EXCEPT !.code = Len(issued) + 1])
    /\ issued' = Append(issued, e)
    /\ store' = [store EXCEPT ![e] = Len(issued) + 1]
    /\ expires' = [expires EXCEPT ![e] = FALSE]
    /\ seen' = [seen EXCEPT ![d] = 0]
    /\ unfinished' = unfinished \ {e}
    /\ UNCHANGED <<table, pools, nodeRedis, mails, budget>>

Expire(d) ==
    LET e == ask[d].email IN
    /\ nodeRedis
    /\ Go(d, "expire", "mail")
    /\ expires' = [expires EXCEPT ![e] = store[e] # 0]
    /\ unfinished' = unfinished \ {e}
    /\ UNCHANGED <<table, pools, store, nodeRedis, issued, seen, mails, budget>>

(* The addresses of the requests in D that are between the two commands.   *)
CutOff(D) == {ask[d].email : d \in {x \in D : stage[x] = "expire"}}

RedisErr(d) ==
    /\ ~nodeRedis
    /\ stage[d] \in {"set", "expire"}
    /\ Go(d, stage[d], Answered)
    /\ unfinished' = unfinished \cup CutOff({d})
    /\ UNCHANGED <<table, pools, store, expires, nodeRedis, issued, seen, mails, budget>>

(* SendMail resolves, or rejects and the request ends with Exception.      *)
SendMail(d) ==
    /\ Go(d, "mail", Answered)
    /\ mails' \in {mails, mails \cup {<<ask[d].email, ask[d].code>>}}
    /\ UNCHANGED <<table, pools, store, expires, nodeRedis, issued, seen,
                   unfinished, budget>>

(* Ten minutes are over; the client loses Redis and quits; the process     *)
(* ends, its requests with it, and is started again.                       *)
CodeExpires(e) ==
    /\ expires[e]
    /\ store' = [store EXCEPT ![e] = 0]
    /\ expires' = [expires EXCEPT ![e] = FALSE]
    /\ UNCHANGED <<stage, ask, thread, table, pools, nodeRedis, issued, seen, mails,
                   unfinished, budget>>

NodeLosesRedis ==
    /\ Spend("fault")
    /\ nodeRedis /\ nodeRedis' = FALSE
    /\ UNCHANGED <<stage, ask, thread, table, pools, store, expires, issued, seen, mails,
                   unfinished>>

NodeRestarts ==
    /\ Spend("outage")
    /\ nodeRedis' = TRUE
    /\ AllAnswered({d \in Devices : stage[d] \in NodeStages})
    /\ unfinished' = unfinished \cup CutOff(Devices)
    /\ UNCHANGED <<table, pools, store, expires, issued, seen, mails>>

-----------------------------------------------------------------------------
(* /user_register and /reset_pwd read the code from Redis and compare it.  *)
(* A Get that fails, or finds no code, does not give its connection back.  *)
CompareCode(d) ==
    /\ redis > 0
    /\ stage[d] = "compare"
    /\ \E c \in {store[ask[d].email], 0} :
        /\ IF c = store[ask[d].email] THEN UNCHANGED budget ELSE Spend("fault")
        /\ redis' = IF c = 0 THEN redis - 1 ELSE redis
        /\ Go(d, "compare", IF c = 0 \/ c # ask[d].code THEN Answered
                            ELSE IF ask[d].kind = "register" THEN "wait insert"
                            ELSE "wait email")
    /\ UNCHANGED <<table, idle, lost, codes>>

(* GetConnection of the gate's MySqlPool.                                  *)
Wanted == [w \in Waiting |->
    CASE w = "wait insert" -> "insert" [] w = "wait email" -> "email"
      [] w = "wait update" -> "update" [] OTHER -> "check"]

GetConnection(d) ==
    /\ stage[d] \in Waiting
    /\ idle > 0 /\ idle' = idle - 1
    /\ Go(d, stage[d], Wanted[stage[d]])
    /\ UNCHANGED <<table, redis, lost, codes, budget>>

(* A statement is done, its connection returned and the handler goes on.   *)
ReturnConnection(d, from, to) ==
    /\ Go(d, from, to)
    /\ idle' = idle + 1
    /\ UNCHANGED <<redis, lost, codes>>

RowOf(a) == [email |-> a.email, pwd |-> a.pwd, proof |-> a.code]
Taken(a) == \/ table[a.name] # NoRow
            \/ \E n \in Names : table[n] # NoRow /\ table[n].email = a.email

(* RegUser: the procedure reg_user (external) inserts the user unless his  *)
(* name or address is taken.  An exception may come before or after it.    *)
RegUser(d) ==
    /\ ReturnConnection(d, "insert", Answered)
    /\ \/ /\ table' = IF Taken(ask[d]) THEN table
                      ELSE [table EXCEPT ![ask[d].name] = RowOf(ask[d])]
          /\ UNCHANGED budget
       \/ Spend("fault") /\ UNCHANGED table

(* CheckEmail: for an unknown name the loop has no turn and the function   *)
(* returns without giving the connection back.                             *)
LosesConnection(d) ==
    /\ table[ask[d].name] = NoRow
    /\ Go(d, "email", Answered)
    /\ lost' = lost + 1
    /\ UNCHANGED <<table, idle, redis, codes, budget>>

AnyEmail(d) ==  \* mutant: the row's address is not compared
    /\ stage[d] = "email"
    /\ \/ /\ table[ask[d].name] # NoRow
          /\ ReturnConnection(d, "email", "wait update")
          /\ UNCHANGED <<table, budget>>
       \/ LosesConnection(d)

KeepsOnMismatch(d) ==  \* mutant: a mismatch forgets the connection as well
    /\ stage[d] = "email"
    /\ \/ /\ table[ask[d].name] # NoRow
          /\ IF table[ask[d].name].email = ask[d].email
             THEN ReturnConnection(d, "email", "wait update")
             ELSE Go(d, "email", Answered) /\ UNCHANGED <<pools, codes>>
          /\ UNCHANGED <<table, budget>>
       \/ LosesConnection(d)

CheckEmail(d) ==
    /\ stage[d] = "email"
    /\ \/ /\ table[ask[d].name] # NoRow
          /\ ReturnConnection(d, "email",
                 IF table[ask[d].name].email = ask[d].email THEN "wait update" ELSE Answered)
          /\ UNCHANGED <<table, budget>>
       \/ LosesConnection(d)
       \/ /\ Spend("fault")
          /\ ReturnConnection(d, "email", Answered)
          /\ UNCHANGED table

UpdatePwd(d) ==
    LET a == ask[d] IN
    /\ ReturnConnection(d, "update", Answered)
    /\ \/ /\ table' = [table EXCEPT ![a.name] =
                  IF @ = NoRow THEN NoRow ELSE [@ EXCEPT !.pwd = a.pwd, !.proof = a.code]]
          /\ UNCHANGED budget
       \/ Spend("fault") /\ UNCHANGED table

(* /user_login: CheckPwd finds the user by his address.                    *)
PwdValid(a) ==
    \E n \in Names : table[n] # NoRow /\ table[n].email = a.email /\ table[n].pwd = a.pwd

CheckPwd(d) ==
    /\ stage[d] = "check"
    /\ UNCHANGED table
    /\ \/ /\ ReturnConnection(d, "check", IF PwdValid(ask[d]) THEN "choose" ELSE Answered)
          /\ UNCHANGED budget
       \/ Spend("fault") /\ ReturnConnection(d, "check", Answered)

-----------------------------------------------------------------------------
GateInit ==
    /\ stage = [d \in Devices |-> "away"]
    /\ ask = [d \in Devices |-> NoAsk]
    /\ thread = [d \in Devices |-> NoThread]
    /\ table \in Tables
    /\ idle = SqlPool /\ redis = RedisPool /\ lost = 0
    /\ store = [e \in Emails |-> 0]
    /\ expires = [e \in Emails |-> FALSE]
    /\ nodeRedis = TRUE
    /\ budget \in Budgets
    /\ issued = <<>> /\ mails = {} /\ unfinished = {}
    /\ seen = [d \in Devices |-> 0]

(* The fields a handler does not read are fixed.                           *)
Requests ==
    LET n == CHOOSE x \in Names : TRUE
        p == CHOOSE x \in Passwords : TRUE
        known == {0} \cup {m[2] : m \in mails} IN
    {[kind |-> "code", name |-> n, email |-> e, code |-> 0, pwd |-> p] : e \in Emails}
    \cup [kind : {"register", "reset"}, name : Names, email : Emails, code : known,
          pwd : Passwords]
    \cup [kind : {"login"}, name : {n}, email : Emails, code : {0}, pwd : Passwords]

GateStep(d) ==
    \/ HandleReq(d)
    \/ GetRedis(d) \/ SetCode(d) \/ Expire(d) \/ RedisErr(d) \/ SendMail(d)
    \/ CompareCode(d) \/ GetConnection(d)
    \/ RegUser(d) \/ CheckEmail(d) \/ UpdatePwd(d) \/ CheckPwd(d)

GateEvent ==
    \/ \E d \in Devices, a \in Requests, t \in Threads : Accept(d, a, t)
    \/ \E e \in Emails : CodeExpires(e)
    \/ NodeLosesRedis \/ NodeRestarts
=============================================================================
