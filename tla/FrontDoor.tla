----------------------------- MODULE FrontDoor ------------------------------
(***************************************************************************)
(* The way in: the gate server and its helpers (GateServer), the status    *)
(* server that chooses a chat server by the LOGIN_COUNT of each and issues *)
(* a token (StatusServer/StatusServiceImpl.cpp), and the chat servers,     *)
(* which check the token, count the login (ChatServer/LogicSystem.cpp,     *)
(* LoginHandler) and set and delete their counter as they start and stop   *)
(* (ChatServer.cpp).                                                       *)
(*                                                                         *)
(* Left out: what else a login reads and writes (ChatSession, ChatRouting  *)
(* and SqlDao have it), connections whose end the server notices, and the  *)
(* RPC Login of the status server, which nothing calls.                    *)
(***************************************************************************)
EXTENDS GateServer

CONSTANTS
    Order,      \* the chat servers in the order in which _servers yields them
    StatusPool, \* Redis connections of the status server, 5 in the program
    NoCount, NoTicket

Servers == {Order[i] : i \in 1..Len(Order)}
IntMax == 2147483647
Tickets == [name : Names, token : Nat, stored : BOOLEAN, server : Servers]
States == {"up", "stopping", "dropped", "down"}

ASSUME FrontDoorAssumption ==
    /\ Order \in Seq(Servers) /\ Order # <<>> /\ StatusPool \in Nat
    /\ NoAsk \notin Devices /\ NoTicket \notin Tickets /\ NoCount \notin Nat

VARIABLES
    token,      \* Redis: utoken_<uid>, 0 when there is none
    statusRedis, \* connections left in the status server's Redis pool
    count,      \* Redis: the field of each chat server in LOGIN_COUNT
    poll,       \* GetChatServer under _mtx: next server, the best so far, its count
    ticket,     \* what the gate's reply gives the client
    own,        \* the count that a LoginHandler has read
    up,         \* the chat servers' processes
    \* history
    tokens,     \* how many tokens were generated
    logins,     \* logins a chat server has counted since its start
    steady,     \* no chat server has stopped and nothing has failed so far
    miscounted, \* servers that had a command on their counter fail since
    late        \* servers whose counter may have outlived them: they crashed,
                \* their HDEL failed, or a login was under way when they made it

doorVars == <<token, statusRedis, count, poll, ticket, own, up, tokens, logins, steady,
              miscounted, late>>
vars == <<gateVars, doorVars>>

Handling == {"token", "count", "bump"}
AtServer(s) == {d \in Devices : stage[d] \in {"posted", "in"} \cup Handling
                                /\ ticket[d].server = s}
UnderWay(s) == {d \in AtServer(s) : stage[d] # "in"}
gateRest == <<table, pools, codes>>

-----------------------------------------------------------------------------
(* GetChatServer of the status server, one at a time: it reads the counters*)
(* one by one; a server without one counts as INT_MAX, and so does one     *)
(* whose HGET fails.  Each takes a Redis connection and gives it back; if  *)
(* there is none left, it waits for ever, and keeps _mtx.  Or the RPC      *)
(* fails.                                                                  *)
Idle == [d |-> NoAsk, next |-> 0, best |-> 0, low |-> 0]

StartPoll(d) ==
    /\ poll = Idle
    /\ Go(d, "choose", "poll")
    /\ poll' = [d |-> d, next |-> 1, best |-> 0, low |-> 0]
    /\ UNCHANGED <<gateRest, budget, token, statusRedis, count, ticket, own, up,
                   tokens, logins, steady, miscounted, late>>

RpcFails(d) ==
    /\ Spend("fault")
    /\ Go(d, "choose", Answered)
    /\ UNCHANGED <<gateRest, doorVars>>

Weight(c) == IF c = NoCount THEN IntMax ELSE c

FullestServer(d) ==  \* mutant: the comparison of the counts turned round
    LET w == Weight(count[Order[poll.next]]) IN
    /\ stage[d] = "poll" /\ poll.d = d /\ poll.next <= Len(Order)
    /\ poll' = IF poll.best = 0 \/ w > poll.low
               THEN [poll EXCEPT !.next = @ + 1, !.best = poll.next, !.low = w]
               ELSE [poll EXCEPT !.next = @ + 1]
    /\ UNCHANGED <<stage, ask, thread, gateRest, budget, token, statusRedis, count,
                   ticket, own, up, tokens, logins, steady, miscounted, late>>

ReadCount(d) ==
    /\ stage[d] = "poll" /\ poll.d = d /\ poll.next <= Len(Order)
    /\ statusRedis > 0
    /\ \E w \in {Weight(count[Order[poll.next]]), IntMax} :
           /\ IF w = Weight(count[Order[poll.next]])
              THEN UNCHANGED <<budget, steady>>
              ELSE Spend("fault") /\ steady' = FALSE
           /\ poll' = IF poll.best = 0 \/ w < poll.low
                      THEN [poll EXCEPT !.next = @ + 1, !.best = poll.next, !.low = w]
                      ELSE [poll EXCEPT !.next = @ + 1]
    /\ UNCHANGED <<stage, ask, thread, gateRest, token, statusRedis, count, ticket,
                   own, up, tokens, logins, miscounted, late>>

UserOf(a) == CHOOSE n \in Names : table[n] # NoRow /\ table[n].email = a.email

KeepsLock(d) ==  \* mutant: _mtx is not released
    /\ poll.d = d /\ poll.next > Len(Order)
    /\ Go(d, "poll", "issue")
    /\ ticket' = [ticket EXCEPT ![d] = [name |-> UserOf(ask[d]), token |-> 0,
                                        stored |-> FALSE, server |-> Order[poll.best]]]
    /\ UNCHANGED <<gateRest, budget, token, statusRedis, count, poll, own, up, tokens,
                   logins, steady, miscounted, late>>

Choose(d) ==
    /\ poll.d = d /\ poll.next > Len(Order)
    /\ Go(d, "poll", "issue")
    /\ ticket' = [ticket EXCEPT ![d] = [name |-> UserOf(ask[d]), token |-> 0,
                                        stored |-> FALSE, server |-> Order[poll.best]]]
    /\ poll' = Idle
    /\ UNCHANGED <<gateRest, budget, token, statusRedis, count, own, up, tokens,
                   logins, steady, miscounted, late>>

(* InsertToken: the result of the SET is not looked at, and one that fails *)
(* does not give its Redis connection back.                                *)
InsertToken(d) ==
    LET t == tokens + 1  n == ticket[d].name IN
    /\ Go(d, "issue", "reply")
    /\ statusRedis > 0
    /\ tokens' = t
    /\ \/ /\ token' = [token EXCEPT ![n] = t]
          /\ ticket' = [ticket EXCEPT ![d].token = t, ![d].stored = TRUE]
          /\ UNCHANGED <<budget, statusRedis>>
       \/ /\ Spend("fault")
          /\ ticket' = [ticket EXCEPT ![d].token = t]
          /\ statusRedis' = statusRedis - 1
          /\ UNCHANGED token
    /\ UNCHANGED <<gateRest, count, poll, own, up, logins, steady,
                   miscounted, late>>

(* The gate answers, and the client has host, port and token.              *)
Reply(d) ==
    /\ stage[d] = "reply" /\ stage' = [stage EXCEPT ![d] = "ticket"]
    /\ ask' = [ask EXCEPT ![d] = NoAsk] /\ thread' = [thread EXCEPT ![d] = NoThread]
    /\ UNCHANGED <<gateRest, budget, doorVars>>

-----------------------------------------------------------------------------
(* The client connects and its login waits in the server's logic queue; or *)
(* nobody listens; or it has given up, or ends its connection.             *)
GoOrLeave(d, from, to) ==
    /\ Go(d, from, to)
    /\ ticket' = IF to = "away" THEN [ticket EXCEPT ![d] = NoTicket] ELSE ticket
    /\ UNCHANGED <<gateRest, budget, token, statusRedis, count, poll, own, up, tokens,
                   logins, steady, miscounted, late>>

Connect(d) ==
    /\ stage[d] = "ticket"
    /\ GoOrLeave(d, "ticket", IF up[ticket[d].server] = "up" THEN "posted" ELSE "away")

Leave(d) == stage[d] \in {"ticket", "in"} /\ GoOrLeave(d, stage[d], "away")

(* LoginHandler, on the logic thread, one login at a time.                 *)
StartLogin(d) ==
    /\ GoOrLeave(d, "posted", "token")
    /\ \A e \in AtServer(ticket[d].server) : stage[e] \notin Handling

TokenUsedOnce(d) ==  \* mutant: whoever comes with a token uses it up
    /\ stage[d] = "token"
    /\ Go(d, "token", IF token[ticket[d].name] = ticket[d].token THEN "count" ELSE "away")
    /\ token' = [token EXCEPT ![ticket[d].name] = 0]
    /\ UNCHANGED <<gateRest, budget, statusRedis, count, poll, ticket, own, up,
                   tokens, logins, steady, miscounted, late>>

CheckToken(d) ==
    /\ stage[d] = "token"
    /\ GoOrLeave(d, "token", IF token[ticket[d].name] = ticket[d].token THEN "count" ELSE "away")

CommandFails(s) == Spend("fault") /\ steady' = FALSE /\ miscounted' = miscounted \cup {s}

(* HGET, where an absent field, or a failure, gives 0; then HSET.          *)
ReadOwnCount(d) ==
    LET c == count[ticket[d].server] IN
    /\ Go(d, "count", "bump")
    /\ \/ own' = [own EXCEPT ![d] = IF c = NoCount THEN 0 ELSE c]
          /\ UNCHANGED <<budget, steady, miscounted>>
       \/ own' = [own EXCEPT ![d] = 0] /\ CommandFails(ticket[d].server)
    /\ UNCHANGED <<gateRest, token, statusRedis, count, poll, ticket, up, tokens,
                   logins, late>>

CountLogin(d) ==
    LET s == ticket[d].server IN
    /\ Go(d, "bump", "in")
    /\ own' = [own EXCEPT ![d] = 0]
    /\ \/ /\ count' = [count EXCEPT ![s] = own[d] + 1]
          /\ logins' = [logins EXCEPT ![s] = @ + 1]
          /\ UNCHANGED <<budget, steady, miscounted>>
       \/ CommandFails(s) /\ UNCHANGED <<count, logins>>
    /\ UNCHANGED <<gateRest, token, statusRedis, poll, ticket, up, tokens, late>>

-----------------------------------------------------------------------------
(* A chat server starts with HSET 0.  Stopped by a signal, it accepts      *)
(* nobody any more and waits for the threads of its io_contexts, which run *)
(* as long as a client is connected (AsioServicePool::Stop joins them),    *)
(* deletes its counter, and ends.  The logic thread goes on meanwhile with *)
(* logins whose clients have left.  The results of HSET and HDEL are not   *)
(* looked at.  Or the server crashes.  The devices it served are cut off.  *)
CutDevices(s) ==
    /\ AllAnswered(AtServer(s))
    /\ ticket' = [d \in Devices |-> IF d \in AtServer(s) THEN NoTicket ELSE ticket[d]]
    /\ own' = [d \in Devices |-> IF d \in AtServer(s) THEN 0 ELSE own[d]]

KeepsOldCount(s) ==  \* mutant: no HSET 0 at the start
    /\ up[s] = "down" /\ up' = [up EXCEPT ![s] = "up"]
    /\ logins' = [logins EXCEPT ![s] = 0]
    /\ late' = late \ {s} /\ miscounted' = miscounted \ {s}
    /\ UNCHANGED <<stage, ask, thread, gateRest, budget, token, statusRedis, count,
                   poll, ticket, own, tokens, steady>>

StartServer(s) ==
    /\ up[s] = "down" /\ up' = [up EXCEPT ![s] = "up"]
    /\ \/ /\ count' = [count EXCEPT ![s] = 0] /\ miscounted' = miscounted \ {s}
          /\ UNCHANGED <<budget, steady>>
       \/ CommandFails(s) /\ UNCHANGED count
    /\ logins' = [logins EXCEPT ![s] = 0]
    /\ late' = late \ {s}
    /\ UNCHANGED <<stage, ask, thread, gateRest, token, statusRedis, poll, ticket, own, tokens>>

StopServer(s) ==
    /\ Spend("outage")
    /\ up[s] = "up" /\ up' = [up EXCEPT ![s] = "stopping"]
    /\ steady' = FALSE
    /\ UNCHANGED <<stage, ask, thread, gateRest, token, statusRedis, count, poll,
                   ticket, own, tokens, logins, miscounted, late>>

DropCount(s) ==
    /\ up[s] = "stopping" /\ up' = [up EXCEPT ![s] = "dropped"]
    /\ \A d \in AtServer(s) : stage[d] # "in"
    /\ \/ /\ count' = [count EXCEPT ![s] = NoCount]
          /\ late' = IF UnderWay(s) = {} THEN late ELSE late \cup {s}
          /\ UNCHANGED budget
       \/ /\ Spend("fault")
          /\ late' = late \cup {s}
          /\ UNCHANGED count
    /\ UNCHANGED <<stage, ask, thread, gateRest, token, statusRedis, poll, ticket, own, tokens,
                   logins, steady, miscounted>>

EndServer(s) ==
    /\ up[s] = "dropped" /\ up' = [up EXCEPT ![s] = "down"]
    /\ CutDevices(s)
    /\ UNCHANGED <<gateRest, budget, token, statusRedis, count, poll, tokens, logins,
                   steady, miscounted, late>>

CrashServer(s) ==
    /\ Spend("outage")
    /\ up[s] \in {"up", "stopping"} /\ up' = [up EXCEPT ![s] = "down"]
    /\ CutDevices(s)
    /\ steady' = FALSE
    /\ late' = late \cup {s}
    /\ UNCHANGED <<gateRest, token, statusRedis, count, poll, tokens, logins,
                   miscounted>>

-----------------------------------------------------------------------------
Init ==
    /\ GateInit
    /\ token = [n \in Names |-> 0]
    /\ statusRedis = StatusPool
    /\ count = [s \in Servers |-> 0]
    /\ poll = Idle
    /\ ticket = [d \in Devices |-> NoTicket]
    /\ own = [d \in Devices |-> 0]
    /\ up = [s \in Servers |-> "up"]
    /\ tokens = 0
    /\ logins = [s \in Servers |-> 0]
    /\ steady = TRUE
    /\ miscounted = {} /\ late = {}

DeviceStep(d) ==
    \/ GateStep(d) /\ UNCHANGED doorVars
    \/ StartPoll(d) \/ ReadCount(d) \/ Choose(d) \/ InsertToken(d) \/ Reply(d)
    \/ Connect(d) \/ StartLogin(d) \/ CheckToken(d) \/ ReadOwnCount(d) \/ CountLogin(d)

ServerStep(s) == StartServer(s) \/ StopServer(s) \/ DropCount(s) \/ EndServer(s) \/ CrashServer(s)

Next ==
    \/ \E d \in Devices : DeviceStep(d) \/ Leave(d) \/ RpcFails(d)
    \/ GateEvent /\ UNCHANGED doorVars
    \/ \E s \in Servers : ServerStep(s)

Spec == Init /\ [][Next]_vars

-----------------------------------------------------------------------------
PollOK ==
    \/ poll = Idle
    \/ /\ poll \in [d : Devices, next : 1..(Len(Order) + 1), best : 0..Len(Order), low : Nat]
       /\ stage[poll.d] = "poll"
       /\ IF poll.next = 1 THEN poll.best = 0 ELSE poll.best \in 1..(poll.next - 1)

Stages == {"away", "queued", "ticket", "posted", "in"} \cup GateStages \cup Handling
Holders == {"issue", "reply", "ticket", "posted", "in"} \cup Handling

GateTypeOK ==
    /\ stage \in [Devices -> Stages]
    /\ ask \in [Devices -> Asks \cup {NoAsk}]
    /\ thread \in [Devices -> Threads \cup {NoThread}]
    /\ table \in [Names -> Rows \cup {NoRow}]
    /\ idle \in Nat /\ redis \in Nat /\ lost \in Nat
    /\ store \in [Emails -> Nat] /\ expires \in [Emails -> BOOLEAN]
    /\ nodeRedis \in BOOLEAN
    /\ budget \in [Bounds -> Nat]
    /\ issued \in Seq(Emails) /\ seen \in [Devices -> Nat]
    /\ mails \in SUBSET (Emails \X Nat) /\ unfinished \in SUBSET Emails
    /\ \A d \in Devices : InGate(d) \/ stage[d] = "queued" => ask[d] # NoAsk

(* The types of all variables; a device that has a ticket has a record.    *)
TypeOK ==
    /\ GateTypeOK /\ PollOK
    /\ token \in [Names -> Nat] /\ statusRedis \in Nat /\ count \in [Servers -> Nat \cup {NoCount}]
    /\ ticket \in [Devices -> Tickets \cup {NoTicket}]
    /\ own \in [Devices -> Nat] /\ up \in [Servers -> States]
    /\ tokens \in Nat /\ logins \in [Servers -> Nat]
    /\ steady \in BOOLEAN /\ miscounted \in SUBSET Servers /\ late \in SUBSET Servers
    /\ \A d \in Devices : stage[d] \in Holders => ticket[d] # NoTicket

(* A code without an expiry belongs to a request that is about to set it,  *)
(* or to one that failed between its two commands: EXPIRE comes after the  *)
(* SET that would clear it, also when requests overlap (redis.js).         *)
CodesExpire ==
    \A e \in Emails : store[e] # 0 /\ ~expires[e] =>
        \/ e \in unfinished
        \/ \E d \in Devices : stage[d] = "expire" /\ ask[d].email = e

(* A code in force is only overwritten by a request that had found none    *)
(* before that code was stored: otherwise a person who asks twice is       *)
(* mailed the same code, and the mail he opens first stays good (server.js,*)
(* GetVarifyCode).  A Redis client that has quit cannot overwrite anything.*)
ReplacedOnlyByRace ==
    \A d \in Devices : stage[d] = "set" /\ nodeRedis =>
        store[ask[d].email] = 0 \/ seen[d] < store[ask[d].email]

(* Every password was set by a request with a code that was made for the   *)
(* address of that very account (/user_register, /reset_pwd).              *)
PasswordByOwner ==
    \A n \in Names : table[n] # NoRow /\ table[n].proof # 0 =>
        /\ table[n].proof <= Len(issued)
        /\ issued[table[n].proof] = table[n].email

(* Every MySQL connection of the gate is idle, used by one handler, or was *)
(* lost by CheckEmail: no other way out of a handler forgets it.           *)
GateConnections ==
    idle + Cardinality({d \in Devices : stage[d] \in Holding}) + lost = SqlPool

(* A client's token is the one in Redis, unless a later one was issued to  *)
(* the same user or its SET failed: it is stored before the client can     *)
(* come with it, and nothing but a newer login makes it void.              *)
TicketHonoured ==
    \A d \in Devices : stage[d] \in {"ticket", "posted", "token"} /\ ticket[d].stored =>
        token[ticket[d].name] >= ticket[d].token

(* The counter of a running server is the number of logins since it was    *)
(* started, whatever a crash or a failing HDEL left in Redis, if none of   *)
(* its own commands on it fails, the first HSET among them (LoginHandler's *)
(* HGET and HSET are two commands).  One that has ended properly has no    *)
(* counter, so it is chosen last, unless its HDEL failed or a login was    *)
(* under way when it was made.                                             *)
CountersTrue ==
    \A s \in Servers :
        /\ up[s] = "up" /\ s \notin miscounted => count[s] = logins[s]
        /\ up[s] = "down" /\ s \notin late => count[s] = NoCount

(* While no chat server stops and nothing fails, two servers' counters     *)
(* differ by no more than the number of devices: the users between choice  *)
(* and login are all that can unbalance them.                              *)
Balanced ==
    steady => \A s, t \in Servers :
        count[s] <= count[t] + Cardinality(Devices)

(* What a request that the gate has accepted may have to wait for: its     *)
(* thread, a connection of a pool of the gate or of the status server, the *)
(* status server's lock.                                                   *)
Busy(d) == stage[d] = "queued" \/ InGate(d)
CanGo(d) ==
    /\ stage[d] = "queued" => ThreadFree(d)
    /\ stage[d] = "compare" => redis > 0
    /\ stage[d] \in Waiting => idle > 0
    /\ stage[d] = "choose" => poll = Idle
    /\ stage[d] = "poll" => poll.d = d /\ (poll.next <= Len(Order) => statusRedis > 0)
    /\ stage[d] = "issue" => statusRedis > 0

(* Unless a pool has run dry, the gate's by CheckEmail and by failing GETs,*)
(* the status server's by failing SETs of InsertToken (then GetChatServer  *)
(* keeps _mtx for ever), not everybody waits for everybody, and nothing is *)
(* held by one who has gone.                                               *)
SomeoneCanGo ==
    /\ \E d \in Devices : Busy(d)
    /\ lost < SqlPool /\ redis > 0 /\ statusRedis > 0
    => \E d \in Devices : Busy(d) /\ CanGo(d)

(* An accepted request can always go on, or another one can on which it    *)
(* waits; and there is nothing else to wait for.                           *)
RequestsGoOn ==
    /\ SomeoneCanGo
    /\ \A d \in Devices : Busy(d) /\ CanGo(d) => ENABLED DeviceStep(d)
=============================================================================
