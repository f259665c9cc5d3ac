------------------------------ MODULE RedisPool -----------------------------
(***************************************************************************)
(* The pool of Redis connections of a server (RedisConPool in RedisMgr.h)  *)
(* and the commands of RedisMgr that take a connection from it.            *)
(*                                                                         *)
(* getConnections locks the mutex, evaluates the wait predicate, and       *)
(* sleeps while it is false.  _b_stop is an atomic that Close() writes     *)
(* without the mutex, so evaluating the predicate and entering the wait    *)
(* set are two steps.  returnConnection waits for nothing once it has the  *)
(* mutex and is one step, notify_one included.  checkThread keeps the      *)
(* mutex while it sends a PING on every pooled connection.                 *)
(***************************************************************************)
EXTENDS Integers, Sequences, FiniteSets

CONSTANTS
    Conns,      \* the connections the constructor opens
    PoolSize,   \* _poolSize, the number of them: 5 in the program
    Threads,    \* the threads that issue commands
    NoConn,     \* nullptr
    Nobody,     \* no owner
    Checker,    \* _check_thread
    MaxOps      \* bound: commands explored, all threads together

ASSUME RedisPoolAssumption ==
    /\ NoConn \notin Conns
    /\ IsFiniteSet(Threads)
    /\ Nobody \notin Threads /\ Checker \notin Threads /\ Nobody # Checker
    /\ PoolSize \in Nat /\ MaxOps \in Nat

(* Get and Set have paths of their own; HSet, HGet, HDel, Del, ExistsKey   *)
(* and the list commands all return their connection on every path.        *)
Commands == {"Get", "Set", "Other"}

VARIABLES
    connections,  \* _connections, a FIFO queue
    mutex,        \* the owner of _mutex, or Nobody
    b_stop,       \* _b_stop
    pc,           \* where each thread is
    cmd,          \* the command each thread is executing
    held,         \* the connection each thread has, NoConn if none
    ops,          \* the number of commands begun
    leaked,       \* connections taken out of the pool for good
    check,        \* checkThread: the connections still to visit
    checker,      \* the check thread: "idle", "checking", "exited"
    closer        \* Close(): "open", "notify", "join", "closed"

vars == <<connections, mutex, b_stop, pc, cmd, held, ops, leaked, check, checker, closer>>
checkVars == <<check, checker>>
closeVars == <<b_stop, closer>>

(* In getConnections a thread wants the mutex, is about to sleep with the  *)
(* mutex still its own, or sleeps; then it uses a connection and wants the *)
(* mutex to return it.                                                     *)
Places == {"idle", "lock", "presleep", "asleep", "using", "return"}

InPool(c) == \E i \in DOMAIN connections : connections[i] = c

(* The constructor, every connection attempt having succeeded. *)
Init ==
    /\ connections \in [1..PoolSize -> Conns]
    /\ \A c \in Conns : InPool(c)
    /\ \A i, j \in 1..PoolSize : connections[i] = connections[j] => i = j
    /\ mutex = Nobody
    /\ b_stop = FALSE
    /\ pc = [t \in Threads |-> "idle"]
    /\ cmd = [t \in Threads |-> "Other"]
    /\ held = [t \in Threads |-> NoConn]
    /\ ops = 0
    /\ leaked = {}
    /\ check = 0
    /\ checker = "idle"
    /\ closer = "open"

-----------------------------------------------------------------------------
(* Faulty variants of definitions below, used only by the mutation runs.   *)
NotifyNobody(t) == pc' = [pc EXCEPT ![t] = "idle"]
PingDropsFront ==
    /\ checker = "checking"
    /\ check > 0
    /\ ~b_stop
    /\ connections' = Tail(connections)
    /\ check' = check - 1
    /\ UNCHANGED <<mutex, pc, cmd, held, ops, leaked, checker, closeVars>>

-----------------------------------------------------------------------------
Go(t, from, to) == pc[t] = from /\ pc' = [pc EXCEPT ![t] = to]

(* A command of RedisMgr begins with getConnections. *)
Begin(t) ==
    /\ Go(t, "idle", "lock")
    /\ ops < MaxOps
    /\ ops' = ops + 1
    /\ \E c \in Commands : cmd' = [cmd EXCEPT ![t] = c]
    /\ UNCHANGED <<connections, mutex, held, leaked, checkVars, closeVars>>

PopFront(t) ==
    /\ connections # <<>>
    /\ held' = [held EXCEPT ![t] = Head(connections)]
    /\ connections' = Tail(connections)

(* The wait predicate holds: with _b_stop set nullptr is returned and the  *)
(* command fails, else the front connection is taken.                      *)
GetStopped(t) ==
    /\ Go(t, "lock", "idle")
    /\ mutex = Nobody
    /\ b_stop
    /\ UNCHANGED <<connections, mutex, cmd, held, ops, leaked, checkVars, closeVars>>

GetConnection(t) ==
    /\ Go(t, "lock", "using")
    /\ mutex = Nobody
    /\ ~b_stop
    /\ PopFront(t)
    /\ UNCHANGED <<mutex, cmd, ops, leaked, checkVars, closeVars>>

(* The predicate is false; the thread owns the mutex until it sleeps. *)
FindEmpty(t) ==
    /\ Go(t, "lock", "presleep")
    /\ mutex = Nobody
    /\ ~b_stop
    /\ connections = <<>>
    /\ mutex' = t
    /\ UNCHANGED <<connections, cmd, held, ops, leaked, checkVars, closeVars>>

Sleep(t) ==
    /\ Go(t, "presleep", "asleep")
    /\ mutex' = Nobody
    /\ UNCHANGED <<connections, cmd, held, ops, leaked, checkVars, closeVars>>

SpuriousWakeup(t) ==
    /\ Go(t, "asleep", "lock")
    /\ UNCHANGED <<connections, mutex, cmd, held, ops, leaked, checkVars, closeVars>>

(* RedisMgr.cpp:34-43 and 58-68: a Get without a string reply (the key is  *)
(* absent, or the command failed) and a Set without an OK return from the  *)
(* function without returnConnection.                                      *)
Leaks(c, ok) == ~ok /\ c \in {"Get", "Set"}

(* The reply arrives: the command succeeded, or not. *)
CommandReturns(t) == \E ok \in BOOLEAN :
    /\ ~Leaks(cmd[t], ok)
    /\ Go(t, "using", "return")
    /\ UNCHANGED <<connections, mutex, cmd, held, ops, leaked, checkVars, closeVars>>

CommandLeaks(t) == \E ok \in BOOLEAN :
    /\ Leaks(cmd[t], ok)
    /\ Go(t, "using", "idle")
    /\ leaked' = leaked \union {held[t]}
    /\ held' = [held EXCEPT ![t] = NoConn]
    /\ UNCHANGED <<connections, mutex, cmd, ops, checkVars, closeVars>>

(* notify_one: one of the sleeping threads, if there is one. *)
NotifyOne(t) ==
    IF \A u \in Threads : pc[u] # "asleep"
      THEN pc' = [pc EXCEPT ![t] = "idle"]
      ELSE \E u \in Threads : pc[u] = "asleep" /\ pc' = [pc EXCEPT ![t] = "idle", ![u] = "lock"]

ReturnConnection(t) ==
    /\ pc[t] = "return"
    /\ mutex = Nobody
    /\ ~b_stop
    /\ connections' = Append(connections, held[t])
    /\ held' = [held EXCEPT ![t] = NoConn]
    /\ NotifyOne(t)
    /\ UNCHANGED <<mutex, cmd, ops, leaked, checkVars, closeVars>>

(* After Close() a returned connection is dropped. *)
ReturnStopped(t) ==
    /\ Go(t, "return", "idle")
    /\ mutex = Nobody
    /\ b_stop
    /\ leaked' = leaked \union {held[t]}
    /\ held' = [held EXCEPT ![t] = NoConn]
    /\ UNCHANGED <<connections, mutex, cmd, ops, checkVars, closeVars>>

-----------------------------------------------------------------------------
(* checkThread, once a minute: each pooled connection is popped, pinged    *)
(* and pushed back, whether Redis answered or not, under the mutex.        *)
CheckBegins ==
    /\ checker = "idle"
    /\ mutex = Nobody
    /\ ~b_stop
    /\ mutex' = Checker
    /\ checker' = "checking"
    /\ check' = Len(connections)
    /\ UNCHANGED <<connections, pc, cmd, held, ops, leaked, closeVars>>

PingFront ==
    /\ checker = "checking"
    /\ check > 0
    /\ ~b_stop
    /\ connections' = Append(Tail(connections), Head(connections))
    /\ check' = check - 1
    /\ UNCHANGED <<mutex, pc, cmd, held, ops, leaked, checker, closeVars>>

CheckEnds ==
    /\ checker = "checking"
    /\ check = 0 \/ b_stop
    /\ check' = 0
    /\ checker' = "idle"
    /\ mutex' = Nobody
    /\ UNCHANGED <<connections, pc, cmd, held, ops, leaked, closeVars>>

CheckerExits ==
    /\ checker = "idle"
    /\ b_stop
    /\ checker' = "exited"
    /\ UNCHANGED <<connections, mutex, pc, cmd, held, ops, leaked, check, closeVars>>

(* Close(): _b_stop, then notify_all, then join, without the mutex. *)
CloseStops ==
    /\ closer = "open"
    /\ b_stop' = TRUE
    /\ closer' = "notify"
    /\ UNCHANGED <<connections, mutex, pc, cmd, held, ops, leaked, checkVars>>

NotifyAll == [t \in Threads |-> IF pc[t] = "asleep" THEN "lock" ELSE pc[t]]

CloseNotifies ==
    /\ closer = "notify"
    /\ pc' = NotifyAll
    /\ closer' = "join"
    /\ UNCHANGED <<connections, mutex, b_stop, cmd, held, ops, leaked, checkVars>>

CloseJoins ==
    /\ closer = "join"
    /\ checker = "exited"
    /\ closer' = "closed"
    /\ UNCHANGED <<connections, mutex, b_stop, pc, cmd, held, ops, leaked, checkVars>>

-----------------------------------------------------------------------------
Get(t) == GetStopped(t) \/ GetConnection(t) \/ FindEmpty(t)
Return(t) == ReturnConnection(t) \/ ReturnStopped(t)
Command(t) == CommandReturns(t) \/ CommandLeaks(t)
Check == CheckBegins \/ PingFront \/ CheckEnds \/ CheckerExits
Close == CloseStops \/ CloseNotifies \/ CloseJoins

Next ==
    \/ \E t \in Threads :
          Begin(t) \/ Get(t) \/ Sleep(t) \/ SpuriousWakeup(t) \/ Command(t) \/ Return(t)
    \/ Check
    \/ Close

(* Threads keep running and Redis answers, if only with an error.  The     *)
(* mutex is taken again and again by the check thread, which sleeps in     *)
(* between, so a thread that wants it gets it: strong fairness.            *)
Fairness ==
    /\ \A t \in Threads : /\ SF_vars(Get(t)) /\ SF_vars(Return(t))
                          /\ WF_vars(Sleep(t)) /\ WF_vars(Command(t))
    /\ WF_vars(PingFront \/ CheckEnds \/ CheckerExits)
    /\ WF_vars(CloseNotifies) /\ WF_vars(CloseJoins)

Spec == Init /\ [][Next]_vars
FairSpec == Spec /\ Fairness

-----------------------------------------------------------------------------
TypeOK ==
    /\ connections \in Seq(Conns)
    /\ mutex \in Threads \union {Nobody, Checker}
    /\ b_stop \in BOOLEAN
    /\ pc \in [Threads -> Places]
    /\ cmd \in [Threads -> Commands]
    /\ held \in [Threads -> Conns \union {NoConn}]
    /\ ops \in 0..MaxOps
    /\ leaked \subseteq Conns
    /\ check \in Nat
    /\ checker \in {"idle", "checking", "exited"}
    /\ closer \in {"open", "notify", "join", "closed"}

(* No connection is in two places: twice in the queue, with two threads,   *)
(* or in the queue while a thread uses it (two commands would mix their    *)
(* replies on one socket).                                                 *)
Exclusive ==
    /\ \A i, j \in DOMAIN connections : connections[i] = connections[j] => i = j
    /\ \A t \in Threads : held[t] # NoConn => ~InPool(held[t]) /\ held[t] \notin leaked
    /\ \A t, u \in Threads : held[t] = held[u] /\ held[t] # NoConn => t = u
    /\ \A c \in leaked : ~InPool(c)

(* No connection vanishes: one that is neither pooled nor in use was       *)
(* leaked by Get, by Set, or dropped after Close().                        *)
Conserved == \A c \in Conns : InPool(c) \/ c \in leaked \/ \E t \in Threads : held[t] = c

(* Every connection is in exactly one place, however getConnections, the   *)
(* commands, checkThread and Close interleave.                             *)
OnePlaceEach == Exclusive /\ Conserved

(* A sleeping thread wakes again unless every connection has leaked: as    *)
(* long as one connection circulates nobody is forgotten.                  *)
SleepersServed ==
    \A t \in Threads :
        pc[t] = "asleep" ~> (pc[t] # "asleep" \/ leaked = Conns \/ b_stop)
=============================================================================
