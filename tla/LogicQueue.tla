----------------------------- MODULE LogicQueue -----------------------------
(***************************************************************************)
(* The message queue between the io_context threads and the single logic   *)
(* thread of a chat server: LogicSystem::PostMsgToQue, DealMsg and the     *)
(* destructor (ChatServer/LogicSystem.cpp:17-80), with the mutex, the      *)
(* condition variable and the unlocked write of _b_stop.                   *)
(*                                                                         *)
(* Messages are numbered by the order in which they enter the queue.  A    *)
(* poster's critical section waits for nothing, so it is one step; the     *)
(* notify after it is another.  DealMsg holds the mutex from the end of    *)
(* wait() to the end of its iteration, callback included.                  *)
(***************************************************************************)
EXTENDS Naturals, Sequences

CONSTANTS
    Posters,      \* threads that run CSession's read handlers
    Registered,   \* the messages whose id has a callback
    MaxPosts      \* bound: the number of messages explored

ASSUME LogicQueueAssumption == MaxPosts \in Nat /\ Registered \subseteq 1..MaxPosts

VARIABLES
    posted,    \* number of messages posted so far
    msg_que,   \* _msg_que
    handled,   \* the messages whose callback has returned, in order
    b_stop,    \* _b_stop
    poster,    \* what each poster does: "idle", or "notify" after unlocking
    logic,     \* where DealMsg is
    dtor       \* where the destructor is

vars == <<posted, msg_que, handled, b_stop, poster, logic, dtor>>

Message == 1..MaxPosts

(* The places of DealMsg where the logic thread owns _mutex: evaluating    *)
(* the predicate, about to sleep on it, past the wait, in the callback of  *)
(* an iteration, draining, in a callback of the drain.                     *)
Owning == {"test", "presleep", "woken", "callback", "drain", "draincall"}

(* Outside the mutex: (re)locking it, in the wait set, gone. *)
LogicPlace == Owning \union {"lock", "asleep", "exited"}

DtorPlace == {"running", "notify", "join", "joined"}

Init ==
    /\ posted = 0
    /\ msg_que = <<>>
    /\ handled = <<>>
    /\ b_stop = FALSE
    /\ poster = [p \in Posters |-> "idle"]
    /\ logic = "lock"
    /\ dtor = "running"

-----------------------------------------------------------------------------
LogicGoes(from, to) == logic = from /\ logic' = to

(* Faulty variants of definitions below, used only by the mutation runs.   *)
NotifiesAtTwo == Len(msg_que') = 2
PopsBeforeCallback ==
    /\ LogicGoes("woken", "callback")
    /\ ~b_stop
    /\ Head(msg_que) \in Registered
    /\ msg_que' = Tail(msg_que)
    /\ UNCHANGED <<posted, handled, b_stop, poster, dtor>>
-----------------------------------------------------------------------------
(* A notify takes the logic thread out of the wait set, if it is in it. *)
NotifyLogic == logic' = IF logic = "asleep" THEN "lock" ELSE logic

(* LogicSystem.cpp:30: only the message that ends an empty queue notifies. *)
BecameNonEmpty == Len(msg_que') = 1

PostMsgToQue(p) ==
    /\ poster[p] = "idle"
    /\ posted < MaxPosts
    /\ dtor = "running"
    /\ logic \notin Owning
    /\ posted' = posted + 1
    /\ msg_que' = Append(msg_que, posted')
    /\ poster' = [poster EXCEPT ![p] = IF BecameNonEmpty THEN "notify" ELSE "idle"]
    /\ UNCHANGED <<handled, b_stop, logic, dtor>>

PosterNotifies(p) ==
    /\ poster[p] = "notify"
    /\ poster' = [poster EXCEPT ![p] = "idle"]
    /\ NotifyLogic
    /\ UNCHANGED <<posted, msg_que, handled, b_stop, dtor>>

-----------------------------------------------------------------------------
LockMutex ==
    /\ LogicGoes("lock", "test")
    /\ UNCHANGED <<posted, msg_que, handled, b_stop, poster, dtor>>

WaitPredicate == msg_que # <<>> \/ b_stop

EvaluatePredicate ==
    /\ LogicGoes("test", IF WaitPredicate THEN "woken" ELSE "presleep")
    /\ UNCHANGED <<posted, msg_que, handled, b_stop, poster, dtor>>

Sleep ==
    /\ LogicGoes("presleep", "asleep")
    /\ UNCHANGED <<posted, msg_que, handled, b_stop, poster, dtor>>

SpuriousWakeup ==
    /\ LogicGoes("asleep", "lock")
    /\ UNCHANGED <<posted, msg_que, handled, b_stop, poster, dtor>>

(* LogicSystem.cpp:48, the second look at _b_stop. *)
SeeStop ==
    /\ LogicGoes("woken", "drain")
    /\ b_stop
    /\ UNCHANGED <<posted, msg_que, handled, b_stop, poster, dtor>>

(* The normal iteration: the front message is looked up; one without a     *)
(* callback is popped and the mutex released.                              *)
TakeFront ==
    /\ LogicGoes("woken", "callback")
    /\ ~b_stop
    /\ Head(msg_que) \in Registered
    /\ UNCHANGED <<posted, msg_que, handled, b_stop, poster, dtor>>

SkipFront ==
    /\ LogicGoes("woken", "lock")
    /\ ~b_stop
    /\ Head(msg_que) \notin Registered
    /\ msg_que' = Tail(msg_que)
    /\ UNCHANGED <<posted, handled, b_stop, poster, dtor>>

(* The callback returns; its message is popped and the mutex released. *)
FinishCallback ==
    /\ LogicGoes("callback", "lock")
    /\ handled' = Append(handled, Head(msg_que))
    /\ msg_que' = Tail(msg_que)
    /\ UNCHANGED <<posted, b_stop, poster, dtor>>

DrainTake ==
    /\ LogicGoes("drain", "draincall")
    /\ msg_que # <<>>
    /\ Head(msg_que) \in Registered
    /\ UNCHANGED <<posted, msg_que, handled, b_stop, poster, dtor>>

DrainSkip ==
    /\ logic = "drain"
    /\ msg_que # <<>>
    /\ Head(msg_que) \notin Registered
    /\ msg_que' = Tail(msg_que)
    /\ UNCHANGED <<posted, handled, b_stop, poster, logic, dtor>>

DrainFinish ==
    /\ LogicGoes("draincall", "drain")
    /\ handled' = Append(handled, Head(msg_que))
    /\ msg_que' = Tail(msg_que)
    /\ UNCHANGED <<posted, b_stop, poster, dtor>>

DrainDone ==
    /\ LogicGoes("drain", "exited")
    /\ msg_que = <<>>
    /\ UNCHANGED <<posted, msg_que, handled, b_stop, poster, dtor>>

DealMsg ==
    \/ LockMutex \/ EvaluatePredicate \/ Sleep
    \/ SeeStop \/ TakeFront \/ SkipFront \/ FinishCallback
    \/ DrainTake \/ DrainSkip \/ DrainFinish \/ DrainDone

-----------------------------------------------------------------------------
(* The destructor of the singleton runs when main has returned, after      *)
(* AsioServicePool::Stop has joined the io_context threads.  It writes     *)
(* _b_stop and notifies without taking _mutex.                             *)
DtorStops ==
    /\ dtor = "running"
    /\ \A p \in Posters : poster[p] = "idle"
    /\ b_stop' = TRUE
    /\ dtor' = "notify"
    /\ UNCHANGED <<posted, msg_que, handled, poster, logic>>

DtorNotifies ==
    /\ dtor = "notify"
    /\ dtor' = "join"
    /\ NotifyLogic
    /\ UNCHANGED <<posted, msg_que, handled, b_stop, poster>>

DtorJoins ==
    /\ dtor = "join"
    /\ logic = "exited"
    /\ dtor' = "joined"
    /\ UNCHANGED <<posted, msg_que, handled, b_stop, poster, logic>>

Dtor == DtorStops \/ DtorNotifies \/ DtorJoins

Next ==
    \/ \E p \in Posters : PostMsgToQue(p) \/ PosterNotifies(p)
    \/ DealMsg
    \/ SpuriousWakeup
    \/ Dtor

(* Threads keep running: the logic thread, a poster that has to notify,    *)
(* the destructor once begun.  Callbacks return.  Nobody has to post, the  *)
(* program has not to stop, and no wakeup is spurious by right.            *)
Fairness ==
    /\ WF_vars(DealMsg)
    /\ \A p \in Posters : WF_vars(PosterNotifies(p))
    /\ WF_vars(DtorNotifies)
    /\ WF_vars(DtorJoins)

Spec == Init /\ [][Next]_vars
FairSpec == Spec /\ Fairness

-----------------------------------------------------------------------------
TypeOK ==
    /\ posted \in 0..MaxPosts
    /\ msg_que \in Seq(Message)
    /\ handled \in Seq(Message)
    /\ b_stop \in BOOLEAN
    /\ poster \in [Posters -> {"idle", "notify"}]
    /\ logic \in LogicPlace
    /\ dtor \in DtorPlace

(* DealMsg never sleeps, nor decides to, on a message: if it waits with    *)
(* messages queued, a poster that will wake it has still to notify.        *)
NoMissedMessage ==
    /\ logic = "presleep" => msg_que = <<>>
    /\ logic = "asleep" /\ msg_que # <<>> => \E p \in Posters : poster[p] = "notify"

(* front() is never applied to an empty queue: past the wait, with _b_stop *)
(* read as false a second time, there is a message.                        *)
FrontExists ==
    /\ logic = "woken" /\ ~b_stop => msg_que # <<>>
    /\ logic \in {"callback", "draincall"} => msg_que # <<>>

(* The thread exits, and the destructor ends, with every message handled. *)
DrainedAtExit == logic = "exited" => b_stop /\ msg_que = <<>>

(* The queue and its thread implement the in-order dispatcher. *)
DispatcherOf == INSTANCE Dispatcher WITH backlog <- msg_que
ImplementsDispatcher == DispatcherOf!Spec

(* Every registered message is handled in the end, stop or no stop. *)
EventuallyHandled ==
    \A m \in Registered : posted >= m ~> \E i \in DOMAIN handled : handled[i] = m
=============================================================================
