-------------------------- MODULE LogicQueueProofs --------------------------
(***************************************************************************)
(* Proofs about LogicQueue, for any posters, any registered messages and   *)
(* any number of them.  That DealMsg never sleeps on a message rests on    *)
(* one fact: the queue can only become non-empty in a step that leaves its *)
(* poster bound to notify, and stays non-empty until the logic thread,     *)
(* awake again, pops.  While it is not empty every step of DealMsg leads   *)
(* to that pop.                                                            *)
(***************************************************************************)
EXTENDS LogicQueue, TLAPS

QueueInv == TypeOK /\ NoMissedMessage /\ FrontExists /\ DrainedAtExit

(* Past "running" every poster has come to rest and the flag is up. *)
StopInv ==
    /\ dtor # "running" <=> b_stop
    /\ b_stop => \A p \in Posters : poster[p] = "idle"
    /\ logic \in {"drain", "draincall"} => b_stop

(* The message in front during a callback is the one that was looked up. *)
CallbackInv == logic \in {"callback", "draincall"} => Head(msg_que) \in Registered

IInv == QueueInv /\ StopInv /\ CallbackInv

-----------------------------------------------------------------------------
LEMMA InitInv == Init => IInv
<1> SUFFICES ASSUME Init PROVE IInv
  OBVIOUS
<1>1. posted \in 0..MaxPosts
  BY LogicQueueAssumption DEF Init
<1>2. msg_que \in Seq(Message) /\ handled \in Seq(Message)
  BY DEF Init
<1>3. TypeOK
  BY <1>1, <1>2 DEF Init, TypeOK, LogicPlace, Owning, DtorPlace
<1>4. NoMissedMessage /\ FrontExists /\ DrainedAtExit /\ StopInv /\ CallbackInv
  BY DEF Init, NoMissedMessage, FrontExists, DrainedAtExit, StopInv, CallbackInv
<1>5. QED
  BY <1>3, <1>4 DEF IInv, QueueInv

LEMMA PostInv ==
  ASSUME IInv, NEW p \in Posters, PostMsgToQue(p) PROVE IInv'
<1> USE DEF IInv, QueueInv
<1>1. posted' \in Message /\ posted' \in 0..MaxPosts
  BY LogicQueueAssumption DEF PostMsgToQue, TypeOK, Message
<1>2. /\ msg_que' = Append(msg_que, posted')
      /\ msg_que' \in Seq(Message)
      /\ Len(msg_que') = Len(msg_que) + 1
      /\ msg_que' # <<>>
  BY <1>1 DEF PostMsgToQue, TypeOK
<1>3. TypeOK'
  BY <1>1, <1>2 DEF PostMsgToQue, TypeOK
<1>4. NoMissedMessage'
  <2>1. CASE msg_que = <<>>
    BY <1>2, <2>1 DEF PostMsgToQue, NoMissedMessage, BecameNonEmpty, TypeOK, Owning
  <2>2. CASE msg_que # <<>>
    BY <2>2 DEF PostMsgToQue, NoMissedMessage, TypeOK, Owning
  <2>3. QED
    BY <2>1, <2>2
<1>5. FrontExists' /\ DrainedAtExit' /\ StopInv' /\ CallbackInv'
  BY <1>2 DEF PostMsgToQue, FrontExists, DrainedAtExit, StopInv, CallbackInv, Owning
<1>6. QED
  BY <1>3, <1>4, <1>5

LEMMA NotifyInv ==
  ASSUME IInv, NEW p \in Posters, PosterNotifies(p) PROVE IInv'
BY DEF IInv, QueueInv, PosterNotifies, NotifyLogic, TypeOK, NoMissedMessage,
       FrontExists, DrainedAtExit, StopInv, CallbackInv, LogicPlace, Owning

LEMMA DealInv == IInv /\ DealMsg => IInv'
<1> SUFFICES ASSUME IInv, DealMsg PROVE IInv'
  OBVIOUS
<1> USE DEF IInv, QueueInv, TypeOK, NoMissedMessage, FrontExists, DrainedAtExit,
            StopInv, CallbackInv, LogicPlace, Owning, LogicGoes
<1>1. CASE LockMutex
  BY <1>1 DEF LockMutex
<1>2. CASE EvaluatePredicate
  BY <1>2 DEF EvaluatePredicate, WaitPredicate
<1>3. CASE Sleep
  BY <1>3 DEF Sleep
<1>4. CASE SeeStop
  BY <1>4 DEF SeeStop
<1>5. CASE TakeFront
  BY <1>5 DEF TakeFront
<1>6. CASE SkipFront
  BY <1>6 DEF SkipFront
<1>7. CASE FinishCallback
  BY <1>7 DEF FinishCallback
<1>8. CASE DrainTake
  BY <1>8 DEF DrainTake
<1>9. CASE DrainSkip
  BY <1>9 DEF DrainSkip
<1>10. CASE DrainFinish
  BY <1>10 DEF DrainFinish
<1>11. CASE DrainDone
  BY <1>11 DEF DrainDone
<1>12. QED
  BY <1>1, <1>2, <1>3, <1>4, <1>5, <1>6, <1>7, <1>8, <1>9, <1>10, <1>11 DEF DealMsg

LEMMA NextInv == IInv /\ [Next]_vars => IInv'
<1> SUFFICES ASSUME IInv, [Next]_vars PROVE IInv'
  OBVIOUS
<1> USE DEF IInv, QueueInv, TypeOK, NoMissedMessage, FrontExists, DrainedAtExit,
            StopInv, CallbackInv, LogicPlace, Owning, DtorPlace
<1>1. CASE SpuriousWakeup
  BY <1>1 DEF SpuriousWakeup, LogicGoes
<1>2. CASE DtorStops
  BY <1>2 DEF DtorStops
<1>3. CASE DtorNotifies
  BY <1>3 DEF DtorNotifies, NotifyLogic
<1>4. CASE DtorJoins
  BY <1>4 DEF DtorJoins
<1>5. CASE UNCHANGED vars
  BY <1>5 DEF vars
<1>6. QED
  BY <1>1, <1>2, <1>3, <1>4, <1>5, PostInv, NotifyInv, DealInv DEF Next, Dtor

(* The invariant of the queue: types, no sleep on a message, no front() of *)
(* an empty queue, a drained queue at exit.                                *)
THEOREM QueueCorrect == Spec => []QueueInv
BY InitInv, NextInv, PTL DEF Spec, IInv

(* DealMsg never waits on a queued message without a notify on its way. *)
THEOREM NoMissedCorrect == Spec => []NoMissedMessage
BY QueueCorrect, PTL DEF QueueInv

(* The thread leaves only with an empty queue. *)
THEOREM DrainCorrect == Spec => []DrainedAtExit
BY QueueCorrect, PTL DEF QueueInv

-----------------------------------------------------------------------------
(* Posting appends, callbacks take the front: an in-order dispatcher. *)
THEOREM DispatcherImplemented == Spec => ImplementsDispatcher
<1>1. Init => DispatcherOf!Init
  BY DEF Init, DispatcherOf!Init
<1>2. IInv /\ [Next]_vars => [DispatcherOf!Next]_(DispatcherOf!vars)
  <2> SUFFICES ASSUME IInv, [Next]_vars
               PROVE  DispatcherOf!Next \/ UNCHANGED <<posted, msg_que, handled>>
    BY DEF DispatcherOf!vars
  <2>1. ASSUME NEW p \in Posters, PostMsgToQue(p) PROVE DispatcherOf!Post
    BY <2>1 DEF PostMsgToQue, DispatcherOf!Post
  <2>2. ASSUME NEW p \in Posters, PosterNotifies(p)
        PROVE  UNCHANGED <<posted, msg_que, handled>>
    BY <2>2 DEF PosterNotifies
  <2>3. CASE FinishCallback \/ DrainFinish
    BY <2>3 DEF FinishCallback, DrainFinish, LogicGoes, DispatcherOf!Next, DispatcherOf!Handle,
                IInv, QueueInv, FrontExists, CallbackInv
  <2>4. CASE SkipFront \/ DrainSkip
    BY <2>4 DEF SkipFront, DrainSkip, LogicGoes, DispatcherOf!Next, DispatcherOf!Skip,
                IInv, QueueInv, FrontExists
  <2>5. CASE LockMutex \/ EvaluatePredicate \/ Sleep \/ SeeStop \/ TakeFront
             \/ DrainTake \/ DrainDone \/ SpuriousWakeup
    BY <2>5 DEF LockMutex, EvaluatePredicate, Sleep, SeeStop, TakeFront, DrainTake,
                DrainDone, SpuriousWakeup
  <2>6. CASE Dtor
    BY <2>6 DEF Dtor, DtorStops, DtorNotifies, DtorJoins
  <2>7. CASE UNCHANGED vars
    BY <2>7 DEF vars
  <2>8. QED
    BY <2>1, <2>2, <2>3, <2>4, <2>5, <2>6, <2>7 DEF Next, DealMsg, DispatcherOf!Next
<1>3. QED
  BY <1>1, <1>2, InitInv, NextInv, PTL DEF Spec, ImplementsDispatcher, DispatcherOf!Spec

-----------------------------------------------------------------------------
(* The steps DealMsg has still to take before it pops a queued message.    *)
StepsLeft == [asleep |-> 5, lock |-> 4, test |-> 3, woken |-> 2, drain |-> 1,
              callback |-> 0, draincall |-> 0]

Advances == msg_que # <<>> =>
    \/ msg_que' = Tail(msg_que)
    \/ /\ msg_que' \in {msg_que, Append(msg_que, posted')}
       /\ StepsLeft[logic'] <= StepsLeft[logic]
       /\ DealMsg => StepsLeft[logic'] < StepsLeft[logic]

LEMMA DealAdvances ==
  ASSUME IInv, msg_que # <<>>, DealMsg
  PROVE  \/ msg_que' = Tail(msg_que)
         \/ /\ msg_que' = msg_que
            /\ StepsLeft[logic'] < StepsLeft[logic] /\ StepsLeft[logic'] <= StepsLeft[logic]
<1> USE DEF IInv, QueueInv, StepsLeft, LogicGoes
<1>1. CASE LockMutex
  BY <1>1 DEF LockMutex
<1>2. CASE EvaluatePredicate
  BY <1>2 DEF EvaluatePredicate, WaitPredicate
<1>3. CASE SeeStop
  BY <1>3 DEF SeeStop
<1>4. CASE TakeFront
  BY <1>4 DEF TakeFront
<1>5. CASE DrainTake
  BY <1>5 DEF DrainTake
<1>6. CASE SkipFront \/ FinishCallback \/ DrainSkip \/ DrainFinish
  BY <1>6 DEF SkipFront, FinishCallback, DrainSkip, DrainFinish
<1>7. ~Sleep /\ ~DrainDone
  BY DEF Sleep, DrainDone, NoMissedMessage
<1>8. QED
  BY <1>1, <1>2, <1>3, <1>4, <1>5, <1>6, <1>7 DEF DealMsg

(* The safety that EventuallyHandled rests on, with NoMissedCorrect: while *)
(* messages are queued, every step of DealMsg takes it nearer to popping   *)
(* the front one, normally or draining, and nobody takes it back or queues *)
(* a message before another.                                               *)
THEOREM DealMsgAdvances == Spec => [][Advances]_vars
<1>1. IInv /\ Next => Advances
  <2> SUFFICES ASSUME IInv, Next, msg_que # <<>> PROVE Advances
    BY DEF Advances
  <2>1. CASE DealMsg
    BY <2>1, DealAdvances DEF Advances
  <2>2. ASSUME ~DealMsg
        PROVE  /\ msg_que' \in {msg_que, Append(msg_que, posted')}
               /\ logic' = logic \/ (logic = "asleep" /\ logic' = "lock")
    BY <2>2 DEF Next, PostMsgToQue, PosterNotifies, NotifyLogic, SpuriousWakeup, LogicGoes,
                Dtor, DtorStops, DtorNotifies, DtorJoins
  <2>3. logic \in DOMAIN StepsLeft
    BY DEF IInv, QueueInv, TypeOK, LogicPlace, Owning, NoMissedMessage, DrainedAtExit, StepsLeft
  <2>4. StepsLeft[logic] \in Nat
    BY <2>3 DEF StepsLeft
  <2>5. ASSUME ~DealMsg PROVE StepsLeft[logic'] <= StepsLeft[logic]
    <3>1. CASE logic' = logic
      BY <2>4, <3>1
    <3>2. CASE logic = "asleep" /\ logic' = "lock"
      BY <3>2 DEF StepsLeft
    <3>3. QED
      BY <2>2, <2>5, <3>1, <3>2
  <2>6. QED
    BY <2>1, <2>2, <2>5 DEF Advances
<1>2. QED
  BY <1>1, InitInv, NextInv, PTL DEF Spec
=============================================================================
