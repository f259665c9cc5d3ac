-------------------------- MODULE SendQueueProofs ---------------------------
(***************************************************************************)
(* Proofs about SendQueue, for every queue bound and every number of Send  *)
(* calls.  The argument: at any time the only frame handed to async_write  *)
(* is the front of the queue (OneWriteAtATime), which makes the frames     *)
(* still unwritten a suffix of the queue; the queue is increasing, because *)
(* Send appends ever larger numbers, and lies above everything written.    *)
(***************************************************************************)
EXTENDS SendQueue, TLAPS

TornInv == torn => ~open

PumpInv == TypeOK /\ OneWriteAtATime /\ PumpAlive /\ QueueBounded /\ TornInv

-----------------------------------------------------------------------------
LEMMA InitPump == Init => PumpInv
<1> SUFFICES ASSUME Init PROVE PumpInv
  OBVIOUS
<1>1. TypeOK
  <2>1. sent \in 0..MaxSends
    BY SendQueueAssumption DEF Init
  <2>2. send_que \in Seq(Frame) /\ wire \in Seq(Frame)
    BY DEF Init
  <2>3. QED
    BY <2>1, <2>2 DEF Init, TypeOK
<1>2. OneWriteAtATime /\ PumpAlive /\ TornInv
  BY DEF Init, OneWriteAtATime, PumpAlive, TornInv
<1>3. QueueBounded
  BY SendQueueAssumption DEF Init, QueueBounded
<1>4. QED
  BY <1>1, <1>2, <1>3 DEF PumpInv

LEMMA SendPump == PumpInv /\ Send => PumpInv'
<1> SUFFICES ASSUME PumpInv, Send PROVE PumpInv'
  OBVIOUS
<1> USE SendQueueAssumption DEF PumpInv, TypeOK, OneWriteAtATime, PumpAlive, QueueBounded, TornInv
<1>1. sent' \in Frame /\ sent' \in 0..MaxSends
  BY DEF Send, Frame
<1>2. CASE QueueFull
  BY <1>2 DEF Send, QueueFull
<1>3. CASE ~QueueFull
  <2>1. /\ send_que' = Append(send_que, sent')
        /\ send_que' \in Seq(Frame)
        /\ Len(send_que') = Len(send_que) + 1
    <3>1. send_que' = Append(send_que, sent') /\ send_que \in Seq(Frame)
      BY <1>3 DEF Send
    <3>2. QED
      BY <1>1, <3>1
  <2>2. CASE StartsWrite
    <3>1. send_que' = <<sent'>> /\ Head(send_que') = sent'
      BY <2>1, <2>2, <1>1 DEF StartsWrite
    <3>2. QED
      BY <1>1, <1>3, <2>1, <2>2, <3>1 DEF Send, StartsWrite
  <2>3. CASE ~StartsWrite
    <3>1. Head(send_que') = Head(send_que) /\ send_que' # <<>>
      BY <2>1, <2>3, <1>1 DEF StartsWrite
    <3>2. QED
      BY <1>1, <1>3, <2>1, <2>3, <3>1 DEF Send, QueueFull, StartsWrite
  <2>4. QED
    BY <2>2, <2>3
<1>4. QED
  BY <1>2, <1>3

LEMMA SocketPump ==
  ASSUME NEW f \in Frame, PumpInv, SocketTakes(f) PROVE PumpInv'
BY SendQueueAssumption
   DEF PumpInv, TypeOK, OneWriteAtATime, PumpAlive, QueueBounded, TornInv, SocketTakes

LEMMA WriteOkPump ==
  ASSUME NEW f \in Frame, PumpInv, HandleWriteOk(f) PROVE PumpInv'
<1> USE SendQueueAssumption DEF PumpInv, TypeOK, OneWriteAtATime, PumpAlive, QueueBounded, TornInv
<1>1. send_que # <<>> /\ writing = {f}
  BY DEF HandleWriteOk
<1>2. /\ send_que' = Tail(send_que)
      /\ send_que' \in Seq(Frame)
      /\ Len(send_que') = Len(send_que) - 1
  BY <1>1 DEF HandleWriteOk
<1>3. writing' = FrontAfterPop /\ written' = {}
  BY <1>1 DEF HandleWriteOk
<1>4. CASE Tail(send_que) = <<>>
  BY <1>2, <1>3, <1>4 DEF HandleWriteOk, FrontAfterPop
<1>5. CASE Tail(send_que) # <<>>
  <2>1. Head(send_que') \in Frame
    BY <1>2, <1>5
  <2>2. QED
    BY <1>2, <1>3, <1>5, <2>1 DEF HandleWriteOk, FrontAfterPop
<1>6. QED
  BY <1>4, <1>5

LEMMA WriteErrorPump ==
  ASSUME NEW f \in Frame, PumpInv, HandleWriteError(f) PROVE PumpInv'
BY DEF PumpInv, TypeOK, OneWriteAtATime, PumpAlive, QueueBounded, TornInv, HandleWriteError

LEMMA NextPump == PumpInv /\ [Next]_vars => PumpInv'
<1> SUFFICES ASSUME PumpInv, [Next]_vars PROVE PumpInv'
  OBVIOUS
<1>1. CASE HandleReadError
  BY <1>1 DEF HandleReadError, PumpInv, TypeOK, OneWriteAtATime, PumpAlive, QueueBounded, TornInv
<1>2. CASE UNCHANGED vars
  BY <1>2 DEF vars, PumpInv, TypeOK, OneWriteAtATime, PumpAlive, QueueBounded, TornInv
<1>3. QED
  BY <1>1, <1>2, SendPump, SocketPump, WriteOkPump, WriteErrorPump DEF Next, HandleWrite

(* The invariant of the pump: types, one write at a time, no stalled       *)
(* queue, the bound, and a torn frame only on a closed socket.             *)
THEOREM PumpCorrect == Spec => []PumpInv
BY InitPump, NextPump, PTL DEF Spec

(* Until the socket fails at most one write is in flight and the queue is  *)
(* drained, whatever the interleaving of Send and HandleWrite.             *)
THEOREM OneWriterCorrect == Spec => [](OneWriteAtATime /\ PumpAlive)
BY PumpCorrect, PTL DEF PumpInv

(* The queue never holds more than MAX_SENDQUE + 1 frames. *)
THEOREM BoundCorrect == Spec => []QueueBounded
BY PumpCorrect, PTL DEF PumpInv

(* After a torn frame the wire stays as it is. *)
THEOREM TornCorrect == Spec => NothingAfterTornFrame
<1>1. PumpInv /\ [Next]_vars => [torn => wire' = wire]_vars
  <2> SUFFICES ASSUME PumpInv, Next, torn PROVE wire' = wire
    BY DEF vars
  <2>1. ~open
    BY DEF PumpInv, TornInv
  <2>2. QED
    BY <2>1 DEF Next, Send, SocketTakes, HandleWrite, HandleWriteOk, HandleWriteError, HandleReadError
<1>2. QED
  BY <1>1, PumpCorrect, PTL DEF Spec, NothingAfterTornFrame

-----------------------------------------------------------------------------
FrontWritten == writing # {} /\ writing = written

(* The queue is increasing and no larger than the last Send; what was      *)
(* written is increasing and lies below what still has to be written.      *)
OrderInv ==
    /\ \A i \in 1..Len(send_que) : send_que[i] <= sent
    /\ \A i \in 1..Len(wire) : wire[i] <= sent
    /\ \A i, j \in 1..Len(send_que) : i < j => send_que[i] < send_que[j]
    /\ \A i, j \in 1..Len(wire) : i < j => wire[i] < wire[j]
    /\ \A i \in 1..Len(wire), j \in 1..Len(send_que) :
           wire[i] < send_que[j] \/ (FrontWritten /\ j = 1)

LEMMA SendOrder == PumpInv /\ OrderInv /\ Send => OrderInv'
<1> SUFFICES ASSUME PumpInv, OrderInv, Send PROVE OrderInv'
  OBVIOUS
<1>1. /\ sent \in Nat /\ sent' = sent + 1 /\ sent' \in Nat
      /\ send_que \in Seq(Nat) /\ wire \in Seq(Nat) /\ wire' = wire
      /\ written' = written
  BY SendQueueAssumption DEF PumpInv, TypeOK, Send, Frame
<1>2. CASE QueueFull
  <2>1. UNCHANGED send_que /\ FrontWritten' = FrontWritten
    BY <1>2 DEF Send, FrontWritten
  <2>2. QED
    BY <1>1, <2>1 DEF OrderInv
<1>3. CASE ~QueueFull
  <2>1. /\ send_que' = Append(send_que, sent')
        /\ Len(send_que') = Len(send_que) + 1
        /\ \A i \in 1..Len(send_que) : send_que'[i] = send_que[i]
        /\ send_que'[Len(send_que) + 1] = sent + 1
    <3>1. send_que' = Append(send_que, sent')
      BY <1>3 DEF Send
    <3>2. QED
      BY <1>1, <3>1
  <2>2. FrontWritten => FrontWritten'
    BY <1>1, <1>3 DEF Send, StartsWrite, FrontWritten, PumpInv, OneWriteAtATime
  <2>3. QED
    BY <1>1, <2>1, <2>2 DEF OrderInv
<1>4. QED
  BY <1>2, <1>3

LEMMA SocketOrder ==
  ASSUME NEW f \in Frame, PumpInv, OrderInv, SocketTakes(f) PROVE OrderInv'
<1>1. /\ sent \in Nat /\ send_que \in Seq(Nat) /\ wire \in Seq(Nat)
      /\ send_que # <<>> /\ f = send_que[1] /\ writing = {f} /\ written = {}
  BY SendQueueAssumption DEF PumpInv, TypeOK, OneWriteAtATime, SocketTakes, Frame
<1>2. /\ UNCHANGED <<sent, send_que, writing>>
      /\ wire' = Append(wire, f)
      /\ Len(wire') = Len(wire) + 1
      /\ \A i \in 1..Len(wire) : wire'[i] = wire[i]
      /\ wire'[Len(wire) + 1] = f
  BY <1>1 DEF SocketTakes
<1>3. ~FrontWritten /\ FrontWritten'
  BY <1>1, <1>2 DEF FrontWritten, SocketTakes
<1>4. QED
  BY <1>1, <1>2, <1>3 DEF OrderInv

LEMMA WriteOkOrder ==
  ASSUME NEW f \in Frame, PumpInv, OrderInv, HandleWriteOk(f) PROVE OrderInv'
<1>1. /\ sent \in Nat /\ send_que \in Seq(Nat) /\ wire \in Seq(Nat)
      /\ send_que # <<>> /\ writing = {f} /\ written = {f}
  <2>1. sent \in Nat /\ send_que \in Seq(Nat) /\ wire \in Seq(Nat)
    BY SendQueueAssumption DEF PumpInv, TypeOK, Frame
  <2>2. f \in written /\ written \subseteq writing
    BY DEF PumpInv, TypeOK, HandleWriteOk
  <2>3. QED
    BY <2>1, <2>2 DEF PumpInv, OneWriteAtATime
<1>2. /\ UNCHANGED <<sent, wire>>
      /\ Len(send_que') = Len(send_que) - 1
      /\ \A i \in 1..Len(send_que') : send_que'[i] = send_que[i + 1]
  BY <1>1 DEF HandleWriteOk
<1>3. \A i \in 1..Len(send_que') : i + 1 \in 1..Len(send_que) /\ i + 1 # 1
  BY <1>1, <1>2
<1>4. \A i, j \in 1..Len(send_que') : i < j => send_que'[i] < send_que'[j]
  <2>1. SUFFICES ASSUME NEW i \in 1..Len(send_que'), NEW j \in 1..Len(send_que'), i < j
                 PROVE  send_que[i + 1] < send_que[j + 1]
    BY <1>2
  <2>2. i + 1 \in 1..Len(send_que) /\ j + 1 \in 1..Len(send_que) /\ i + 1 < j + 1
    BY <1>3, <2>1
  <2>3. QED
    BY <2>2 DEF OrderInv
<1>5. \A i \in 1..Len(wire), j \in 1..Len(send_que') : wire[i] < send_que'[j]
  BY <1>1, <1>2, <1>3 DEF OrderInv
<1>6. QED
  BY <1>2, <1>3, <1>4, <1>5 DEF OrderInv

LEMMA NextOrder == PumpInv /\ OrderInv /\ [Next]_vars => OrderInv'
<1> SUFFICES ASSUME PumpInv, OrderInv, [Next]_vars PROVE OrderInv'
  OBVIOUS
<1>1. ASSUME NEW f \in Frame, HandleWriteError(f) PROVE OrderInv'
  <2>1. UNCHANGED <<sent, send_que, wire>> /\ ~FrontWritten
    BY <1>1 DEF HandleWriteError, FrontWritten
  <2>2. QED
    BY <2>1 DEF OrderInv
<1>2. CASE HandleReadError
  BY <1>2 DEF HandleReadError, OrderInv, FrontWritten
<1>3. CASE UNCHANGED vars
  BY <1>3 DEF vars, OrderInv, FrontWritten
<1>4. QED
  BY <1>1, <1>2, <1>3, SendOrder, SocketOrder, WriteOkOrder DEF Next, HandleWrite

LEMMA InitOrder == Init => OrderInv
BY DEF Init, OrderInv

LEMMA OrderGivesFrames == PumpInv /\ OrderInv => FramesInOrder
<1> SUFFICES ASSUME PumpInv, OrderInv PROVE FramesInOrder
  OBVIOUS
<1>1. send_que \in Seq(Nat) /\ wire \in Seq(Nat)
  BY SendQueueAssumption DEF PumpInv, TypeOK, Frame
<1>2. CASE FrontWritten
  <2>1. Unwritten = Tail(send_que) /\ send_que # <<>>
    BY <1>2 DEF Unwritten, FrontWritten, PumpInv, OneWriteAtATime
  <2>2. /\ Unwritten \in Seq(Nat)
        /\ Len(Unwritten) = Len(send_que) - 1
        /\ \A i \in 1..Len(Unwritten) : Unwritten[i] = send_que[i + 1]
    BY <1>1, <2>1
  <2>3. \A i \in 1..Len(Unwritten) : i + 1 \in 1..Len(send_que) /\ i + 1 # 1
    BY <1>1, <2>2
  <2>4. QED
    <3>1. \A i, j \in 1..Len(Unwritten) : i < j => Unwritten[i] < Unwritten[j]
      <4>1. SUFFICES ASSUME NEW i \in 1..Len(Unwritten), NEW j \in 1..Len(Unwritten), i < j
                     PROVE  send_que[i + 1] < send_que[j + 1]
        BY <2>2
      <4>2. i + 1 \in 1..Len(send_que) /\ j + 1 \in 1..Len(send_que) /\ i + 1 < j + 1
        BY <2>3, <4>1
      <4>3. QED
        BY <4>2 DEF OrderInv
    <3>2. \A i \in 1..Len(wire), j \in 1..Len(Unwritten) : wire[i] < Unwritten[j]
      BY <1>1, <2>2, <2>3 DEF OrderInv
    <3>3. DOMAIN wire = 1..Len(wire) /\ DOMAIN Unwritten = 1..Len(Unwritten)
      BY <1>1, <2>2
    <3>4. QED
      BY <3>1, <3>2, <3>3 DEF FramesInOrder, OutboxOf!Ordered, OutboxOf!Increasing, OrderInv
<1>3. CASE ~FrontWritten
  <2>1. Unwritten = send_que
    BY <1>3 DEF Unwritten, FrontWritten
  <2>2. QED
    <3>1. DOMAIN wire = 1..Len(wire) /\ DOMAIN send_que = 1..Len(send_que)
      BY <1>1
    <3>2. QED
      BY <1>3, <2>1, <3>1 DEF FramesInOrder, OutboxOf!Ordered, OutboxOf!Increasing, OrderInv
<1>4. QED
  BY <1>2, <1>3

(* Frames are written in the order of the Send calls, each at most once. *)
THEOREM OrderCorrect == Spec => []FramesInOrder
BY InitOrder, NextOrder, OrderGivesFrames, PumpCorrect, PTL DEF Spec

-----------------------------------------------------------------------------
(* Every step of the session is a step of the ordered outbox, or none. *)
THEOREM OutboxImplemented == Spec => ImplementsOutbox
<1>1. Init => OutboxOf!Init
  BY DEF Init, OutboxOf!Init, Unwritten
<1>2. PumpInv /\ [Next]_vars => [OutboxOf!Next]_(OutboxOf!vars)
  <2> SUFFICES ASSUME PumpInv, [Next]_vars
               PROVE  OutboxOf!Next \/ UNCHANGED <<sent, Unwritten, wire>>
    BY DEF OutboxOf!vars
  <2> USE SendQueueAssumption DEF PumpInv, TypeOK, OneWriteAtATime
  <2>1. CASE Send /\ QueueFull
    <3>1. Len(Unwritten) >= MAX_SENDQUE
      BY <2>1 DEF QueueFull, Unwritten
    <3>2. QED
      BY <2>1, <3>1 DEF Send, Unwritten, OutboxOf!Next, OutboxOf!Refuse
  <2>2. CASE Send /\ ~QueueFull
    <3>1. sent' \in Frame
      BY <2>2 DEF Send, Frame
    <3>2. Len(Unwritten) <= MAX_SENDQUE
      BY <2>2 DEF QueueFull, Unwritten
    <3>3. Unwritten' = Append(Unwritten, sent')
      <4>1. CASE send_que = <<>>
        BY <2>2, <3>1, <4>1 DEF Send, StartsWrite, Unwritten
      <4>2. CASE send_que # <<>>
        <5>1. send_que' = Append(send_que, sent') /\ UNCHANGED <<writing, written>>
          BY <2>2, <4>2 DEF Send, StartsWrite
        <5>2. Tail(Append(send_que, sent')) = Append(Tail(send_que), sent')
          BY <3>1, <4>2
        <5>3. QED
          BY <5>1, <5>2 DEF Unwritten
      <4>3. QED
        BY <4>1, <4>2
    <3>4. QED
      BY <2>2, <3>2, <3>3 DEF Send, OutboxOf!Next, OutboxOf!Accept
  <2>3. ASSUME NEW f \in Frame, SocketTakes(f) PROVE OutboxOf!Deliver
    BY <2>3 DEF SocketTakes, Unwritten, OutboxOf!Deliver
  <2>4. ASSUME NEW f \in Frame, HandleWriteOk(f)
        PROVE  UNCHANGED <<sent, Unwritten, wire>>
    BY <2>4 DEF HandleWriteOk, FrontAfterPop, Unwritten
  <2>5. ASSUME NEW f \in Frame, HandleWriteError(f)
        PROVE  UNCHANGED <<sent, Unwritten, wire>>
    BY <2>5 DEF HandleWriteError, Unwritten
  <2>6. CASE HandleReadError
    BY <2>6 DEF HandleReadError, Unwritten
  <2>7. CASE UNCHANGED vars
    BY <2>7 DEF vars, Unwritten
  <2>8. QED
    BY <2>1, <2>2, <2>3, <2>4, <2>5, <2>6, <2>7 DEF Next, HandleWrite, OutboxOf!Next
<1>3. QED
  BY <1>1, <1>2, PumpCorrect, PTL DEF Spec, ImplementsOutbox, OutboxOf!Spec

-----------------------------------------------------------------------------
(* A frame leaves the queue from the front, when it is on the wire, and    *)
(* for no other reason; new frames go to the back.                         *)
FrontOnWire == wire # <<>> /\ wire[Len(wire)] = Head(send_que)

QueueAdvances ==
    \/ send_que' = send_que
    \/ send_que' = Append(send_que, sent')
    \/ send_que # <<>> /\ send_que' = Tail(send_que) /\ FrontOnWire /\ wire' = wire

WrittenInv == written # {} => send_que # <<>> /\ FrontOnWire

LEMMA WrittenStep == PumpInv /\ WrittenInv /\ [Next]_vars => WrittenInv'
<1> SUFFICES ASSUME PumpInv, WrittenInv, [Next]_vars PROVE WrittenInv'
  OBVIOUS
<1>0. send_que \in Seq(Frame) /\ wire \in Seq(Frame) /\ written \subseteq writing
  BY DEF PumpInv, TypeOK
<1>1. CASE Send
  <2>1. UNCHANGED <<written, wire>>
    BY <1>1 DEF Send
  <2>2. CASE QueueFull
    BY <1>1, <2>1, <2>2 DEF Send, WrittenInv, FrontOnWire
  <2>3. CASE ~QueueFull /\ send_que # <<>>
    <3>1. send_que' = Append(send_que, sent') /\ sent' \in Frame
      BY <1>1, <2>3, SendQueueAssumption DEF Send, PumpInv, TypeOK, Frame
    <3>2. send_que' # <<>> /\ Head(send_que') = Head(send_que)
      BY <1>0, <2>3, <3>1
    <3>3. QED
      BY <2>1, <3>2 DEF WrittenInv, FrontOnWire
  <2>4. CASE send_que = <<>>
    BY <2>1, <2>4 DEF WrittenInv
  <2>5. QED
    BY <2>2, <2>3, <2>4
<1>2. ASSUME NEW f \in Frame, SocketTakes(f) PROVE WrittenInv'
  <2>1. send_que # <<>> /\ f = Head(send_que)
    BY <1>2 DEF SocketTakes, PumpInv, OneWriteAtATime
  <2>2. wire' = Append(wire, f) /\ send_que' = send_que
    BY <1>2 DEF SocketTakes
  <2>3. wire' # <<>> /\ wire'[Len(wire')] = f
    BY <1>0, <2>2
  <2>4. QED
    BY <2>1, <2>2, <2>3 DEF WrittenInv, FrontOnWire
<1>3. ASSUME NEW f \in Frame, HandleWriteOk(f) PROVE WrittenInv'
  <2>1. writing = {Head(send_que)} /\ f \in written
    BY <1>0, <1>3 DEF HandleWriteOk, PumpInv, OneWriteAtATime
  <2>2. written' = {}
    BY <1>0, <1>3, <2>1 DEF HandleWriteOk
  <2>3. QED
    BY <2>2 DEF WrittenInv
<1>4. ASSUME NEW f \in Frame, HandleWriteError(f) PROVE WrittenInv'
  BY <1>4 DEF HandleWriteError, WrittenInv, FrontOnWire
<1>5. CASE HandleReadError
  BY <1>5 DEF HandleReadError, WrittenInv, FrontOnWire
<1>6. CASE UNCHANGED vars
  BY <1>6 DEF vars, WrittenInv, FrontOnWire
<1>7. QED
  BY <1>1, <1>2, <1>3, <1>4, <1>5, <1>6 DEF Next, HandleWrite

(* What EventuallyWritten rests on: an accepted frame is never dropped or  *)
(* passed over; with PumpCorrect, while the socket is open a write of the  *)
(* front is under way, and each one that completes brings the rest nearer. *)
THEOREM NothingSkipped == Spec => [][QueueAdvances]_vars
<1>1. WrittenInv /\ [Next]_vars => [QueueAdvances]_vars
  <2> SUFFICES ASSUME WrittenInv, Next PROVE QueueAdvances
    BY DEF vars
  <2>1. CASE Send
    BY <2>1 DEF Send, QueueAdvances
  <2>2. ASSUME NEW f \in Frame, HandleWriteOk(f) PROVE QueueAdvances
    <3>1. written # {} /\ send_que' = Tail(send_que) /\ wire' = wire
      BY <2>2 DEF HandleWriteOk
    <3>2. QED
      BY <3>1 DEF WrittenInv, QueueAdvances
  <2>3. ASSUME NEW f \in Frame, SocketTakes(f) \/ HandleWriteError(f) PROVE QueueAdvances
    BY <2>3 DEF SocketTakes, HandleWriteError, QueueAdvances
  <2>4. CASE HandleReadError
    BY <2>4 DEF HandleReadError, QueueAdvances
  <2>5. QED
    BY <2>1, <2>2, <2>3, <2>4 DEF Next, HandleWrite
<1>2. Init => WrittenInv
  BY DEF Init, WrittenInv
<1>3. QED
  BY <1>1, <1>2, WrittenStep, PumpCorrect, PTL DEF Spec
=============================================================================
