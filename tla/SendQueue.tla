----------------------------- MODULE SendQueue ------------------------------
(***************************************************************************)
(* The outgoing side of one chat session: CSession::Send and HandleWrite   *)
(* of ChatServer/CSession.cpp.  Any thread calls Send (the logic thread,   *)
(* the gRPC handlers); the session's io_context thread runs HandleWrite    *)
(* and the read handlers.  Send runs under _send_lock from its first line  *)
(* to its last and never waits, and so does the successful branch of       *)
(* HandleWrite, so each is one step.                                       *)
(*                                                                         *)
(* A frame is named by the number of the Send call it comes from: its      *)
(* bytes do not matter here, only its identity and its place.              *)
(***************************************************************************)
EXTENDS Naturals, Sequences, FiniteSets

CONSTANTS
    MAX_SENDQUE,   \* const.h:60, 1000 in the program
    MaxSends       \* bound: the number of Send calls explored

ASSUME SendQueueAssumption == MAX_SENDQUE \in Nat /\ MaxSends \in Nat

VARIABLES
    sent,       \* number of Send calls made so far
    send_que,  \* the frames queued, the one being written included
    writing,    \* frames handed to async_write whose handler has not run
    written,    \* those of writing whose last byte the socket has taken
    wire,       \* the complete frames the socket has taken, in order
    torn,       \* a failed write may have left part of a frame on the wire
    open        \* the socket has not been closed by Close()

vars == <<sent, send_que, writing, written, wire, torn, open>>

Frame == 1..MaxSends

Init ==
    /\ sent = 0
    /\ send_que = <<>>
    /\ writing = {}
    /\ written = {}
    /\ wire = <<>>
    /\ torn = FALSE
    /\ open = TRUE

-----------------------------------------------------------------------------
(* Faulty variants of definitions below, used only by the mutation runs.   *)
BackAfterPop == IF Tail(send_que) = <<>> THEN {} ELSE {send_que[Len(send_que)]}
NothingAfterPop == {}
ErrorWithoutClose(f) ==
    /\ f \in writing \ written
    /\ send_que' = Tail(send_que)
    /\ writing' = (writing \ {f}) \union
                     (IF Tail(send_que) = <<>> THEN {} ELSE {Head(Tail(send_que))})
    /\ torn' \in {torn, TRUE}
    /\ UNCHANGED <<sent, written, wire, open>>

-----------------------------------------------------------------------------
(* CSession.cpp:45: the size is compared with >, so that the queue takes   *)
(* one frame more than MAX_SENDQUE.                                        *)
QueueFull == Len(send_que) > MAX_SENDQUE

(* CSession.cpp:51: the call that finds the queue empty starts the write.  *)
StartsWrite == send_que = <<>>

(* For a mutation run: every Send writes its own frame at once. *)
SendWritesAtOnce ==
    /\ sent < MaxSends
    /\ sent' = sent + 1
    /\ IF QueueFull
         THEN UNCHANGED <<send_que, writing>>
         ELSE /\ send_que' = Append(send_que, sent')
              /\ writing' = writing \union {sent'}
    /\ UNCHANGED <<written, wire, torn, open>>

Send ==
    /\ sent < MaxSends
    /\ sent' = sent + 1
    /\ IF QueueFull
         THEN UNCHANGED <<send_que, writing>>
         ELSE /\ send_que' = Append(send_que, sent')
              /\ writing' = IF StartsWrite THEN writing \union {Head(send_que')}
                                           ELSE writing
    /\ UNCHANGED <<written, wire, torn, open>>

(* The socket takes the last byte of a frame: the composed operation that  *)
(* async_write started has completed and its handler is ready to run.      *)
SocketTakes(f) ==
    /\ open
    /\ f \in writing \ written
    /\ written' = written \union {f}
    /\ wire' = Append(wire, f)
    /\ UNCHANGED <<sent, send_que, writing, torn, open>>

(* HandleWrite without an error: pop the frame, write the next one. *)
FrontAfterPop == IF Tail(send_que) = <<>> THEN {} ELSE {Head(Tail(send_que))}

HandleWriteOk(f) ==
    /\ f \in written
    /\ send_que' = Tail(send_que)
    /\ writing' = (writing \ {f}) \union FrontAfterPop
    /\ written' = written \ {f}
    /\ UNCHANGED <<sent, wire, torn, open>>

(* HandleWrite with an error: Close().  The queue keeps its frames, so no  *)
(* later Send starts a write.  A write may fail at any time, always once   *)
(* the socket is closed, and may have sent part of the frame.              *)
HandleWriteError(f) ==
    /\ f \in writing \ written
    /\ writing' = writing \ {f}
    /\ torn' \in {torn, TRUE}
    /\ open' = FALSE
    /\ UNCHANGED <<sent, send_que, written, wire>>

(* A read handler that gets an error (the client went away, or the         *)
(* connection failed) closes the socket under the writer.                  *)
HandleReadError ==
    /\ open
    /\ open' = FALSE
    /\ UNCHANGED <<sent, send_que, writing, written, wire, torn>>

HandleWrite == \E f \in Frame : HandleWriteOk(f) \/ HandleWriteError(f)

Next ==
    \/ Send
    \/ \E f \in Frame : SocketTakes(f)
    \/ HandleWrite
    \/ HandleReadError

(* The io_context thread runs every handler that is ready.  A client that  *)
(* stays connected keeps reading, so the socket goes on taking bytes: the  *)
(* program itself has no timeout for a client that stops.                  *)
Fairness ==
    /\ WF_vars(HandleWrite)
    /\ WF_vars(\E f \in Frame : SocketTakes(f))

Spec == Init /\ [][Next]_vars
FairSpec == Spec /\ Fairness

-----------------------------------------------------------------------------
TypeOK ==
    /\ sent \in 0..MaxSends
    /\ send_que \in Seq(Frame)
    /\ writing \subseteq Frame
    /\ written \subseteq writing
    /\ wire \in Seq(Frame)
    /\ torn \in BOOLEAN
    /\ open \in BOOLEAN

(* A socket never carries two async_write operations at once (their bytes  *)
(* would interleave): the only frame being written is the queue's front,   *)
(* although Send on any thread and HandleWrite both start writes.          *)
OneWriteAtATime ==
    writing # {} => send_que # <<>> /\ writing = {Head(send_que)}

(* While the socket is open a non-empty queue is being written: nobody     *)
(* queues a frame behind a write that has already ended.                   *)
PumpAlive == open /\ send_que # <<>> => writing # {}

(* The queue holds at most one frame more than MAX_SENDQUE, whatever the   *)
(* client does and also after the socket has failed.                       *)
QueueBounded == Len(send_que) <= MAX_SENDQUE + 1

(* After a write that may have left half a frame on the stream nothing     *)
(* more is written: the receiver never has to resynchronise.               *)
NothingAfterTornFrame == [][torn => wire' = wire]_vars

(* The frames not on the wire: all but a front already written. *)
Unwritten ==
    IF writing # {} /\ writing = written THEN Tail(send_que) ELSE send_que

(* Send and HandleWrite implement the ordered outbox. *)
OutboxOf == INSTANCE Outbox
    WITH Capacity <- MAX_SENDQUE, offered <- sent,
         pending <- Unwritten, delivered <- wire

ImplementsOutbox == OutboxOf!Spec

(* The frames carried and the frames waiting form one increasing sequence: *)
(* none is written twice, none overtakes one accepted before it.           *)
FramesInOrder == OutboxOf!Ordered

(* Every frame accepted is written, unless the connection ends. *)
EventuallyWritten ==
    \A f \in Frame :
        (\E i \in DOMAIN send_que : send_que[i] = f)
            ~> ((\E i \in DOMAIN wire : wire[i] = f) \/ ~open)
=============================================================================
