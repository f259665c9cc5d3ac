----------------------------- MODULE TcpFraming -----------------------------
(***************************************************************************)
(* The client's end of a chat connection: the readyRead handler of TcpMgr  *)
(* (llfcChatClient/llfcchat/tcpmgr.cpp:13-55), which cuts the byte stream  *)
(* of the server into frames: a header of four bytes, message id and body  *)
(* length, then the body.                                                  *)
(*                                                                         *)
(* Bytes are named by their place in the stream of the connection, so that *)
(* _buffer is what lies between the bytes cut off and the bytes received.  *)
(* QDataStream reads through a position of its own, which starts at the    *)
(* front of _buffer in each call and does not move when _buffer is cut.    *)
(*                                                                         *)
(* The Qt event loop runs one call at a time; its steps are separate       *)
(* actions only because the handler is a loop.                             *)
(***************************************************************************)
EXTENDS Integers, Sequences

CONSTANTS
    N,        \* frames the server sends
    Offset,   \* where frame i begins; Offset[N + 1] is the end of the stream
    BadLens   \* lengths that four bytes which are not a header may spell

HEAD == 4

ASSUME TcpFramingAssumption ==
    /\ N \in Nat
    /\ Offset \in [1..N + 1 -> Nat]
    /\ Offset[1] = 0
    /\ \A i, j \in 1..N + 1 : i < j => Offset[i] + HEAD <= Offset[j]
    /\ BadLens \subseteq Nat

VARIABLES
    received,      \* bytes appended to _buffer so far
    consumed,      \* bytes cut off its front so far
    pos,           \* the position of the QDataStream in _buffer
    recv_pending,  \* _b_recv_pending
    message,       \* _message_id: the frame it belongs to, 0 for none
    message_len,   \* _message_len
    at,            \* the handler: "idle", at the top of its "loop", "body"
    handled,       \* what handleMsg was called with: frames, 0 for rubbish
    reread         \* history: some call has read a second header

tcp_vars == <<received, consumed, pos, recv_pending, message, message_len, at, handled, reread>>

TcpInit ==
    /\ received = 0 /\ consumed = 0 /\ pos = 0
    /\ recv_pending = FALSE
    /\ message = 0 /\ message_len = 0
    /\ at = "idle"
    /\ handled = <<>>
    /\ reread = FALSE

-----------------------------------------------------------------------------
BodyLen(i) == Offset[i + 1] - (Offset[i] + HEAD)
BufferSize == received - consumed

(* What the stream operators read at place p: zeros past the end of the    *)
(* buffer, a header, or four bytes of something else.                      *)
HeaderAt(p, id, len) ==
    \/ p + HEAD > received /\ id = 0 /\ len = 0
    \/ \E i \in 1..N : /\ p + HEAD <= received /\ p = Offset[i]
                       /\ id = i /\ len = BodyLen(i)
    \/ /\ p + HEAD <= received /\ \A i \in 1..N : p # Offset[i]
       /\ id = 0 /\ len \in BadLens

(* Faulty variants of definitions below, used only by the mutation runs:   *)
(* the header is not cut off, a complete body is waited for, the call goes *)
(* on where it should return.                                              *)
HeaderStays ==
    /\ at = "loop" /\ ~recv_pending
    /\ BufferSize >= HEAD
    /\ HeaderAt(consumed + pos, message', message_len')
    /\ pos' = pos + HEAD
    /\ reread' = (reread \/ pos > 0)
    /\ at' = "body"
    /\ UNCHANGED <<received, consumed, recv_pending, handled>>
BodyNotAwaited ==
    /\ at = "body" \/ (at = "loop" /\ recv_pending)
    /\ BufferSize < message_len
    /\ recv_pending' = TRUE
    /\ at' = "loop"
    /\ UNCHANGED <<received, consumed, pos, message, message_len, handled, reread>>
IncompleteAtEnd == BufferSize <= message_len

(* The bytes that have arrived, any number of them, are appended. *)
ReadyRead ==
    /\ at = "idle"
    /\ \E n \in 1..Offset[N + 1] :
         /\ received + n <= Offset[N + 1]
         /\ received' = received + n
    /\ pos' = 0
    /\ at' = "loop"
    /\ UNCHANGED <<consumed, recv_pending, message, message_len, handled, reread>>

WaitsForHeader ==
    /\ at = "loop" /\ ~recv_pending
    /\ BufferSize < HEAD
    /\ at' = "idle"
    /\ UNCHANGED <<received, consumed, pos, recv_pending, message, message_len, handled, reread>>

ReadsHeader ==
    /\ at = "loop" /\ ~recv_pending
    /\ BufferSize >= HEAD
    /\ HeaderAt(consumed + pos, message', message_len')
    /\ pos' = pos + HEAD
    /\ consumed' = consumed + HEAD
    /\ reread' = (reread \/ pos > 0)
    /\ at' = "body"
    /\ UNCHANGED <<received, recv_pending, handled>>

(* A pending body is looked at without reading a header first. *)
AtBody == at = "body" \/ (at = "loop" /\ recv_pending)

Incomplete == BufferSize < message_len

WaitsForBody ==
    /\ AtBody
    /\ Incomplete
    /\ recv_pending' = TRUE
    /\ at' = "idle"
    /\ UNCHANGED <<received, consumed, pos, message, message_len, handled, reread>>

(* The bytes handed over are those of the frame the header announced. *)
IsBody(i) == i \in 1..N /\ consumed = Offset[i] + HEAD /\ message_len = BodyLen(i)

HandlesMsg ==
    /\ AtBody
    /\ ~Incomplete
    /\ recv_pending' = FALSE
    /\ consumed' = consumed + message_len
    /\ handled' = Append(handled, IF IsBody(message) THEN message ELSE 0)
    /\ at' = "loop"
    /\ UNCHANGED <<received, pos, message, message_len, reread>>

Loop == WaitsForHeader \/ ReadsHeader \/ WaitsForBody \/ HandlesMsg

TcpNext == ReadyRead \/ Loop

TcpSpec == TcpInit /\ [][TcpNext]_tcp_vars

(* A call of the handler runs; the server need not send all its frames. *)
TcpFairSpec == TcpSpec /\ WF_tcp_vars(Loop)

-----------------------------------------------------------------------------
TcpTypeOK ==
    /\ received \in 0..Offset[N + 1]
    /\ consumed \in Nat /\ pos \in Nat
    /\ recv_pending \in BOOLEAN
    /\ message \in 0..N /\ message_len \in Nat
    /\ at \in {"idle", "loop", "body"}
    /\ handled \in Seq(0..N)
    /\ reread \in BOOLEAN

InOrder == \A i \in DOMAIN handled : handled[i] = i

(* However the stream is cut, the frames are handled whole and in order as *)
(* long as no call has read a second header (the position of the stream    *)
(* would be four bytes ahead of the buffer).                               *)
HandledInOrder == ~reread => InOrder

(* ... and none is withheld: when a call returns, every frame whose last   *)
(* byte has arrived has been handled.                                      *)
NothingWithheld ==
    at = "idle" /\ ~reread =>
        \A i \in 1..N : Offset[i + 1] <= received => i <= Len(handled)

(* The buffer is never cut beyond its end, whatever lengths are read.      *)
CutsWithinBuffer == consumed <= received

(* The `forever' of the handler ends, whatever it reads.                   *)
CallReturns == at # "idle" ~> at = "idle"

(* tcpmgr.cpp:32, "remove the first four bytes of the buffer": the bytes   *)
(* removed are the header just read, so that every frame is handled.       *)
EveryFrameHandled == InOrder
=============================================================================
