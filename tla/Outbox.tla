------------------------------- MODULE Outbox -------------------------------
(***************************************************************************)
(* What CSession::Send promises the rest of the chat server: the frames    *)
(* offered to a session leave in the order in which they were offered,     *)
(* each at most once, and a frame is refused only when the session already *)
(* has Capacity frames waiting.  Frames are named by the number of the     *)
(* Send call that offered them.                                            *)
(***************************************************************************)
EXTENDS Naturals, Sequences

CONSTANT Capacity    \* frames that may wait before one is refused

VARIABLES
    offered,    \* number of frames offered so far
    pending,    \* the accepted frames not on the wire yet, in order
    delivered   \* the frames the wire has carried, in order

vars == <<offered, pending, delivered>>

Init ==
    /\ offered = 0
    /\ pending = <<>>
    /\ delivered = <<>>

Accept ==
    /\ Len(pending) <= Capacity
    /\ offered' = offered + 1
    /\ pending' = Append(pending, offered')
    /\ UNCHANGED delivered

Refuse ==
    /\ Len(pending) >= Capacity
    /\ offered' = offered + 1
    /\ UNCHANGED <<pending, delivered>>

Deliver ==
    /\ pending # <<>>
    /\ delivered' = Append(delivered, Head(pending))
    /\ pending' = Tail(pending)
    /\ UNCHANGED offered

Next == Accept \/ Refuse \/ Deliver

Spec == Init /\ [][Next]_vars

-----------------------------------------------------------------------------
Increasing(s) == \A i, j \in DOMAIN s : i < j => s[i] < s[j]

(* What was carried and what still waits is one increasing sequence: no    *)
(* frame is carried twice, and none overtakes an earlier one.              *)
Ordered ==
    /\ Increasing(delivered)
    /\ Increasing(pending)
    /\ \A i \in DOMAIN delivered, j \in DOMAIN pending : delivered[i] < pending[j]
=============================================================================
