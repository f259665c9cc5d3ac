--------------------------- MODULE MCChatRouting ----------------------------
(***************************************************************************)
(* ChatRouting with two servers and two users.  A configuration explores a *)
(* friend request and a text from one to the other, or two texts in        *)
(* opposite directions.                                                    *)
(***************************************************************************)
EXTENDS ChatRouting, TLC

CONSTANTS s1, s2, ann, bob, apply, text, reply

MCFrom == [r \in Requests |-> IF r = reply THEN bob ELSE ann]
MCTo == [r \in Requests |-> IF r = reply THEN ann ELSE bob]
MCMaxConns == [u \in Users |-> IF u = bob THEN 2 ELSE 1]
One == [u \in Users |-> 1]
\* Bob's list is empty or full before the request comes.
MCEarlier == {[u \in Users |-> 0], [u \in Users |-> IF u = bob THEN ListLimit ELSE 0]}
NoneEarlier == {[u \in Users |-> 0]}
Symmetry == Permutations(Servers)
=============================================================================
