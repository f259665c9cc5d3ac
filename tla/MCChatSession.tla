--------------------------- MODULE MCChatSession ----------------------------
(***************************************************************************)
(* ChatSession with two connections and two users: one client logs in as   *)
(* both users, or each client as the first of them.  The other orders of   *)
(* two logins are these with the users or the connections exchanged; two   *)
(* users with a connection each do not meet in the user table.             *)
(***************************************************************************)
EXTENDS ChatSession

CONSTANTS s1, s2, u1, u2, l1, l2, l3

Through == [l \in Logins |-> IF l = l3 THEN s2 ELSE s1]
Claims == [l \in Logins |-> IF l = l2 THEN u2 ELSE u1]
Scenarios == {{l1}, {l1, l2}, {l1, l3}}
=============================================================================
