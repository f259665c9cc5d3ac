------------------------------ MODULE MCClient -------------------------------
(***************************************************************************)
(* Client with pages of one friend: friend lists of none, two and three    *)
(* friends, with an application of cat that waits.                         *)
(***************************************************************************)
EXTENDS Client, TLC

CONSTANTS ann, bob, cat

MCFriendLists == {<<>>, <<ann, bob>>, <<ann, bob, cat>>}
MCApplies == {{cat}}
=============================================================================
