---------------------------- MODULE MCFrontDoor -----------------------------
(***************************************************************************)
(* FrontDoor in some scenarios: codes and accounts, with failures and with *)
(* a new password; a user's way from the code to the chat server; and      *)
(* logins alone, with chat servers that stop, crash and start.             *)
(***************************************************************************)
EXTENDS FrontDoor, TLC

CONSTANTS ann, bob, annMail, bobMail, p1, d1, d2, d3, s1, s2, t1, t2

AnnOnly == [n \in Names |->
    IF n = ann THEN [email |-> annMail, pwd |-> p1, proof |-> 0] ELSE NoRow]
Budget(c, g, r, l, f, o) ==
    [b \in Bounds |-> CASE b = "code" -> c [] b = "register" -> g [] b = "reset" -> r
                        [] b = "login" -> l [] b = "fault" -> f [] OTHER -> o]
MCTables == {AnnOnly}
MCBudgets ==
    {Budget(2, 1, 0, 0, 1, 1), Budget(2, 1, 1, 0, 0, 0), Budget(1, 1, 0, 1, 1, 0),
     Budget(0, 0, 0, 4, 0, 1), Budget(0, 0, 0, 3, 2, 1)}
MCOrder == <<s1, s2>>
Symmetry == Permutations(Devices) \cup Permutations(Threads)
=============================================================================
