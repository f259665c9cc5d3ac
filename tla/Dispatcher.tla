----------------------------- MODULE Dispatcher -----------------------------
(***************************************************************************)
(* What LogicSystem promises the sessions that post to it: the messages    *)
(* are taken in the order in which they were posted, each exactly once,    *)
(* and those whose id has a callback are handled.  A message is named by   *)
(* the number of the PostMsgToQue call that posted it.                     *)
(***************************************************************************)
EXTENDS Naturals, Sequences

CONSTANT Registered   \* the messages whose id is in _func_callbacks

VARIABLES
    posted,    \* number of messages posted so far
    backlog,   \* the messages not taken yet, in order
    handled    \* the messages whose callback has run, in order

vars == <<posted, backlog, handled>>

Init ==
    /\ posted = 0
    /\ backlog = <<>>
    /\ handled = <<>>

Post ==
    /\ posted' = posted + 1
    /\ backlog' = Append(backlog, posted')
    /\ UNCHANGED handled

Handle ==
    /\ backlog # <<>>
    /\ Head(backlog) \in Registered
    /\ handled' = Append(handled, Head(backlog))
    /\ backlog' = Tail(backlog)
    /\ UNCHANGED posted

Skip ==
    /\ backlog # <<>>
    /\ Head(backlog) \notin Registered
    /\ backlog' = Tail(backlog)
    /\ UNCHANGED <<posted, handled>>

Next == Post \/ Handle \/ Skip

Spec == Init /\ [][Next]_vars
=============================================================================
