------------------------------ MODULE MCSqlDao ------------------------------
(***************************************************************************)
(* SqlDao with two users who ask each other to be friends and confirm it,  *)
(* one of whom also logs in, and a third who may have asked him before.    *)
(***************************************************************************)
EXTENDS SqlDao

CONSTANTS ann, bob, cid, ask, askBack, confirm, confirmBack, enter, s1, s2

MCKind == [r \in Requests |->
    IF r \in {ask, askBack} THEN "apply" ELSE IF r = enter THEN "login" ELSE "auth"]
MCFrom == [r \in Requests |-> IF r \in {ask, confirmBack} THEN ann ELSE bob]
MCTo == [r \in Requests |-> IF r \in {ask, confirmBack} THEN bob ELSE ann]
MCHome == [r \in Requests |-> IF MCFrom[r] = ann THEN s1 ELSE s2]
\* With ListLimit 1, the list of bob's requests may be full from the beginning.
MCEarlier == {{}, {<<"applied", cid, bob>>}}
=============================================================================
