------------------------- MODULE ChatSessionProofs --------------------------
(***************************************************************************)
(* Proofs about ChatSession, for any sessions, users and logins.  Whoever  *)
(* is in the user table got there by a login he passed; where ClearSession *)
(* stands decides whether the entry is removed again, and the histories    *)
(* name every way it is not.  No lost connection and no login is forgotten *)
(* between the handlers, and no handler goes back.                         *)
(***************************************************************************)
EXTENDS ChatSession, TLAPS

Accepted(s) == link[s] # "none"

(* Only accepted sessions take part in anything, ... *)
ChainInv == \A s \in Sessions : read[s] # "none" \/ write[s] # "idle" => Accepted(s)

QueuedInv == \A i \in DOMAIN msg_que : Accepted(SessionOf[msg_que[i]])

HandlerInv ==
    /\ \A u \in Users : uid_to_session[u] # None => Accepted(uid_to_session[u])
    /\ notice # NoNotice => /\ notice.session \in Sessions /\ notice.uid \in Users
                            /\ Accepted(notice.session)
    /\ io.at # "idle" => io.session \in Sessions /\ Accepted(io.session)
    /\ io.at = "post" => io.login \in Logins /\ SessionOf[io.login] = io.session

(* ... and each of them is about to enter _sessions, is in it, or has been *)
(* cleared.                                                                *)
EntryInv ==
    /\ acceptor # None => Accepted(acceptor) /\ acceptor \notin sessions
    /\ \A s \in sessions \union cleared : Accepted(s)
    /\ \A s \in Sessions : Accepted(s) => s = acceptor \/ s \in sessions \union cleared

(* A session's uid is that of a login it passed, and stays what the login  *)
(* in hand has set it to until that login is entered in the user table.    *)
UidInv ==
    /\ \A s \in Sessions : user_uid[s] # None => LoggedIn(s, user_uid[s])
    /\ logic # "wait" => msg_que # <<>>
    /\ logic \in {"uid set", "mapped"} =>
          /\ user_uid[SessionOf[Head(msg_que)]] = UserOf[Head(msg_que)]
          /\ Head(msg_que) \in passed

BaseInv ==
    /\ TypeOK /\ ChainInv /\ QueuedInv /\ HandlerInv /\ EntryInv
    /\ UidInv /\ NoticeReachesItsUser

Slipped == early \union missed \union late

(* What ClearSession does not remove from the table it leaves there for    *)
(* one of the named reasons.                                               *)
Kept(s, u) == uid_to_session[u] = s => s \in Slipped \/ ChangedUser(s, u)

(* Where ClearSession stands: before the removal it has in hand a uid that *)
(* the session logged in as, and answers for every other one; after it for *)
(* all of them.                                                            *)
ClearInv ==
    /\ io.at = "rmv" => /\ io.session \in sessions
                        /\ io.uid # None => LoggedIn(io.session, io.uid)
                        /\ \A u \in Users : u # io.uid => Kept(io.session, u)
    /\ io.at = "erase" => \A u \in Users : Kept(io.session, u)
    /\ io.at = "erase" /\ io.session = acceptor => io.session \in early
    /\ acceptor \in cleared => acceptor \in early

(* A user is unmapped by the end of a session that logged in as him. *)
Unmapped(u) == \E s \in Sessions : Ended(s) /\ LoggedIn(s, u)

Reach ==
    \A l \in Logins :
        rsp[l] = "ok" \/ (logic = "mapped" /\ Head(msg_que) = l)
        => uid_to_session[UserOf[l]] # None \/ Unmapped(UserOf[l])

IInv ==
    /\ BaseInv
    /\ ClearInv /\ ClearedIsUnmapped /\ ClearedIsErased
    /\ Reach

-----------------------------------------------------------------------------
LEMMA TailElements ==
  ASSUME msg_que \in Seq(Logins), msg_que # <<>>
  PROVE  /\ Head(msg_que) \in Logins
         /\ Head(msg_que) = msg_que[1] /\ 1 \in DOMAIN msg_que
         /\ Tail(msg_que) \in Seq(Logins)
         /\ \A i \in DOMAIN Tail(msg_que) :
               i + 1 \in DOMAIN msg_que /\ Tail(msg_que)[i] = msg_que[i + 1]
OBVIOUS

LEMMA InitInv == Init => IInv
<1> SUFFICES ASSUME Init PROVE IInv
  OBVIOUS
<1> USE ChatSessionAssumption DEF Init, Idle, NoNotice
<1>1. TypeOK
  BY DEF TypeOK
<1>2. BaseInv
  BY <1>1 DEF BaseInv, ChainInv, QueuedInv, HandlerInv, EntryInv, UidInv, NoticeReachesItsUser, Accepted
<1>3. ClearInv /\ ClearedIsUnmapped /\ ClearedIsErased /\ Reach
  BY DEF ClearInv, ClearedIsUnmapped, ClearedIsErased, Reach
<1>4. QED
  BY <1>2, <1>3 DEF IInv

-----------------------------------------------------------------------------
(* The part about uids and accepted sessions stands by itself. *)
LEMMA Grows ==
  ASSUME TypeOK, [Next]_vars
  PROVE  \A s \in Sessions : Accepted(s) => Accepted(s)'
<1>1. CASE \E s \in Sessions : AcceptStarts(s) \/ LinkDown(s)
  BY <1>1 DEF AcceptStarts, LinkDown, TypeOK, Accepted
<1>2. ASSUME NEW s \in Sessions, Reads(s) \/ Writes(s) PROVE link' = link
  BY <1>2 DEF Reads, Writes, ReadsLogin, ReadFails, ReadsBadHeader, ReadsNegativeLength,
     WriteEnds, WriteFails, socket
<1>3. ASSUME \/ AcceptEmplaces \/ PostMsgToQue \/ ClearSession \/ LoginHandler
             \/ (\E u \in Users : NotifyFinds(u)) \/ NotifySends \/ UNCHANGED vars
      PROVE  link' = link
  BY <1>3 DEF vars, socket, AcceptEmplaces, PostMsgToQue, ClearSession, ClearFinds,
     ClearFindsNothing, RmvUserSession, ClearErases, LoginHandler, LoginRejected, LoginAccepted,
     SetUserId, SetUserSession, LoginAnswered, NotifyFinds, NotifySends
<1>4. QED
  BY <1>1, <1>2, <1>3 DEF Next, Accepted

(* What a session has logged in as stays so. *)
LEMMA LoggedInStays ==
  ASSUME passed \subseteq passed'
  PROVE  /\ \A s, u : LoggedIn(s, u) => LoggedIn(s, u)'
         /\ \A s, u : ChangedUser(s, u) => ChangedUser(s, u)'
BY DEF LoggedIn, ChangedUser

(* A step that sets no uid and enters no user keeps what is said of them.  *)
LEMMA UidFrame ==
  ASSUME BaseInv, passed' = passed, user_uid' = user_uid,
         logic' = "wait" \/ (logic' = logic /\ msg_que' = msg_que)
  PROVE  UidInv'
BY LoggedInStays DEF BaseInv, UidInv

LEMMA NoticeFrame ==
  ASSUME BaseInv, passed' = passed, user_uid' = user_uid,
         \A u \in Users : uid_to_session'[u] = uid_to_session[u] \/ uid_to_session'[u] = None,
         notice' = notice \/ notice' = NoNotice
  PROVE  NoticeReachesItsUser'
BY LoggedInStays DEF BaseInv, NoticeReachesItsUser, ReachesUser

LEMMA BaseStep == BaseInv /\ [Next]_vars => BaseInv'
<1> SUFFICES ASSUME BaseInv, [Next]_vars PROVE BaseInv'
  OBVIOUS
<1> USE ChatSessionAssumption DEF BaseInv, Idle, NoNotice
<1>0. \A s \in Sessions : Accepted(s) => Accepted(s)'
  BY Grows
<1>m. msg_que \in Seq(Logins)
  BY DEF TypeOK
<1>h. msg_que # <<>> => /\ Head(msg_que) \in Logins /\ SessionOf[Head(msg_que)] \in Sessions
                        /\ Accepted(SessionOf[Head(msg_que)])
                        /\ Tail(msg_que) \in Seq(Logins)
                        /\ \A i \in DOMAIN Tail(msg_que) :
                             i + 1 \in DOMAIN msg_que /\ Tail(msg_que)[i] = msg_que[i + 1]
  BY <1>m, TailElements DEF QueuedInv
<1>q. \A i \in DOMAIN msg_que : msg_que[i] \in Logins /\ SessionOf[msg_que[i]] \in Sessions
  BY <1>m
<1>1. ASSUME NEW s \in Sessions, AcceptStarts(s) PROVE BaseInv'
  <2>1. TypeOK'
    BY <1>1, <1>0 DEF AcceptStarts, tables, login, history, TypeOK
  <2>2. ChainInv'
    BY <1>1, <1>0 DEF AcceptStarts, tables, login, history, TypeOK, ChainInv, Accepted
  <2>3. QueuedInv'
    BY <1>1, <1>0, <1>q, <1>h DEF AcceptStarts, tables, login, history, TypeOK, QueuedInv
  <2>4. HandlerInv'
    BY <1>1, <1>0 DEF AcceptStarts, tables, login, history, TypeOK, HandlerInv
  <2>5. EntryInv'
    <3>1. /\ acceptor' = s /\ sessions' = sessions /\ cleared' = cleared
          /\ sessions \subseteq Sessions /\ cleared \subseteq Sessions
          /\ acceptor = None /\ s # None /\ ~Accepted(s) /\ Accepted(s)'
      BY <1>1 DEF AcceptStarts, tables, login, history, TypeOK, Accepted
    <3>2. \A t \in Sessions \ {s} : Accepted(t)' => Accepted(t)
      BY <1>1 DEF AcceptStarts, TypeOK, Accepted
    <3>3. /\ \A t \in sessions \union cleared : Accepted(t)
          /\ \A t \in Sessions : Accepted(t) => t = acceptor \/ t \in sessions \union cleared
      BY DEF EntryInv
    <3>4. None \notin Sessions
      BY ChatSessionAssumption
    <3>5. QED
      BY <1>0, <3>1, <3>2, <3>3, <3>4 DEF EntryInv
  <2>6. UidInv'
    BY <1>1, UidFrame DEF AcceptStarts, tables, login, history
  <2>7. NoticeReachesItsUser'
    BY <1>1, NoticeFrame DEF AcceptStarts, tables, login, history
  <2>8. QED
    BY <2>1, <2>2, <2>3, <2>4, <2>5, <2>6, <2>7
<1>2. CASE AcceptEmplaces
  <2>1. TypeOK'
    BY <1>2, <1>0, <1>q, <1>h DEF AcceptEmplaces, socket, login, history, TypeOK
  <2>2. ChainInv'
    BY <1>2, <1>0, <1>q, <1>h DEF AcceptEmplaces, socket, login, history, TypeOK,
       ChainInv, Accepted
  <2>3. QueuedInv'
    BY <1>2, <1>0, <1>q, <1>h DEF AcceptEmplaces, socket, login, history, TypeOK,
       QueuedInv
  <2>4. HandlerInv'
    BY <1>2, <1>0, <1>q, <1>h DEF AcceptEmplaces, socket, login, history, TypeOK,
       HandlerInv, QueuedInv
  <2>5. EntryInv'
    BY <1>2, <1>0, <1>q, <1>h DEF AcceptEmplaces, socket, login, history, TypeOK,
       EntryInv, HandlerInv, Accepted
  <2>6. UidInv'
    BY <1>2, UidFrame DEF AcceptEmplaces, socket, login, history
  <2>7. NoticeReachesItsUser'
    BY <1>2, NoticeFrame DEF AcceptEmplaces, socket, login, history
  <2>8. QED
    BY <2>1, <2>2, <2>3, <2>4, <2>5, <2>6, <2>7
<1>3. ASSUME NEW s \in Sessions, LinkDown(s) PROVE BaseInv'
  <2>1. TypeOK'
    BY <1>3, <1>0 DEF LinkDown, tables, login, history, TypeOK
  <2>2. ChainInv'
    BY <1>3, <1>0 DEF LinkDown, tables, login, history, TypeOK, ChainInv, Accepted
  <2>3. QueuedInv'
    BY <1>3, <1>0, <1>q, <1>h DEF LinkDown, tables, login, history, TypeOK, QueuedInv
  <2>4. HandlerInv'
    BY <1>3, <1>0 DEF LinkDown, tables, login, history, TypeOK, HandlerInv
  <2>5. EntryInv'
    <3>1. /\ acceptor' = acceptor /\ sessions' = sessions /\ cleared' = cleared
          /\ acceptor \in Sessions \union {None}
          /\ sessions \subseteq Sessions /\ cleared \subseteq Sessions
      BY <1>3 DEF LinkDown, tables, history, TypeOK
    <3>2. \A t \in Sessions : Accepted(t)' => Accepted(t)
      BY <1>3 DEF LinkDown, TypeOK, Accepted
    <3>3. QED
      BY <1>0, <3>1, <3>2 DEF EntryInv
  <2>6. UidInv'
    BY <1>3, UidFrame DEF LinkDown, tables, login, history
  <2>7. NoticeReachesItsUser'
    BY <1>3, NoticeFrame DEF LinkDown, tables, login, history
  <2>8. QED
    BY <2>1, <2>2, <2>3, <2>4, <2>5, <2>6, <2>7
<1>4. ASSUME NEW l \in Logins, ReadsLogin(l) PROVE BaseInv'
  <2>1. TypeOK'
    BY <1>4, <1>0, <1>q, <1>h DEF ReadsLogin, IoRuns, Alive, tables, socket, history,
       TypeOK
  <2>2. ChainInv'
    BY <1>4, <1>0, <1>q, <1>h DEF ReadsLogin, IoRuns, Alive, tables, socket, history,
       TypeOK, ChainInv, Accepted
  <2>3. QueuedInv'
    BY <1>4, <1>0, <1>q, <1>h DEF ReadsLogin, IoRuns, Alive, tables, socket, history,
       TypeOK, QueuedInv
  <2>4. HandlerInv'
    <3>1. uid_to_session' = uid_to_session /\ notice' = notice /\ io'.session = SessionOf[l] /\ io'.login = l
      BY <1>4 DEF ReadsLogin, IoRuns, tables
    <3>2. Accepted(SessionOf[l])
      BY <1>4 DEF ReadsLogin, ChainInv, Accepted
    <3>3. \A u \in Users : uid_to_session[u] \in Sessions \union {None}
      BY DEF TypeOK
    <3>4. QED
      BY <1>0, <3>1, <3>2, <3>3 DEF HandlerInv
  <2>5. EntryInv'
    BY <1>4, <1>0, <1>q, <1>h DEF ReadsLogin, IoRuns, Alive, tables, socket, history,
       TypeOK, EntryInv, HandlerInv, Accepted
  <2>6. UidInv'
    BY <1>4, UidFrame DEF ReadsLogin, IoRuns, Alive, tables, socket, history
  <2>7. NoticeReachesItsUser'
    BY <1>4, NoticeFrame DEF ReadsLogin, IoRuns, Alive, tables, socket, history
  <2>8. QED
    BY <2>1, <2>2, <2>3, <2>4, <2>5, <2>6, <2>7
<1>5. ASSUME NEW s \in Sessions, ReadFails(s) PROVE BaseInv'
  <2>1. TypeOK'
    BY <1>5, <1>0, <1>q, <1>h DEF ReadFails, IoRuns, tables, login, history, TypeOK
  <2>2. ChainInv'
    BY <1>5, <1>0, <1>q, <1>h DEF ReadFails, IoRuns, tables, login, history, TypeOK,
       ChainInv, Accepted
  <2>3. QueuedInv'
    BY <1>5, <1>0, <1>q, <1>h DEF ReadFails, IoRuns, tables, login, history, TypeOK,
       QueuedInv
  <2>4. HandlerInv'
    <3>1. uid_to_session' = uid_to_session /\ notice' = notice /\ io'.session = s /\ io'.at = "find"
      BY <1>5 DEF ReadFails, IoRuns, tables
    <3>2. Accepted(s)
      BY <1>5 DEF ReadFails, ChainInv, Accepted
    <3>3. \A u \in Users : uid_to_session[u] \in Sessions \union {None}
      BY DEF TypeOK
    <3>4. QED
      BY <1>0, <3>1, <3>2, <3>3 DEF HandlerInv
  <2>5. EntryInv'
    BY <1>5, <1>0, <1>q, <1>h DEF ReadFails, IoRuns, tables, login, history, TypeOK,
       EntryInv, HandlerInv, Accepted
  <2>6. UidInv'
    BY <1>5, UidFrame DEF ReadFails, IoRuns, tables, login, history
  <2>7. NoticeReachesItsUser'
    BY <1>5, NoticeFrame DEF ReadFails, IoRuns, tables, login, history
  <2>8. QED
    BY <2>1, <2>2, <2>3, <2>4, <2>5, <2>6, <2>7
<1>6. ASSUME NEW s \in Sessions, ReadsBadHeader(s) PROVE BaseInv'
  <2>1. TypeOK'
    BY <1>6, <1>0, <1>q, <1>h DEF ReadsBadHeader, IoRuns, tables, login, history,
       TypeOK
  <2>2. ChainInv'
    BY <1>6, <1>0, <1>q, <1>h DEF ReadsBadHeader, IoRuns, tables, login, history,
       TypeOK, ChainInv, Accepted
  <2>3. QueuedInv'
    BY <1>6, <1>0, <1>q, <1>h DEF ReadsBadHeader, IoRuns, tables, login, history,
       TypeOK, QueuedInv
  <2>4. HandlerInv'
    <3>1. uid_to_session' = uid_to_session /\ notice' = notice /\ io'.session = s /\ io'.at = "find"
      BY <1>6 DEF ReadsBadHeader, IoRuns, tables
    <3>2. Accepted(s)
      BY <1>6 DEF ReadsBadHeader, ChainInv, Accepted
    <3>3. \A u \in Users : uid_to_session[u] \in Sessions \union {None}
      BY DEF TypeOK
    <3>4. QED
      BY <1>0, <3>1, <3>2, <3>3 DEF HandlerInv
  <2>5. EntryInv'
    BY <1>6, <1>0, <1>q, <1>h DEF ReadsBadHeader, IoRuns, tables, login, history,
       TypeOK, EntryInv, HandlerInv, Accepted
  <2>6. UidInv'
    BY <1>6, UidFrame DEF ReadsBadHeader, IoRuns, tables, login, history
  <2>7. NoticeReachesItsUser'
    BY <1>6, NoticeFrame DEF ReadsBadHeader, IoRuns, tables, login, history
  <2>8. QED
    BY <2>1, <2>2, <2>3, <2>4, <2>5, <2>6, <2>7
<1>6a. ASSUME NEW s \in Sessions, ReadsNegativeLength(s) PROVE BaseInv'
  <2>1. TypeOK'
    BY <1>6a, <1>0 DEF ReadsNegativeLength, tables, login, history, TypeOK
  <2>2. ChainInv'
    BY <1>6a, <1>0 DEF ReadsNegativeLength, tables, login, history, TypeOK, ChainInv, Accepted
  <2>3. QueuedInv' /\ HandlerInv' /\ EntryInv'
    BY <1>6a DEF ReadsNegativeLength, tables, login, history, QueuedInv, HandlerInv, EntryInv,
       Accepted
  <2>4. UidInv'
    BY <1>6a, UidFrame DEF ReadsNegativeLength, tables, login, history
  <2>5. NoticeReachesItsUser'
    BY <1>6a, NoticeFrame DEF ReadsNegativeLength, tables, login, history
  <2>6. QED
    BY <2>1, <2>2, <2>3, <2>4, <2>5
<1>7. ASSUME NEW s \in Sessions, WriteEnds(s) PROVE BaseInv'
  <2>1. TypeOK'
    BY <1>7, <1>0, <1>q, <1>h DEF WriteEnds, tables, login, history, TypeOK
  <2>2. ChainInv'
    BY <1>7, <1>0, <1>q, <1>h DEF WriteEnds, tables, login, history, TypeOK,
       ChainInv, Accepted
  <2>3. QueuedInv'
    BY <1>7, <1>0, <1>q, <1>h DEF WriteEnds, tables, login, history, TypeOK,
       QueuedInv
  <2>4. HandlerInv'
    BY <1>7, <1>0, <1>q, <1>h DEF WriteEnds, tables, login, history, TypeOK,
       HandlerInv, QueuedInv
  <2>5. EntryInv'
    BY <1>7, <1>0, <1>q, <1>h DEF WriteEnds, tables, login, history, TypeOK,
       EntryInv, HandlerInv, Accepted
  <2>6. UidInv'
    BY <1>7, UidFrame DEF WriteEnds, tables, login, history
  <2>7. NoticeReachesItsUser'
    BY <1>7, NoticeFrame DEF WriteEnds, tables, login, history
  <2>8. QED
    BY <2>1, <2>2, <2>3, <2>4, <2>5, <2>6, <2>7
<1>8. ASSUME NEW s \in Sessions, WriteFails(s) PROVE BaseInv'
  <2>1. TypeOK'
    BY <1>8, <1>0, <1>q, <1>h DEF WriteFails, IoRuns, tables, login, history, TypeOK
  <2>2. ChainInv'
    BY <1>8, <1>0, <1>q, <1>h DEF WriteFails, IoRuns, tables, login, history, TypeOK,
       ChainInv, Accepted
  <2>3. QueuedInv'
    BY <1>8, <1>0, <1>q, <1>h DEF WriteFails, IoRuns, tables, login, history, TypeOK,
       QueuedInv
  <2>4. HandlerInv'
    <3>1. uid_to_session' = uid_to_session /\ notice' = notice /\ io'.session = s /\ io'.at = "find"
      BY <1>8 DEF WriteFails, IoRuns, tables
    <3>2. Accepted(s)
      BY <1>8 DEF WriteFails, ChainInv, Accepted
    <3>3. \A u \in Users : uid_to_session[u] \in Sessions \union {None}
      BY DEF TypeOK
    <3>4. QED
      BY <1>0, <3>1, <3>2, <3>3 DEF HandlerInv
  <2>5. EntryInv'
    BY <1>8, <1>0, <1>q, <1>h DEF WriteFails, IoRuns, tables, login, history, TypeOK,
       EntryInv, HandlerInv, Accepted
  <2>6. UidInv'
    BY <1>8, UidFrame DEF WriteFails, IoRuns, tables, login, history
  <2>7. NoticeReachesItsUser'
    BY <1>8, NoticeFrame DEF WriteFails, IoRuns, tables, login, history
  <2>8. QED
    BY <2>1, <2>2, <2>3, <2>4, <2>5, <2>6, <2>7
<1>9. CASE PostMsgToQue
  <2>1. TypeOK'
    BY <1>9, <1>h, <1>q DEF PostMsgToQue, tables, socket, history, TypeOK, HandlerInv
  <2>2. ChainInv'
    BY <1>9, <1>0, <1>h DEF PostMsgToQue, tables, socket, history, TypeOK, ChainInv, Accepted
  <2>3. QueuedInv'
    BY <1>9, <1>0, <1>h, <1>q DEF PostMsgToQue, tables, socket, history, TypeOK, QueuedInv, HandlerInv
  <2>4. HandlerInv'
    BY <1>9, <1>0 DEF PostMsgToQue, tables, socket, history, TypeOK, HandlerInv
  <2>5. EntryInv'
    BY <1>9, <1>0 DEF PostMsgToQue, tables, socket, history, EntryInv, Accepted
  <2>6. UidInv'
    BY <1>9, UidFrame DEF PostMsgToQue, tables, socket, history
  <2>7. NoticeReachesItsUser'
    BY <1>9, NoticeFrame DEF PostMsgToQue, tables, socket, history
  <2>8. QED
    BY <2>1, <2>2, <2>3, <2>4, <2>5, <2>6, <2>7
<1>10. CASE ClearFinds
  <2>1. TypeOK'
    BY <1>10, <1>h, <1>q DEF ClearFinds, tables, socket, login, history, TypeOK, HandlerInv
  <2>2. ChainInv'
    BY <1>10, <1>0, <1>h DEF ClearFinds, tables, socket, login, history, TypeOK, ChainInv, Accepted
  <2>3. QueuedInv'
    BY <1>10, <1>0, <1>h, <1>q DEF ClearFinds, tables, socket, login, history, TypeOK, QueuedInv, HandlerInv
  <2>4. HandlerInv'
    BY <1>10, <1>0 DEF ClearFinds, tables, socket, login, history, TypeOK, HandlerInv
  <2>5. EntryInv'
    BY <1>10, <1>0 DEF ClearFinds, tables, socket, login, history, EntryInv, Accepted
  <2>6. UidInv'
    BY <1>10, UidFrame DEF ClearFinds, tables, socket, login, history
  <2>7. NoticeReachesItsUser'
    BY <1>10, NoticeFrame DEF ClearFinds, tables, socket, login, history
  <2>8. QED
    BY <2>1, <2>2, <2>3, <2>4, <2>5, <2>6, <2>7
<1>11. CASE ClearFindsNothing
  <2>1. TypeOK'
    BY <1>11, <1>0 DEF ClearFindsNothing, tables, socket, login, TypeOK, HandlerInv
  <2>2. ChainInv'
    BY <1>11, <1>0 DEF ClearFindsNothing, tables, socket, login, TypeOK, ChainInv, HandlerInv, Accepted
  <2>3. QueuedInv'
    BY <1>11, <1>0, <1>q, <1>h DEF ClearFindsNothing, tables, socket, login, TypeOK, QueuedInv, HandlerInv
  <2>4. HandlerInv'
    BY <1>11, <1>0 DEF ClearFindsNothing, tables, socket, login, TypeOK, HandlerInv
  <2>5. EntryInv'
    BY <1>11, <1>0 DEF ClearFindsNothing, tables, socket, login, TypeOK, EntryInv, HandlerInv, Accepted
  <2>6. UidInv'
    BY <1>11, UidFrame DEF ClearFindsNothing, tables, socket, login
  <2>7. NoticeReachesItsUser'
    BY <1>11, NoticeFrame DEF ClearFindsNothing, tables, socket, login
  <2>8. QED
    BY <2>1, <2>2, <2>3, <2>4, <2>5, <2>6, <2>7
<1>12. CASE RmvUserSession
  <2>1. TypeOK'
    BY <1>12, <1>h, <1>q DEF RmvUserSession, socket, login, history, TypeOK, HandlerInv
  <2>2. ChainInv'
    BY <1>12, <1>0, <1>h DEF RmvUserSession, socket, login, history, TypeOK, ChainInv, Accepted
  <2>3. QueuedInv'
    BY <1>12, <1>0, <1>h, <1>q DEF RmvUserSession, socket, login, history, TypeOK, QueuedInv, HandlerInv
  <2>4. HandlerInv'
    BY <1>12, <1>0 DEF RmvUserSession, socket, login, history, TypeOK, HandlerInv
  <2>5. EntryInv'
    BY <1>12, <1>0 DEF RmvUserSession, socket, login, history, EntryInv, Accepted
  <2>6. UidInv'
    BY <1>12, UidFrame DEF RmvUserSession, socket, login, history
  <2>7. NoticeReachesItsUser'
    BY <1>12, NoticeFrame DEF RmvUserSession, socket, login, history
  <2>8. QED
    BY <2>1, <2>2, <2>3, <2>4, <2>5, <2>6, <2>7
<1>13. CASE ClearErases
  <2>1. TypeOK'
    BY <1>13, <1>0, <1>q, <1>h DEF ClearErases, socket, login, TypeOK, HandlerInv
  <2>2. ChainInv'
    BY <1>13, <1>0, <1>q, <1>h DEF ClearErases, socket, login, TypeOK, ChainInv,
       Accepted
  <2>3. QueuedInv'
    BY <1>13, <1>0, <1>q, <1>h DEF ClearErases, socket, login, TypeOK, QueuedInv
  <2>4. HandlerInv'
    BY <1>13, <1>0, <1>q, <1>h DEF ClearErases, socket, login, TypeOK, HandlerInv,
       QueuedInv
  <2>5. EntryInv'
    BY <1>13, <1>0, <1>q, <1>h DEF ClearErases, socket, login, TypeOK, EntryInv,
       HandlerInv, Accepted
  <2>6. UidInv'
    BY <1>13, UidFrame DEF ClearErases, socket, login
  <2>7. NoticeReachesItsUser'
    BY <1>13, NoticeFrame DEF ClearErases, socket, login
  <2>8. QED
    BY <2>1, <2>2, <2>3, <2>4, <2>5, <2>6, <2>7
<1>14. CASE LoginRejected
  <2>1. TypeOK'
    BY <1>14, <1>h, <1>q DEF LoginRejected, LogicGoes, Answer, Send, tables, history, TypeOK, HandlerInv
  <2>2. ChainInv'
    BY <1>14, <1>0, <1>h DEF LoginRejected, LogicGoes, Answer, Send, tables, history, TypeOK, ChainInv, Accepted
  <2>3. QueuedInv'
    BY <1>14, <1>0, <1>h, <1>q DEF LoginRejected, LogicGoes, Answer, Send, tables, history, TypeOK, QueuedInv, HandlerInv
  <2>4. HandlerInv'
    BY <1>14, <1>0 DEF LoginRejected, LogicGoes, Answer, Send, tables, history, TypeOK, HandlerInv
  <2>5. EntryInv'
    BY <1>14, <1>0 DEF LoginRejected, LogicGoes, Answer, Send, tables, history, EntryInv, Accepted
  <2>6. UidInv'
    BY <1>14, UidFrame DEF LoginRejected, LogicGoes, Answer, Send, tables, history
  <2>7. NoticeReachesItsUser'
    BY <1>14, NoticeFrame DEF LoginRejected, LogicGoes, Answer, Send, tables, history
  <2>8. QED
    BY <2>1, <2>2, <2>3, <2>4, <2>5, <2>6, <2>7
<1>15. CASE LoginAccepted
  <2>1. TypeOK'
    BY <1>15, <1>h, <1>q DEF LoginAccepted, LogicGoes, tables, socket, history, TypeOK, HandlerInv
  <2>2. ChainInv'
    BY <1>15, <1>0, <1>h DEF LoginAccepted, LogicGoes, tables, socket, history, TypeOK, ChainInv, Accepted
  <2>3. QueuedInv'
    BY <1>15, <1>0, <1>h, <1>q DEF LoginAccepted, LogicGoes, tables, socket, history, TypeOK, QueuedInv, HandlerInv
  <2>4. HandlerInv'
    BY <1>15, <1>0 DEF LoginAccepted, LogicGoes, tables, socket, history, TypeOK, HandlerInv
  <2>5. EntryInv'
    BY <1>15, <1>0 DEF LoginAccepted, LogicGoes, tables, socket, history, EntryInv, Accepted
  <2>6. UidInv'
    BY <1>15, LoggedInStays DEF LoginAccepted, LogicGoes, tables, history, UidInv
  <2>7. NoticeReachesItsUser'
    BY <1>15, NoticeFrame DEF LoginAccepted, LogicGoes, tables, socket, history
  <2>8. QED
    BY <2>1, <2>2, <2>3, <2>4, <2>5, <2>6, <2>7
<1>16. CASE SetUserId
  <2>1. TypeOK'
    BY <1>16, <1>0, <1>h DEF SetUserId, LogicGoes, socket, history, TypeOK
  <2>2. ChainInv'
    BY <1>16, <1>0, <1>h DEF SetUserId, LogicGoes, socket, history, TypeOK, ChainInv, Accepted
  <2>3. QueuedInv'
    BY <1>16, <1>0, <1>q, <1>h DEF SetUserId, LogicGoes, socket, history, TypeOK, QueuedInv
  <2>4. HandlerInv'
    BY <1>16, <1>0, <1>h DEF SetUserId, LogicGoes, socket, history, TypeOK, HandlerInv
  <2>5. EntryInv'
    BY <1>16, <1>0, <1>h DEF SetUserId, LogicGoes, socket, history, TypeOK, EntryInv, Accepted
  <2>6. PICK l \in Logins, s \in Sessions, v \in Users :
           /\ l = Head(msg_que) /\ s = SessionOf[l] /\ v = UserOf[l]
           /\ user_uid' = [user_uid EXCEPT ![s] = v] /\ passed' = passed \union {l}
    BY <1>16, <1>h DEF SetUserId, LogicGoes
  <2>7. LoggedIn(s, v)' /\ user_uid'[s] = v
    BY <2>6 DEF LoggedIn, TypeOK
  <2>8. /\ \A t, u : LoggedIn(t, u) => LoggedIn(t, u)'
        /\ \A t, u : ChangedUser(t, u) => ChangedUser(t, u)'
    BY <2>6, LoggedInStays
  <2>9. \A t \in Sessions : t # s => user_uid'[t] = user_uid[t]
    BY <2>6 DEF TypeOK
  <2>10. UidInv'
    <3>1. \A t \in Sessions : user_uid'[t] # None => LoggedIn(t, user_uid[t])'
      <4>1. ASSUME NEW t \in Sessions, user_uid'[t] # None PROVE LoggedIn(t, user_uid[t])'
        <5>1. CASE t = s
          BY <2>7, <5>1
        <5>2. CASE t # s
          BY <2>8, <2>9, <4>1, <5>2 DEF UidInv
        <5>3. QED
          BY <5>1, <5>2
      <4>2. QED
        BY <4>1
    <3>2. QED
      BY <1>16, <2>6, <2>7, <3>1 DEF SetUserId, LogicGoes, UidInv
  <2>11. NoticeReachesItsUser'
    <3>1. ASSUME NEW t \in Sessions, NEW u \in Users, ReachesUser(t, u)
          PROVE  ReachesUser(t, u)'
      <4>1. CASE t # s \/ u = v
        BY <2>7, <2>8, <2>9, <3>1, <4>1 DEF ReachesUser
      <4>2. CASE t = s /\ u # v
        BY <2>7, <2>8, <3>1, <4>2 DEF ReachesUser, ChangedUser
      <4>3. QED
        BY <4>1, <4>2
    <3>2. uid_to_session' = uid_to_session /\ notice' = notice
      BY <1>16 DEF SetUserId
    <3>3. \A u \in Users : uid_to_session[u] \in Sessions \union {None}
      BY DEF TypeOK
    <3>4. QED
      BY <3>1, <3>2, <3>3 DEF NoticeReachesItsUser, HandlerInv
  <2>12. QED
    BY <2>1, <2>2, <2>3, <2>4, <2>5, <2>10, <2>11
<1>17. CASE SetUserSession
  <2>1. TypeOK'
    BY <1>17, <1>0, <1>h, <1>q DEF SetUserSession, LogicGoes, socket, TypeOK
  <2>2. ChainInv'
    BY <1>17, <1>0, <1>h, <1>q DEF SetUserSession, LogicGoes, socket, TypeOK,
       ChainInv, Accepted
  <2>3. QueuedInv'
    BY <1>17, <1>0, <1>h, <1>q DEF SetUserSession, LogicGoes, socket, TypeOK,
       QueuedInv
  <2>4. HandlerInv'
    BY <1>17, <1>0, <1>h, <1>q DEF SetUserSession, LogicGoes, socket, TypeOK,
       HandlerInv, QueuedInv
  <2>5. EntryInv'
    BY <1>17, <1>0, <1>h, <1>q DEF SetUserSession, LogicGoes, socket, TypeOK,
       EntryInv, HandlerInv, Accepted
  <2>6. UidInv'
    BY <1>17, LoggedInStays DEF SetUserSession, LogicGoes, UidInv
  <2>7. NoticeReachesItsUser'
    <3>1. PICK l \in Logins, s \in Sessions, v \in Users :
             /\ l = Head(msg_que) /\ s = SessionOf[l] /\ v = UserOf[l]
             /\ uid_to_session' = [uid_to_session EXCEPT ![v] = s]
      BY <1>17, <1>h DEF SetUserSession, LogicGoes
    <3>2. ReachesUser(s, v)
      BY <1>17, <3>1 DEF SetUserSession, LogicGoes, UidInv, ReachesUser, LoggedIn
    <3>3. UNCHANGED <<user_uid, passed, notice>>
      BY <1>17 DEF SetUserSession
    <3>4. \A t, u : ReachesUser(t, u) => ReachesUser(t, u)'
      BY <3>3, LoggedInStays DEF ReachesUser
    <3>5. \A u \in Users : uid_to_session'[u] = IF u = v THEN s ELSE uid_to_session[u]
      BY <3>1 DEF TypeOK
    <3>6. QED
      BY <3>2, <3>3, <3>4, <3>5 DEF NoticeReachesItsUser
  <2>8. QED
    BY <2>1, <2>2, <2>3, <2>4, <2>5, <2>6, <2>7
<1>18. CASE LoginAnswered
  <2>1. TypeOK'
    BY <1>18, <1>h, <1>q DEF LoginAnswered, LogicGoes, Answer, Send, tables, history, TypeOK, HandlerInv
  <2>2. ChainInv'
    BY <1>18, <1>0, <1>h DEF LoginAnswered, LogicGoes, Answer, Send, tables, history, TypeOK, ChainInv, Accepted
  <2>3. QueuedInv'
    BY <1>18, <1>0, <1>h, <1>q DEF LoginAnswered, LogicGoes, Answer, Send, tables, history, TypeOK, QueuedInv, HandlerInv
  <2>4. HandlerInv'
    BY <1>18, <1>0 DEF LoginAnswered, LogicGoes, Answer, Send, tables, history, TypeOK, HandlerInv
  <2>5. EntryInv'
    BY <1>18, <1>0 DEF LoginAnswered, LogicGoes, Answer, Send, tables, history, EntryInv, Accepted
  <2>6. UidInv'
    BY <1>18, UidFrame DEF LoginAnswered, LogicGoes, Answer, Send, tables, history
  <2>7. NoticeReachesItsUser'
    BY <1>18, NoticeFrame DEF LoginAnswered, LogicGoes, Answer, Send, tables, history
  <2>8. QED
    BY <2>1, <2>2, <2>3, <2>4, <2>5, <2>6, <2>7
<1>19. ASSUME NEW u \in Users, NotifyFinds(u) PROVE BaseInv'
  <2>1. TypeOK'
    BY <1>19, <1>0, <1>q, <1>h DEF NotifyFinds, tables, socket, login, history,
       TypeOK
  <2>2. ChainInv'
    BY <1>19, <1>0, <1>q, <1>h DEF NotifyFinds, tables, socket, login, history,
       TypeOK, ChainInv, Accepted
  <2>3. QueuedInv'
    BY <1>19, <1>0, <1>q, <1>h DEF NotifyFinds, tables, socket, login, history,
       TypeOK, QueuedInv
  <2>4. HandlerInv'
    BY <1>19, <1>0, <1>q, <1>h DEF NotifyFinds, tables, socket, login, history,
       TypeOK, HandlerInv, QueuedInv
  <2>5. EntryInv'
    BY <1>19, <1>0, <1>q, <1>h DEF NotifyFinds, tables, socket, login, history,
       TypeOK, EntryInv, HandlerInv, Accepted
  <2>6. UidInv'
    BY <1>19, UidFrame DEF NotifyFinds, tables, socket, login, history
  <2>7. NoticeReachesItsUser'
    BY <1>19, LoggedInStays DEF NotifyFinds, tables, history, NoticeReachesItsUser, ReachesUser
  <2>8. QED
    BY <2>1, <2>2, <2>3, <2>4, <2>5, <2>6, <2>7
<1>20. CASE NotifySends
  <2>1. TypeOK'
    BY <1>20, <1>0, <1>q, <1>h DEF NotifySends, Send, tables, login, history, TypeOK
  <2>2. ChainInv'
    BY <1>20, <1>0, <1>q, <1>h DEF NotifySends, Send, tables, login, history, TypeOK,
       ChainInv, HandlerInv, Accepted
  <2>3. QueuedInv'
    BY <1>20, <1>0, <1>q, <1>h DEF NotifySends, Send, tables, login, history, TypeOK,
       QueuedInv
  <2>4. HandlerInv'
    BY <1>20, <1>0, <1>q, <1>h DEF NotifySends, Send, tables, login, history, TypeOK,
       HandlerInv, QueuedInv
  <2>5. EntryInv'
    BY <1>20, <1>0, <1>q, <1>h DEF NotifySends, Send, tables, login, history, TypeOK,
       EntryInv, HandlerInv, Accepted
  <2>6. UidInv'
    BY <1>20, UidFrame DEF NotifySends, Send, tables, login, history
  <2>7. NoticeReachesItsUser'
    BY <1>20, NoticeFrame DEF NotifySends, Send, tables, login, history
  <2>8. QED
    BY <2>1, <2>2, <2>3, <2>4, <2>5, <2>6, <2>7
<1>21. CASE UNCHANGED vars
  <2>1. TypeOK'
    BY <1>21 DEF vars, TypeOK, tables, socket, login, history
  <2>2. ChainInv' /\ QueuedInv' /\ HandlerInv' /\ EntryInv'
    BY <1>21 DEF vars, ChainInv, QueuedInv, HandlerInv, EntryInv, Accepted, tables, socket,
                 login, history
  <2>3. UidInv' /\ NoticeReachesItsUser'
    BY <1>21, UidFrame, NoticeFrame DEF vars, tables, login, history
  <2>4. QED
    BY <2>1, <2>2, <2>3
<1>22. QED
  BY <1>1, <1>2, <1>3, <1>4, <1>5, <1>6, <1>6a, <1>7, <1>8, <1>9, <1>10, <1>11, <1>12, <1>13, <1>14,
     <1>15, <1>16, <1>17, <1>18, <1>19, <1>20, <1>21
     DEF Next, Reads, Writes, ClearSession, LoginHandler

-----------------------------------------------------------------------------
(* What remains is where ClearSession stands, given the part above. *)
ClearPart == ClearInv /\ ClearedIsUnmapped /\ ClearedIsErased

LEMMA KeptStays ==
  ASSUME NEW s, NEW u, Kept(s, u), uid_to_session'[u] = s => uid_to_session[u] = s,
         Slipped \subseteq Slipped', passed \subseteq passed'
  PROVE  Kept(s, u)'
BY LoggedInStays DEF Kept

LEMMA ClearedKept ==
  /\ ClearedIsUnmapped <=> \A s \in cleared, u \in Users : Kept(s, u)
  /\ ClearedIsUnmapped' <=> \A s \in cleared', u \in Users : Kept(s, u)'
BY DEF ClearedIsUnmapped, Kept, Slipped

(* A step that leaves the tables, the io thread and the histories alone    *)
(* cannot disturb it.                                                      *)
LEMMA ClearFrame ==
  ASSUME ClearPart, passed \subseteq passed',
         UNCHANGED <<acceptor, sessions, uid_to_session, io, cleared, early, missed, late>>
  PROVE  ClearPart'
<1>1. \A s, u : Kept(s, u) => Kept(s, u)'
  BY KeptStays DEF Slipped
<1>2. ClearedIsUnmapped'
  BY <1>1, ClearedKept DEF ClearPart
<1>3. QED
  BY <1>1, <1>2, LoggedInStays DEF ClearPart, ClearInv, ClearedIsErased

(* A step that starts a handler of the io thread cannot either. *)
LEMMA ClearBegins ==
  ASSUME ClearPart, io'.at \in {"idle", "post", "find"}, passed' = passed,
         UNCHANGED <<acceptor, sessions, uid_to_session, cleared, early, missed, late>>
  PROVE  ClearPart'
<1>1. \A s, u : Kept(s, u) => Kept(s, u)'
  BY KeptStays DEF Slipped
<1>2. ClearedIsUnmapped'
  BY <1>1, ClearedKept DEF ClearPart
<1>3. QED
  BY <1>2 DEF ClearPart, ClearInv, ClearedIsErased

LEMMA ClearStep == BaseInv /\ ClearPart /\ [Next]_vars => ClearPart'
<1> SUFFICES ASSUME BaseInv, ClearPart, [Next]_vars PROVE ClearPart'
  OBVIOUS
<1> USE ChatSessionAssumption DEF Idle
<1>1. ASSUME NEW s \in Sessions, AcceptStarts(s) PROVE ClearPart'
  <2>1. s \notin sessions \union cleared /\ (io.at # "idle" => io.session # s)
    BY <1>1 DEF AcceptStarts, BaseInv, EntryInv, HandlerInv, Accepted
  <2>2. \A t, u : Kept(t, u) => Kept(t, u)'
    BY <1>1, KeptStays DEF AcceptStarts, tables, history, Slipped
  <2>3. ClearedIsUnmapped'
    BY <1>1, <2>2, ClearedKept DEF AcceptStarts, history, ClearPart
  <2>4. \A t, u : LoggedIn(t, u) => LoggedIn(t, u)'
    BY <1>1, LoggedInStays DEF AcceptStarts, history
  <2>5. ClearInv'
    BY <1>1, <2>1, <2>2, <2>4 DEF AcceptStarts, tables, history, ClearPart, ClearInv
  <2>6. QED
    BY <1>1, <2>3, <2>5 DEF AcceptStarts, tables, history, ClearPart, ClearedIsErased
<1>2. CASE AcceptEmplaces
  <2>1. None \notin cleared /\ (io.at = "erase" => io.session # None)
    BY DEF BaseInv, TypeOK, HandlerInv
  <2>2. \A t, u : Kept(t, u) => Kept(t, u)'
    BY <1>2, KeptStays DEF AcceptEmplaces, history, Slipped
  <2>3. ClearedIsUnmapped'
    BY <1>2, <2>2, ClearedKept DEF AcceptEmplaces, history, ClearPart
  <2>4. \A t, u : LoggedIn(t, u) => LoggedIn(t, u)'
    BY <1>2, LoggedInStays DEF AcceptEmplaces, history
  <2>5. ClearInv'
    BY <1>2, <2>1, <2>2, <2>4 DEF AcceptEmplaces, history, ClearPart, ClearInv
  <2>6. QED
    BY <1>2, <2>3, <2>5 DEF AcceptEmplaces, history, ClearPart, ClearInv, ClearedIsErased
<1>3. ASSUME NEW s \in Sessions, LinkDown(s) \/ WriteEnds(s) \/ ReadsNegativeLength(s)
      PROVE  ClearPart'
  BY <1>3, ClearFrame DEF LinkDown, WriteEnds, ReadsNegativeLength, tables, history
<1>4. ASSUME NEW s \in Sessions, ReadFails(s) \/ ReadsBadHeader(s) \/ WriteFails(s)
      PROVE  ClearPart'
  BY <1>4, ClearBegins DEF ReadFails, ReadsBadHeader, WriteFails, IoRuns, tables, history
<1>4a. ASSUME NEW l \in Logins, ReadsLogin(l) PROVE ClearPart'
  BY <1>4a, ClearBegins DEF ReadsLogin, IoRuns, tables, history
<1>5. CASE PostMsgToQue
  BY <1>5, ClearBegins DEF PostMsgToQue, tables, history
<1>6. CASE ClearFinds
  <2>1. io'.at = "rmv" /\ io'.session = io.session /\ io'.uid = user_uid[io.session]
    BY <1>6 DEF ClearFinds, BaseInv, TypeOK
  <2>2. io.session \in Sessions /\ io.session \in sessions
    BY <1>6 DEF ClearFinds, BaseInv, HandlerInv
  <2>3. \A t, u : Kept(t, u) => Kept(t, u)'
    BY <1>6, KeptStays DEF ClearFinds, tables, history, Slipped
  <2>4. \A t, u : LoggedIn(t, u) => LoggedIn(t, u)'
    BY <1>6, LoggedInStays DEF ClearFinds, history
  <2>5. io'.uid # None => LoggedIn(io.session, io.uid)'
    BY <2>1, <2>2, <2>4 DEF BaseInv, UidInv
  <2>6. ASSUME NEW u \in Users, u # io'.uid PROVE Kept(io.session, u)'
    <3>1. Kept(io.session, u)
      BY <2>1, <2>2, <2>6 DEF Kept, BaseInv, NoticeReachesItsUser, ReachesUser
    <3>2. QED
      BY <2>1, <2>3, <3>1
  <2>7. ClearInv'
    BY <1>6, <2>1, <2>2, <2>5, <2>6 DEF ClearFinds, tables, history, ClearPart, ClearInv
  <2>8. ClearedIsUnmapped'
    BY <1>6, <2>3, ClearedKept DEF ClearFinds, history, ClearPart
  <2>9. QED
    BY <1>6, <2>7, <2>8 DEF ClearFinds, tables, history, ClearPart, ClearedIsErased
<1>7. CASE ClearFindsNothing
  <2>1. io'.at = "erase" /\ io'.session = io.session
    BY <1>7 DEF ClearFindsNothing, BaseInv, TypeOK
  <2>2. io.session \in Sessions /\ (io.session = acceptor \/ io.session \in sessions \union cleared)
    BY <1>7 DEF ClearFindsNothing, BaseInv, HandlerInv, EntryInv
  <2>3. \A t, u : Kept(t, u) => Kept(t, u)'
    BY <1>7, KeptStays DEF ClearFindsNothing, tables, Slipped
  <2>4. ASSUME NEW u \in Users PROVE Kept(io.session, u)'
    <3>1. CASE io.session \in Slipped'
      BY <2>1, <3>1 DEF Kept
    <3>2. CASE io.session \notin Slipped'
      <4>1. io.session \in cleared
        BY <1>7, <2>2, <3>2 DEF ClearFindsNothing, Slipped
      <4>2. QED
        BY <2>1, <2>3, <4>1, ClearedKept DEF ClearPart
    <3>3. QED
      BY <3>1, <3>2
  <2>5. ClearInv'
    BY <1>7, <2>1, <2>2, <2>4 DEF ClearFindsNothing, tables, ClearPart, ClearInv
  <2>6. ClearedIsUnmapped'
    BY <1>7, <2>3, ClearedKept DEF ClearFindsNothing, ClearPart
  <2>7. QED
    BY <1>7, <2>5, <2>6 DEF ClearFindsNothing, tables, ClearPart, ClearedIsErased
<1>8. CASE RmvUserSession
  <2>1. io'.at = "erase" /\ io'.session = io.session
    BY <1>8 DEF RmvUserSession, BaseInv, TypeOK
  <2>2. \A u \in Users : uid_to_session'[u] # None => uid_to_session'[u] = uid_to_session[u] /\ u # io.uid
    BY <1>8 DEF RmvUserSession
  <2>3. io.session \in Sessions /\ io.session \in sessions /\ io.session # acceptor
    BY <1>8 DEF RmvUserSession, ClearPart, ClearInv, BaseInv, HandlerInv, EntryInv
  <2>4. \A s \in Sessions, u \in Users : Kept(s, u) => Kept(s, u)'
    BY <1>8, <2>2, KeptStays DEF RmvUserSession, history, Slipped
  <2>5. ASSUME NEW u \in Users PROVE Kept(io.session, u)'
    <3>1. CASE u = io.uid
      BY <2>1, <2>2, <2>3, <3>1 DEF Kept
    <3>2. CASE u # io.uid
      BY <1>8, <2>1, <2>3, <2>4, <3>2 DEF RmvUserSession, ClearPart, ClearInv
    <3>3. QED
      BY <3>1, <3>2
  <2>6. ClearInv'
    BY <1>8, <2>1, <2>3, <2>5 DEF RmvUserSession, history, ClearPart, ClearInv
  <2>7. ClearedIsUnmapped'
    <3>1. cleared \subseteq Sessions
      BY DEF BaseInv, TypeOK
    <3>2. QED
      BY <1>8, <2>4, <3>1, ClearedKept DEF RmvUserSession, history, ClearPart
  <2>8. QED
    BY <1>8, <2>6, <2>7 DEF RmvUserSession, history, ClearPart, ClearedIsErased
<1>9. CASE ClearErases
  <2>1. io'.at = "idle" /\ acceptor' = acceptor /\ early' = early
    BY <1>9 DEF ClearErases
  <2>2. \A t, u : Kept(t, u) => Kept(t, u)'
    BY <1>9, KeptStays DEF ClearErases, Slipped
  <2>3. ClearedIsUnmapped'
    BY <1>9, <2>2, ClearedKept DEF ClearErases, ClearPart, ClearInv
  <2>4. ClearInv'
    BY <1>9, <2>1 DEF ClearErases, ClearPart, ClearInv
  <2>5. ClearedIsErased'
    BY <1>9, <2>1 DEF ClearErases, ClearPart, ClearedIsErased
  <2>6. QED
    BY <2>3, <2>4, <2>5 DEF ClearPart
<1>10. CASE LoginRejected \/ LoginAccepted \/ SetUserId \/ LoginAnswered
  <2>1. passed \subseteq passed'
    BY <1>10 DEF LoginRejected, LoginAccepted, SetUserId, LoginAnswered, history
  <2>2. QED
    BY <1>10, <2>1, ClearFrame DEF LoginRejected, LoginAccepted, SetUserId, LoginAnswered, tables, history
<1>11. CASE SetUserSession
  <2> DEFINE l == Head(msg_que)
             s == SessionOf[l]
  <2>1. l \in Logins /\ s \in Sessions /\ UserOf[l] \in Users
    BY <1>11, TailElements DEF SetUserSession, LogicGoes, BaseInv, TypeOK
  <2>2. PastRemoval(l) => s \in late'
    BY <1>11 DEF SetUserSession
  <2>3. late \subseteq late' /\ Slipped \subseteq Slipped' /\ passed' = passed
    BY <1>11 DEF SetUserSession, Slipped
  <2>4. UNCHANGED <<acceptor, sessions, io, cleared, early>>
    BY <1>11 DEF SetUserSession
  <2>5. ASSUME NEW t \in Sessions, NEW u \in Users, Kept(t, u), t # s \/ u # UserOf[l] \/ s \in late'
        PROVE  Kept(t, u)'
    <3>1. CASE t = s /\ s \in late'
      BY <3>1 DEF Kept, Slipped
    <3>2. CASE t # s \/ u # UserOf[l]
      <4>1. uid_to_session'[u] = t => uid_to_session[u] = t
        BY <1>11, <2>1, <3>2 DEF SetUserSession, BaseInv, TypeOK
      <4>2. QED
        BY <2>3, <2>5, <4>1, KeptStays
    <3>3. QED
      BY <2>5, <3>1, <3>2
  <2>6. io.at # "idle" => io.session \in Sessions
    BY DEF BaseInv, HandlerInv
  <2>7. io.at = "rmv" => \A u \in Users : u # io.uid => Kept(io.session, u)'
    BY <2>2, <2>4, <2>5, <2>6 DEF ClearPart, ClearInv, PastRemoval
  <2>8. io.at = "erase" => \A u \in Users : Kept(io.session, u)'
    BY <2>2, <2>4, <2>5, <2>6 DEF ClearPart, ClearInv, PastRemoval
  <2>9. io.at = "rmv" => io.session \in sessions /\ (io.uid # None => LoggedIn(io.session, io.uid)')
    BY <2>3, <2>4, LoggedInStays DEF ClearPart, ClearInv
  <2>10. ClearInv'
    BY <2>4, <2>7, <2>8, <2>9 DEF ClearPart, ClearInv
  <2>11. ClearedIsUnmapped'
    <3>1. cleared \subseteq Sessions
      BY DEF BaseInv, TypeOK
    <3>2. \A t \in cleared, u \in Users : Kept(t, u)'
      BY <2>2, <2>5, <3>1, ClearedKept DEF ClearPart, PastRemoval
    <3>3. QED
      BY <2>4, <3>2, ClearedKept
  <2>12. ClearedIsErased'
    BY <2>4 DEF ClearPart, ClearedIsErased
  <2>13. QED
    BY <2>10, <2>11, <2>12 DEF ClearPart
<1>12. CASE (\E u \in Users : NotifyFinds(u)) \/ NotifySends
  BY <1>12, ClearFrame DEF NotifyFinds, NotifySends, tables, history
<1>13. CASE UNCHANGED vars
  BY <1>13, ClearFrame DEF vars, tables, history
<1>14. QED
  BY <1>1, <1>2, <1>3, <1>4, <1>4a, <1>5, <1>6, <1>7, <1>8, <1>9, <1>10, <1>11, <1>12, <1>13
     DEF Next, Reads, Writes, ClearSession, LoginHandler

-----------------------------------------------------------------------------
(* A user who logged in stays in the table until a session that logged in  *)
(* as him is past the removal, and what such a session has ended stays so. *)
LEMMA ReachFrame ==
  ASSUME Reach, passed \subseteq passed',
         \A u \in Users : uid_to_session[u] # None => uid_to_session'[u] # None,
         \A s \in Sessions : Ended(s) => Ended(s)',
         \A l \in Logins : rsp'[l] = "ok" \/ (logic' = "mapped" /\ Head(msg_que') = l)
                           => rsp[l] = "ok" \/ (logic = "mapped" /\ Head(msg_que) = l)
  PROVE  Reach'
<1> USE ChatSessionAssumption
<1>1. \A u : Unmapped(u) => Unmapped(u)'
  BY LoggedInStays DEF Unmapped
<1>2. QED
  BY <1>1 DEF Reach

LEMMA ReachStep == BaseInv /\ ClearPart /\ Reach /\ [Next]_vars => Reach'
<1> SUFFICES ASSUME BaseInv, ClearPart, Reach, [Next]_vars PROVE Reach'
  OBVIOUS
<1> USE ChatSessionAssumption
<1>1. CASE SetUserSession
  <2>1. Head(msg_que) \in Logins /\ UserOf[Head(msg_que)] \in Users /\ SessionOf[Head(msg_que)] \in Sessions
    <3>1. msg_que # <<>> /\ msg_que \in Seq(Logins)
      BY <1>1 DEF SetUserSession, LogicGoes, BaseInv, TypeOK
    <3>2. QED
      BY <3>1, TailElements
  <2>2. uid_to_session' = [uid_to_session EXCEPT ![UserOf[Head(msg_que)]] = SessionOf[Head(msg_que)]]
    BY <1>1 DEF SetUserSession
  <2>3. UNCHANGED <<rsp, msg_que, io, cleared, passed>>
    BY <1>1 DEF SetUserSession
  <2>4. ASSUME NEW l \in Logins, rsp[l] = "ok" \/ Head(msg_que) = l
        PROVE  uid_to_session'[UserOf[l]] # None \/ Unmapped(UserOf[l])'
    <3>1. CASE UserOf[l] = UserOf[Head(msg_que)]
      BY <2>1, <2>2, <3>1 DEF BaseInv, TypeOK
    <3>2. CASE UserOf[l] # UserOf[Head(msg_que)]
      <4>1. uid_to_session'[UserOf[l]] = uid_to_session[UserOf[l]]
        BY <2>1, <2>2, <3>2 DEF BaseInv, TypeOK
      <4>2. Unmapped(UserOf[l]) => Unmapped(UserOf[l])'
        BY <2>3, LoggedInStays DEF Unmapped, Ended
      <4>3. QED
        BY <2>4, <3>2, <4>1, <4>2 DEF Reach
    <3>3. QED
      BY <3>1, <3>2
  <2>5. QED
    BY <2>3, <2>4 DEF Reach
<1>2. CASE RmvUserSession
  <2>1. UNCHANGED <<rsp, msg_que, logic, cleared, passed>>
    BY <1>2 DEF RmvUserSession, login, history
  <2>2. io.at = "rmv" /\ io'.at = "erase" /\ io'.session = io.session /\ io.session \in Sessions
    BY <1>2 DEF RmvUserSession, BaseInv, TypeOK, HandlerInv
  <2>3. \A s \in Sessions : Ended(s) => Ended(s)'
    BY <2>1, <2>2 DEF Ended
  <2>4. Ended(io.session)'
    BY <2>2 DEF Ended
  <2>5. \A s, u : LoggedIn(s, u) => LoggedIn(s, u)'
    BY <2>1, LoggedInStays
  <2>6. ASSUME NEW u \in Users, uid_to_session[u] # None \/ Unmapped(u)
        PROVE  uid_to_session'[u] # None \/ Unmapped(u)'
    <3>1. CASE Unmapped(u)
      BY <2>3, <2>5, <3>1 DEF Unmapped
    <3>2. CASE u # io.uid /\ uid_to_session[u] # None
      BY <1>2, <3>2 DEF RmvUserSession
    <3>3. CASE u = io.uid
      <4>1. LoggedIn(io.session, u)
        BY <2>2, <3>3 DEF ClearPart, ClearInv
      <4>2. QED
        BY <2>2, <2>4, <2>5, <4>1 DEF Unmapped
    <3>4. QED
      BY <2>6, <3>1, <3>2, <3>3
  <2>7. QED
    BY <2>1, <2>6 DEF Reach
<1>3. CASE ClearErases
  <2>1. \A s \in Sessions : Ended(s) => Ended(s)'
    BY <1>3 DEF ClearErases, Ended
  <2>2. QED
    BY <1>3, <2>1, ReachFrame DEF ClearErases, login
<1>4. CASE ClearFinds \/ ClearFindsNothing
  <2>1. io.at = "find" /\ cleared' = cleared
    BY <1>4 DEF ClearFinds, ClearFindsNothing, history
  <2>2. \A s \in Sessions : Ended(s) => Ended(s)'
    BY <2>1 DEF Ended
  <2>3. QED
    BY <1>4, <2>2, ReachFrame DEF ClearFinds, ClearFindsNothing, tables, login, history
<1>5. CASE LoginRejected \/ LoginAnswered
  <2>1. Head(msg_que) \in Logins
    BY <1>5, TailElements DEF LoginRejected, LoginAnswered, LogicGoes, BaseInv, TypeOK
  <2>2. PICK reply \in {"error", "ok"} :
           /\ rsp' = [rsp EXCEPT ![Head(msg_que)] = reply]
           /\ logic' = "wait" /\ (reply = "ok" => logic = "mapped")
    BY <1>5 DEF LoginRejected, LoginAnswered, LogicGoes, Answer
  <2>3. \A l \in Logins : rsp'[l] = IF l = Head(msg_que) THEN reply ELSE rsp[l]
    BY <2>2 DEF BaseInv, TypeOK
  <2>4. UNCHANGED <<uid_to_session, io, cleared, passed>>
    BY <1>5 DEF LoginRejected, LoginAnswered, tables, history
  <2>5. QED
    BY <2>2, <2>3, <2>4, ReachFrame DEF Ended
<1>6. CASE LoginAccepted \/ SetUserId
  <2>1. logic' \in {"accepted", "uid set"} /\ UNCHANGED <<rsp, uid_to_session, io, cleared>>
    BY <1>6 DEF LoginAccepted, SetUserId, LogicGoes, tables, history
  <2>2. passed \subseteq passed'
    BY <1>6 DEF LoginAccepted, SetUserId, history
  <2>3. QED
    BY <2>1, <2>2, ReachFrame DEF Ended
<1>7. CASE PostMsgToQue
  <2>1. logic' = "wait" /\ io.at = "post" /\ UNCHANGED <<rsp, uid_to_session, cleared, passed>>
    BY <1>7 DEF PostMsgToQue, tables, history
  <2>2. QED
    BY <2>1, ReachFrame DEF Ended
<1>8. ASSUME NEW s \in Sessions, ReadFails(s) \/ ReadsBadHeader(s) \/ WriteFails(s)
      PROVE  Reach'
  <2>1. io.at = "idle" /\ UNCHANGED <<rsp, logic, msg_que, uid_to_session, cleared, passed>>
    BY <1>8 DEF ReadFails, ReadsBadHeader, WriteFails, IoRuns, Idle, login, tables, history
  <2>2. QED
    BY <2>1, ReachFrame DEF Ended
<1>9. ASSUME NEW l \in Logins, ReadsLogin(l) PROVE Reach'
  <2>1. io.at = "idle" /\ UNCHANGED <<rsp, logic, msg_que, uid_to_session, cleared, passed>>
    BY <1>9 DEF ReadsLogin, IoRuns, Idle, tables, history
  <2>2. QED
    BY <2>1, ReachFrame DEF Ended
<1>10. ASSUME UNCHANGED <<rsp, logic, msg_que, uid_to_session, cleared, passed, io>>
       PROVE  Reach'
  BY <1>10, ReachFrame DEF Ended
<1>11. ASSUME NEW s \in Sessions,
              AcceptStarts(s) \/ LinkDown(s) \/ ReadsNegativeLength(s) \/ WriteEnds(s)
       PROVE  Reach'
  BY <1>10, <1>11 DEF AcceptStarts, LinkDown, ReadsNegativeLength, WriteEnds, login, tables, history
<1>12. CASE AcceptEmplaces \/ NotifySends \/ (\E u \in Users : NotifyFinds(u))
  BY <1>10, <1>12 DEF AcceptEmplaces, NotifySends, NotifyFinds, login, tables, history
<1>13. CASE UNCHANGED vars
  BY <1>10, <1>13 DEF vars, login, tables, history
<1>14. QED
  BY <1>1, <1>2, <1>3, <1>4, <1>5, <1>6, <1>7, <1>8, <1>9, <1>11, <1>12, <1>13
     DEF Next, Reads, Writes, ClearSession, LoginHandler

LEMMA Invariance == Spec => []IInv
<1>1. Init => IInv
  BY InitInv
<1>2. IInv /\ [Next]_vars => IInv'
  BY BaseStep, ClearStep, ReachStep DEF IInv, ClearPart
<1>3. QED
  BY <1>1, <1>2, PTL DEF Spec

-----------------------------------------------------------------------------
(* The variables have their types. *)
THEOREM TypeCorrect == Spec => []TypeOK
<1>1. IInv => TypeOK
  BY DEF IInv, BaseInv
<1>2. QED
  BY <1>1, Invariance, PTL

(* A notification goes to a session that has logged in as its user and is  *)
(* still that user's, or has logged in as another one since.               *)
THEOREM NoticeCorrect == Spec => []NoticeReachesItsUser
<1>1. IInv => NoticeReachesItsUser
  BY DEF IInv, BaseInv
<1>2. QED
  BY <1>1, Invariance, PTL

(* Whoever was told that he is logged in is found until a session that     *)
(* logged in as him ends, whatever other users and refused logins do.      *)
THEOREM ReachableCorrect == Spec => []LoggedInReachable
<1>1. IInv => LoggedInReachable
  BY ChatSessionAssumption DEF IInv, Reach, Unmapped, LoggedInReachable
<1>2. QED
  BY <1>1, Invariance, PTL

(* A second user and the three races are the only ways a cleared session   *)
(* stays behind.                                                           *)
THEOREM ClearCorrect == Spec => []ClearedIsGone
<1>1. IInv => ClearedIsGone
  BY DEF IInv, ClearedIsGone
<1>2. QED
  BY <1>1, Invariance, PTL

-----------------------------------------------------------------------------
(* Nothing is forgotten: a lost connection that is not deaf has a read or  *)
(* a write that will fail, or its ClearSession is under way or over; a     *)
(* login that has arrived is on its way to the queue, in it, or answered.  *)
Clearing(s) == io.session = s /\ io.at \in {"find", "rmv", "erase"}
Posted(l) == \E i \in DOMAIN msg_que : msg_que[i] = l

ReadInv == \A s \in Sessions :
    /\ Accepted(s) => read[s] # "none"
    /\ read[s] = "stopped" \/ write[s] = "failed" => Clearing(s) \/ s \in cleared
AskedInv == \A l \in asked : (io.at = "post" /\ io.login = l) \/ Posted(l) \/ rsp[l] # "none"

NothingForgotten ==
    /\ \A s \in Sessions : link[s] = "down" /\ ~Deaf(s) =>
          read[s] = "pending" \/ write[s] = "pending" \/ Clearing(s) \/ s \in cleared
    /\ AskedInv

LEMMA PursuedInit == Init => ReadInv /\ AskedInv
BY DEF Init, ReadInv, AskedInv, Accepted

(* ClearSession goes on with the session it began with, and only a failing *)
(* write makes a write chain "failed".                                     *)
LEMMA ReadFrame ==
  ASSUME BaseInv, ReadInv, UNCHANGED <<link, read>>, cleared \subseteq cleared',
         \A s \in Sessions : write'[s] = "failed" => write[s] = "failed",
         \A s \in Sessions : Clearing(s) => Clearing(s)' \/ s \in cleared'
  PROVE  ReadInv'
BY DEF ReadInv, Accepted

LEMMA ReadStep == BaseInv /\ ReadInv /\ [Next]_vars => ReadInv'
<1> SUFFICES ASSUME BaseInv, ReadInv, [Next]_vars PROVE ReadInv'
  OBVIOUS
<1> USE DEF tables, socket, login, history
<1>0. TypeOK
  BY DEF BaseInv
<1>1. ASSUME NEW s \in Sessions, AcceptStarts(s) \/ LinkDown(s) PROVE ReadInv'
  <2>1. UNCHANGED <<write, io, cleared>>
    BY <1>1 DEF AcceptStarts, LinkDown
  <2>2. CASE AcceptStarts(s)
    BY <1>0, <2>1, <2>2 DEF AcceptStarts, TypeOK, ReadInv, Accepted, Clearing
  <2>3. CASE LinkDown(s)
    <3>1. read' = read /\ link[s] = "up"
      BY <2>3 DEF LinkDown
    <3>2. \A t \in Sessions : t # s => link'[t] = link[t]
      BY <1>0, <2>3 DEF LinkDown, TypeOK
    <3>3. QED
      BY <2>1, <3>1, <3>2 DEF ReadInv, Accepted, Clearing
  <2>4. QED
    BY <1>1, <2>2, <2>3
<1>2. ASSUME NEW s \in Sessions, ReadFails(s) \/ ReadsBadHeader(s) PROVE ReadInv'
  <2>1. io.at = "idle" /\ io' = [at |-> "find", session |-> s, uid |-> None, login |-> None]
    BY <1>2 DEF ReadFails, ReadsBadHeader, IoRuns, Idle
  <2>2. read' = [read EXCEPT ![s] = "stopped"] /\ UNCHANGED <<link, write, cleared>>
    BY <1>2 DEF ReadFails, ReadsBadHeader
  <2>3. QED
    BY <1>0, <2>1, <2>2 DEF TypeOK, ReadInv, Accepted, Clearing
<1>2a. ASSUME NEW s \in Sessions, WriteFails(s) PROVE ReadInv'
  <2>1. io.at = "idle" /\ io' = [at |-> "find", session |-> s, uid |-> None, login |-> None]
    BY <1>2a DEF WriteFails, IoRuns, Idle
  <2>2. write' = [write EXCEPT ![s] = "failed"] /\ UNCHANGED <<link, read, cleared>>
    BY <1>2a DEF WriteFails
  <2>3. QED
    BY <1>0, <2>1, <2>2 DEF TypeOK, ReadInv, Accepted, Clearing
<1>2b. ASSUME NEW s \in Sessions, ReadsNegativeLength(s) PROVE ReadInv'
  BY <1>0, <1>2b DEF ReadsNegativeLength, TypeOK, ReadInv, Accepted, Clearing
<1>3. CASE ClearSession
  <2>1. UNCHANGED <<link, read, write>> /\ cleared \subseteq cleared'
    BY <1>3 DEF ClearSession, ClearFinds, ClearFindsNothing, RmvUserSession, ClearErases
  <2>2. \/ cleared' = cleared \union {io.session}
        \/ io'.session = io.session /\ io'.at \in {"rmv", "erase"}
    <3>1. CASE ClearErases
      BY <3>1 DEF ClearErases
    <3>2. CASE ClearFinds
      BY <1>0, <3>2 DEF ClearFinds, TypeOK
    <3>3. CASE ClearFindsNothing
      BY <1>0, <3>3 DEF ClearFindsNothing, TypeOK
    <3>4. CASE RmvUserSession
      BY <1>0, <3>4 DEF RmvUserSession, TypeOK
    <3>5. QED
      BY <1>3, <3>1, <3>2, <3>3, <3>4 DEF ClearSession
  <2>3. QED
    BY <2>1, <2>2, ReadFrame DEF Clearing
<1>4. ASSUME NEW s \in Sessions, WriteEnds(s) PROVE ReadInv'
  <2>1. UNCHANGED <<link, read, cleared, io>> /\ write' = [write EXCEPT ![s] = "idle"]
    BY <1>4 DEF WriteEnds
  <2>2. QED
    BY <1>0, <2>1, ReadFrame DEF Clearing, TypeOK
<1>4a. ASSUME NEW l \in Logins, ReadsLogin(l) PROVE ReadInv'
  <2>1. UNCHANGED <<link, read, write, cleared>> /\ io.at = "idle"
    BY <1>4a DEF ReadsLogin, IoRuns, Idle
  <2>2. QED
    BY <2>1, ReadFrame DEF Clearing
<1>5. CASE PostMsgToQue
  BY <1>5, ReadFrame DEF PostMsgToQue, Clearing
<1>6. CASE \/ AcceptEmplaces \/ LoginAccepted \/ SetUserId \/ SetUserSession
           \/ (\E u \in Users : NotifyFinds(u)) \/ UNCHANGED vars
  <2>1. UNCHANGED <<link, read, write, cleared, io>>
    BY <1>6 DEF AcceptEmplaces, LoginAccepted, SetUserId, SetUserSession, NotifyFinds, vars
  <2>2. QED
    BY <2>1, ReadFrame DEF Clearing
<1>7. CASE LoginRejected \/ LoginAnswered \/ NotifySends
  <2>1. UNCHANGED <<link, read, cleared, io>>
    BY <1>7 DEF LoginRejected, LoginAnswered, NotifySends
  <2>2. \E t : write' = [write EXCEPT ![t] = IF @ = "idle" THEN "pending" ELSE @]
    BY <1>7 DEF LoginRejected, LoginAnswered, NotifySends, Answer, Send
  <2>3. \A s \in Sessions : write'[s] = "failed" => write[s] = "failed"
    BY <1>0, <2>2 DEF TypeOK
  <2>4. QED
    BY <2>1, <2>3, ReadFrame DEF Clearing
<1>8. QED
  BY <1>1, <1>2, <1>2a, <1>2b, <1>3, <1>4, <1>4a, <1>5, <1>6, <1>7
     DEF Next, Reads, Writes, LoginHandler

LEMMA AskedStep == BaseInv /\ AskedInv /\ [Next]_vars => AskedInv'
<1> SUFFICES ASSUME BaseInv, AskedInv, [Next]_vars PROVE AskedInv'
  OBVIOUS
<1> USE DEF tables, socket, login, history
<1>0. TypeOK /\ msg_que \in Seq(Logins)
  BY DEF BaseInv, TypeOK
<1>1. ASSUME UNCHANGED <<asked, rsp, msg_que>>, io.at = "post" => io' = io
      PROVE  AskedInv'
  BY <1>1 DEF AskedInv, Posted
<1>2. ASSUME NEW l \in Logins, ReadsLogin(l) PROVE AskedInv'
  <2>1. /\ io.at = "idle"
        /\ io' = [at |-> "post", session |-> SessionOf[l], uid |-> None, login |-> l]
        /\ asked' = asked \union {l} /\ UNCHANGED <<rsp, msg_que>>
    BY <1>2 DEF ReadsLogin, IoRuns, Idle
  <2>2. QED
    BY <2>1 DEF AskedInv, Posted
<1>3. CASE PostMsgToQue
  <2>1. io.at = "post" /\ msg_que' = Append(msg_que, io.login) /\ UNCHANGED <<asked, rsp>>
    BY <1>3 DEF PostMsgToQue
  <2>2. io.login \in Logins
    BY <2>1 DEF BaseInv, HandlerInv
  <2>3. \A i \in DOMAIN msg_que : i \in DOMAIN msg_que' /\ msg_que'[i] = msg_que[i]
    BY <1>0, <2>1, <2>2
  <2>4. Len(msg_que) + 1 \in DOMAIN msg_que' /\ msg_que'[Len(msg_que) + 1] = io.login
    BY <1>0, <2>1, <2>2
  <2>5. ASSUME NEW l \in asked' PROVE Posted(l)' \/ rsp'[l] # "none"
    <3>1. CASE l = io.login
      BY <2>4, <3>1 DEF Posted
    <3>2. CASE l # io.login
      BY <2>1, <2>3, <2>5, <3>2 DEF AskedInv, Posted
    <3>3. QED
      BY <3>1, <3>2
  <2>6. QED
    BY <2>5 DEF AskedInv
<1>4. CASE LoginRejected \/ LoginAnswered
  <2>1. msg_que # <<>> /\ msg_que' = Tail(msg_que) /\ UNCHANGED <<asked, io>>
    BY <1>4 DEF LoginRejected, LoginAnswered, LogicGoes, Answer
  <2>2. PICK reply \in {"ok", "error"} : rsp' = [rsp EXCEPT ![Head(msg_que)] = reply]
    BY <1>4 DEF LoginRejected, LoginAnswered, Answer
  <2>3. /\ Head(msg_que) = msg_que[1] /\ Head(msg_que) \in Logins
        /\ \A i \in DOMAIN msg_que : i # 1 =>
              i - 1 \in DOMAIN Tail(msg_que) /\ Tail(msg_que)[i - 1] = msg_que[i]
    BY <1>0, <2>1
  <2>4. ASSUME NEW l \in asked'
        PROVE  (io'.at = "post" /\ io'.login = l) \/ Posted(l)' \/ rsp'[l] # "none"
    <3>0. l \in Logins
      BY <1>0, <2>1, <2>4 DEF TypeOK
    <3>1. CASE l = Head(msg_que)
      BY <1>0, <2>2, <3>0, <3>1 DEF TypeOK
    <3>2. CASE l # Head(msg_que)
      <4>1. rsp'[l] = rsp[l]
        BY <1>0, <2>2, <3>0, <3>2 DEF TypeOK
      <4>2. Posted(l) => Posted(l)'
        BY <2>1, <2>3, <3>2 DEF Posted
      <4>3. QED
        BY <2>1, <2>4, <4>1, <4>2 DEF AskedInv
    <3>3. QED
      BY <3>1, <3>2
  <2>5. QED
    BY <2>4 DEF AskedInv
<1>5. ASSUME NEW s \in Sessions,
             AcceptStarts(s) \/ LinkDown(s) \/ ReadFails(s) \/ ReadsBadHeader(s) \/ ReadsNegativeLength(s) \/ Writes(s)
      PROVE  AskedInv'
  BY <1>1, <1>5 DEF AcceptStarts, LinkDown, ReadFails, ReadsBadHeader, ReadsNegativeLength, Writes, WriteEnds,
     WriteFails, IoRuns, Idle
<1>6. CASE AcceptEmplaces \/ ClearSession \/ LoginAccepted \/ SetUserId \/ SetUserSession
  BY <1>1, <1>6 DEF AcceptEmplaces, ClearSession, ClearFinds, ClearFindsNothing, RmvUserSession,
     ClearErases, LoginAccepted, SetUserId, SetUserSession
<1>7. CASE (\E u \in Users : NotifyFinds(u)) \/ NotifySends \/ UNCHANGED vars
  BY <1>1, <1>7 DEF NotifyFinds, NotifySends, vars
<1>8. QED
  BY <1>2, <1>3, <1>4, <1>5, <1>6, <1>7 DEF Next, Reads, LoginHandler

(* The safety that LostIsCleared and LoginIsAnswered rest on: no handler   *)
(* ends without having passed on what it was about.                        *)
THEOREM NothingForgottenCorrect == Spec => []NothingForgotten
<1>1. IInv /\ ReadInv /\ AskedInv => NothingForgotten
  BY DEF IInv, BaseInv, TypeOK, ReadInv, AskedInv, NothingForgotten, Deaf, Accepted
<1>2. IInv => BaseInv
  BY DEF IInv
<1>3. QED
  BY <1>1, <1>2, Invariance, PursuedInit, ReadStep, AskedStep, PTL DEF Spec

-----------------------------------------------------------------------------
(* A handler of the io_context thread only goes on: nothing takes it back  *)
(* to an earlier step, or from one session to another.                     *)
IoLeft == [find |-> 3, rmv |-> 2, erase |-> 1, post |-> 1, idle |-> 0]

IoAdvances == io # Idle =>
    \/ io' = io
    \/ /\ PostMsgToQue \/ ClearSession
       /\ IoLeft[io'.at] < IoLeft[io.at]
       /\ io'.session = io.session \/ io' = Idle

(* The logic thread works through the queue from its front: a step goes on *)
(* with the front login or answers it, and only new logins are appended.   *)
Onward == {<<"wait", "accepted">>, <<"accepted", "uid set">>, <<"uid set", "mapped">>}

LogicAdvances ==
    \/ UNCHANGED <<msg_que, logic>>
    \/ /\ io.at = "post" /\ io' = Idle
       /\ logic = "wait" /\ logic' = logic
       /\ msg_que' = Append(msg_que, io.login)
    \/ /\ LoginHandler /\ msg_que # <<>>
       /\ \/ msg_que' = msg_que /\ <<logic, logic'>> \in Onward
          \/ msg_que' = Tail(msg_que) /\ logic' = "wait" /\ rsp'[Head(msg_que)] # "none"

(* A thread that is done waits with nothing in hand, and the logic thread  *)
(* has a login at the front while it is inside a callback.                 *)
RestInv ==
    /\ io.at = "idle" => io = Idle
    /\ logic # "wait" => msg_que # <<>>

LEMMA RestStep == BaseInv /\ RestInv /\ [Next]_vars => RestInv'
<1> SUFFICES ASSUME BaseInv, RestInv, [Next]_vars PROVE RestInv'
  OBVIOUS
<1> USE DEF tables, socket, login, history
<1>0. TypeOK /\ BaseInv'
  BY BaseStep DEF BaseInv
<1>1. logic' # "wait" => msg_que' # <<>>
  BY <1>0 DEF BaseInv, UidInv
<1>2. ASSUME UNCHANGED io PROVE RestInv'
  BY <1>1, <1>2 DEF RestInv
<1>3. ASSUME io' = Idle \/ io'.at # "idle" PROVE RestInv'
  BY <1>1, <1>3 DEF RestInv
<1>4. ASSUME NEW s \in Sessions,
             \/ AcceptStarts(s) \/ LinkDown(s) \/ WriteEnds(s)
             \/ ReadsNegativeLength(s) \/ ReadFails(s) \/ ReadsBadHeader(s) \/ WriteFails(s)
      PROVE  RestInv'
  <2>1. CASE AcceptStarts(s) \/ LinkDown(s) \/ WriteEnds(s) \/ ReadsNegativeLength(s)
    BY <1>2, <2>1 DEF AcceptStarts, LinkDown, WriteEnds, ReadsNegativeLength
  <2>2. CASE ReadFails(s) \/ ReadsBadHeader(s) \/ WriteFails(s)
    <3>1. IoRuns("find", s, None)
      BY <2>2 DEF ReadFails, ReadsBadHeader, WriteFails
    <3>2. io'.at # "idle"
      BY <3>1 DEF IoRuns
    <3>3. QED
      BY <1>3, <3>2
  <2>3. QED
    BY <1>4, <2>1, <2>2
<1>4a. ASSUME NEW l \in Logins, ReadsLogin(l) PROVE RestInv'
  <2>1. io'.at # "idle"
    BY <1>4a DEF ReadsLogin, IoRuns
  <2>2. QED
    BY <1>3, <2>1
<1>5. CASE PostMsgToQue \/ ClearSession
  <2>1. CASE PostMsgToQue \/ ClearErases
    BY <1>3, <2>1 DEF PostMsgToQue, ClearErases
  <2>2. CASE ClearFinds \/ ClearFindsNothing \/ RmvUserSession
    <3>1. io'.at \in {"rmv", "erase"}
      BY <1>0, <2>2 DEF ClearFinds, ClearFindsNothing, RmvUserSession, TypeOK
    <3>2. QED
      BY <1>3, <3>1
  <2>3. QED
    BY <1>5, <2>1, <2>2 DEF ClearSession
<1>6. CASE AcceptEmplaces \/ LoginHandler \/ (\E u \in Users : NotifyFinds(u)) \/ NotifySends
  BY <1>2, <1>6 DEF AcceptEmplaces, LoginHandler, LoginRejected, LoginAccepted, SetUserId,
     SetUserSession, LoginAnswered, NotifyFinds, NotifySends
<1>7. CASE UNCHANGED vars
  BY <1>2, <1>7 DEF vars
<1>8. QED
  BY <1>4, <1>4a, <1>5, <1>6, <1>7 DEF Next, Reads, Writes

LEMMA ClearDrops ==
  ASSUME TypeOK, ClearSession
  PROVE  /\ IoLeft[io'.at] < IoLeft[io.at]
         /\ io'.session = io.session \/ io' = Idle
<1>1. CASE ClearFinds
  <2>1. io.at = "find" /\ io'.at = "rmv" /\ io'.session = io.session
    BY <1>1 DEF ClearFinds, TypeOK
  <2>2. QED
    BY <2>1 DEF IoLeft
<1>2. CASE ClearFindsNothing
  <2>1. io.at = "find" /\ io'.at = "erase" /\ io'.session = io.session
    BY <1>2 DEF ClearFindsNothing, TypeOK
  <2>2. QED
    BY <2>1 DEF IoLeft
<1>3. CASE RmvUserSession
  <2>1. io.at = "rmv" /\ io'.at = "erase" /\ io'.session = io.session
    BY <1>3 DEF RmvUserSession, TypeOK
  <2>2. QED
    BY <2>1 DEF IoLeft
<1>4. CASE ClearErases
  <2>1. io.at = "erase" /\ io' = Idle /\ io'.at = "idle"
    BY <1>4 DEF ClearErases, Idle
  <2>2. QED
    BY <2>1 DEF IoLeft
<1>5. QED
  BY <1>1, <1>2, <1>3, <1>4 DEF ClearSession

LEMMA IoStep == BaseInv /\ [Next]_vars => [IoAdvances]_vars
<1> SUFFICES ASSUME BaseInv, [Next]_vars, io # Idle PROVE IoAdvances
  BY DEF IoAdvances
<1> USE DEF tables, socket, login, history
<1>0. TypeOK
  BY DEF BaseInv
<1>1. CASE PostMsgToQue
  <2>1. io.at = "post" /\ io' = Idle /\ io'.at = "idle"
    BY <1>1 DEF PostMsgToQue, Idle
  <2>2. QED
    BY <1>1, <2>1 DEF IoAdvances, IoLeft
<1>2. CASE ClearSession
  BY <1>0, <1>2, ClearDrops DEF IoAdvances
<1>3. ASSUME NEW s \in Sessions, AcceptStarts(s) \/ LinkDown(s) \/ Reads(s) \/ Writes(s)
      PROVE  io' = io
  BY <1>3 DEF AcceptStarts, LinkDown, Reads, Writes, ReadsLogin, ReadFails, ReadsBadHeader,
     ReadsNegativeLength, WriteEnds, WriteFails, IoRuns
<1>4. CASE AcceptEmplaces \/ LoginHandler \/ (\E u \in Users : NotifyFinds(u)) \/ NotifySends
  BY <1>4 DEF AcceptEmplaces, LoginHandler, LoginRejected, LoginAccepted, SetUserId,
     SetUserSession, LoginAnswered, NotifyFinds, NotifySends, IoAdvances
<1>5. CASE UNCHANGED vars
  BY <1>5 DEF vars, IoAdvances
<1>6. QED
  BY <1>1, <1>2, <1>3, <1>4, <1>5 DEF Next, IoAdvances

LEMMA LogicStep == BaseInv /\ [Next]_vars => [LogicAdvances]_vars
<1> SUFFICES ASSUME BaseInv, [Next]_vars PROVE LogicAdvances
  OBVIOUS
<1> USE DEF tables, socket, login, history
<1>0. TypeOK
  BY DEF BaseInv
<1>1. CASE PostMsgToQue
  BY <1>1 DEF PostMsgToQue, LogicAdvances
<1>2. CASE LoginRejected \/ LoginAnswered
  <2>1. /\ LoginHandler /\ msg_que # <<>> /\ msg_que' = Tail(msg_que) /\ logic' = "wait"
        /\ rsp' = [rsp EXCEPT ![Head(msg_que)] = "error"] \/ rsp' = [rsp EXCEPT ![Head(msg_que)] = "ok"]
    BY <1>2 DEF LoginRejected, LoginAnswered, LoginHandler, LogicGoes, Answer
  <2>2. Head(msg_que) \in Logins
    BY <1>0, <2>1, TailElements DEF TypeOK
  <2>3. rsp'[Head(msg_que)] # "none"
    BY <1>0, <2>1, <2>2 DEF TypeOK
  <2>4. QED
    BY <2>1, <2>3 DEF LogicAdvances
<1>3. CASE LoginAccepted \/ SetUserId \/ SetUserSession
  <2>1. LoginHandler /\ msg_que # <<>> /\ msg_que' = msg_que /\ <<logic, logic'>> \in Onward
    BY <1>3 DEF LoginAccepted, SetUserId, SetUserSession, LoginHandler, LogicGoes, Onward
  <2>2. QED
    BY <2>1 DEF LogicAdvances
<1>4. ASSUME NEW s \in Sessions, AcceptStarts(s) \/ LinkDown(s) \/ Reads(s) \/ Writes(s)
      PROVE  UNCHANGED <<msg_que, logic>>
  BY <1>4 DEF AcceptStarts, LinkDown, Reads, Writes, ReadsLogin, ReadFails, ReadsBadHeader,
     ReadsNegativeLength, WriteEnds, WriteFails
<1>5. CASE AcceptEmplaces \/ ClearSession \/ (\E u \in Users : NotifyFinds(u)) \/ NotifySends
  BY <1>5 DEF AcceptEmplaces, ClearSession, ClearFinds, ClearFindsNothing, RmvUserSession,
     ClearErases, NotifyFinds, NotifySends, LogicAdvances
<1>6. CASE UNCHANGED vars
  BY <1>6 DEF vars, LogicAdvances
<1>7. QED
  BY <1>1, <1>2, <1>3, <1>4, <1>5, <1>6 DEF Next, LoginHandler, LogicAdvances

(* Neither thread is left inside a handler it has finished, or inside a    *)
(* callback without the message the callback is for.                       *)
THEOREM RestCorrect == Spec => []RestInv
<1>1. Init => RestInv
  BY DEF Init, RestInv
<1>2. IInv => BaseInv
  BY DEF IInv
<1>3. QED
  BY <1>1, <1>2, Invariance, RestStep, PTL DEF Spec

(* What LostIsCleared has to add to NothingForgotten and this is only that *)
(* the io_context thread takes its next step: a ClearSession has three, a  *)
(* handler that posts has one, and none is repeated.                       *)
THEOREM ClearAdvances == Spec => [][IoAdvances]_vars
<1>1. IInv => BaseInv
  BY DEF IInv
<1>2. QED
  BY <1>1, Invariance, IoStep, PTL DEF Spec

(* The same for LoginIsAnswered: a login in the queue moves to the front   *)
(* and no other overtakes it; at the front it has four steps; the thread   *)
(* that posts waits for the logic thread in the middle of a callback only. *)
THEOREM LoginAdvances == Spec => [][LogicAdvances]_vars
<1>1. IInv => BaseInv
  BY DEF IInv
<1>2. QED
  BY <1>1, Invariance, LogicStep, PTL DEF Spec
=============================================================================
