-------------------------- MODULE ChatRoutingProofs -------------------------
(***************************************************************************)
(* Proofs about ChatRouting, for any servers, users, requests and number   *)
(* of connections: its types, RoutedHome, NotifiedInOrder,                 *)
(* SteadyIsNotified and RowIsSeen.                                         *)
(*                                                                         *)
(* RoutedHome rests on where the logins stand (IInv).  The login of a      *)
(* session whose client is still there waits or runs on that very server,  *)
(* behind every older login of the same user there; what it has written is *)
(* still there, unless the login of a dead session has set uip_; and when  *)
(* it is through, none of the user's is left on that server.  The order of *)
(* notifications rests on each request running once (OnceInv), on the      *)
(* server of its sender's connection, so that of two from one connection   *)
(* the earlier has ended (ConnInv), and on a request that ended without a  *)
(* failure having no call left at the recipient's server (OrderInv).  The  *)
(* two promises that a request is seen rest on what an undisturbed         *)
(* recipient is found by (SteadyInv) and on what a login reads that no     *)
(* request runs beside (RowInv).  Last, what HandlersEnd rests on: every   *)
(* step of a handler, or of the call it waits for, takes it nearer to its  *)
(* end.                                                                    *)
(***************************************************************************)
EXTENDS ChatRouting, TLAPS

Places == {"idle", "uid", "uip", "map", "answer", "insert", "route", "wait"}
Threads == [at : Places, user : Users \union {None}, conn : Nat, req : Requests \union {None}]
Sessions == [user : Users, conn : Nat]
LoginPlace == {"uid", "uip", "map", "answer"}

(* The part of TypeOK that RoutedHome needs. *)
PlaceInv ==
    /\ home \in [Users -> Servers \union {None}]
    /\ phase \in [Users -> {"off", "asked", "in"}]
    /\ epoch \in [Users -> Nat]
    /\ uip \in [Users -> Servers \union {None}]
    /\ uid_to_session \in [Servers -> [Users -> Nat]]
    /\ dying \in [Servers -> SUBSET Sessions]
    /\ waiting \in [Servers -> SUBSET Sessions]
    /\ logic \in [Servers -> Threads]
    /\ overtaken \subseteq Users

Connected == \A u \in Users : phase[u] # "off" => home[u] \in Servers

(* A server still has to clear only sessions of users who are not on it.   *)
DyingInv ==
    \A s \in Servers : \A x \in dying[s] : phase[x.user] = "off" \/ home[x.user] # s

(* The client of a connection is still there. *)
There(u, c) == phase[u] # "off" /\ epoch[u] = c

WaitInv ==
    \A s \in Servers : \A x \in waiting[s] :
        /\ x.conn <= epoch[x.user]
        /\ There(x.user, x.conn) => phase[x.user] = "asked" /\ home[x.user] = s

LoginInv ==
    \A s \in Servers : logic[s].at \in LoginPlace =>
        LET u == logic[s].user  c == logic[s].conn IN
          /\ u \in Users /\ c <= epoch[u]
          /\ \A x \in waiting[s] : x.user = u => c < x.conn
          /\ There(u, c) =>
                /\ phase[u] = "asked" /\ home[u] = s
                /\ logic[s].at \in {"map", "answer"} => uip[u] = s \/ u \in overtaken
                /\ logic[s].at = "answer" => uid_to_session[s][u] = c

(* No login of a user who is in is left on his server. *)
Settled ==
    \A u \in Users : phase[u] = "in" =>
        /\ \A x \in waiting[home[u]] : x.user # u
        /\ logic[home[u]].at \in LoginPlace => logic[home[u]].user # u

OvertakenInv == \A u \in overtaken : uip[u] \in Servers

IInv == PlaceInv /\ Connected /\ DyingInv /\ WaitInv /\ LoginInv /\ Settled /\ OvertakenInv
            /\ RoutedHome

-----------------------------------------------------------------------------
LEMMA InitInv == Init => IInv
<1> SUFFICES ASSUME Init PROVE IInv
  OBVIOUS
<1>1. PlaceInv
  BY DEF Init, PlaceInv, Idle, Threads, Places
<1>2. Connected /\ DyingInv /\ WaitInv /\ LoginInv /\ Settled /\ OvertakenInv /\ RoutedHome
  BY DEF Init, Connected, DyingInv, WaitInv, LoginInv, Settled, OvertakenInv, RoutedHome,
         LoginPlace, Idle
<1>3. QED
  BY <1>1, <1>2 DEF IInv

(* The client comes and goes. *)
LEMMA ConnectInv == ASSUME NEW u \in Users, NEW s \in Servers, IInv, Connect(u, s) PROVE IInv'
<1> DEFINE n == Session(u, epoch[u] + 1)
<1>1. /\ phase[u] = "off" /\ \A x \in dying[s] : x.user # u
      /\ phase' = [phase EXCEPT ![u] = "asked"] /\ home' = [home EXCEPT ![u] = s]
      /\ epoch' = [epoch EXCEPT ![u] = @ + 1]
      /\ waiting' = [waiting EXCEPT ![s] = @ \union {n}]
      /\ UNCHANGED <<uip, uid_to_session, dying, logic, overtaken>>
  BY DEF Connect, server, history
<1>2. PlaceInv /\ epoch[u] \in Nat
  BY DEF IInv, PlaceInv
<1>3. n \in Sessions /\ n.user = u /\ n.conn = epoch[u] + 1
  BY <1>2 DEF Session, Sessions
<1>4. PlaceInv'
  BY <1>1, <1>2, <1>3 DEF PlaceInv
<1>5. \A v \in Users : v # u => UNCHANGED <<phase[v], home[v], epoch[v]>>
  BY <1>1, <1>2 DEF PlaceInv
<1>6. phase'[u] = "asked" /\ home'[u] = s /\ epoch'[u] = epoch[u] + 1
  BY <1>1, <1>2 DEF PlaceInv
<1>7. \A t \in Servers : \A x \in waiting'[t] : x \in waiting[t] \/ (t = s /\ x = n)
  BY <1>1, <1>2 DEF PlaceInv
<1>8. /\ \A t \in Servers : \A x \in waiting[t] \union dying[t] : x \in Sessions
      /\ \A x \in Sessions : x.user \in Users /\ x.conn \in Nat /\ epoch[x.user] \in Nat
  BY <1>2 DEF PlaceInv, Sessions
<1>9. Connected' /\ DyingInv'
  BY <1>1, <1>5, <1>6, <1>8 DEF IInv, Connected, DyingInv
<1>10. ASSUME NEW t \in Servers, NEW x \in waiting'[t]
       PROVE  /\ x.conn <= epoch'[x.user]
              /\ There(x.user, x.conn)' => phase'[x.user] = "asked" /\ home'[x.user] = t
  <2>1. CASE t = s /\ x = n
    BY <1>2, <1>3, <1>6, <2>1
  <2>2. CASE x \in waiting[t] /\ x.user # u
    BY <1>5, <1>8, <2>2 DEF IInv, WaitInv, There
  <2>3. CASE x \in waiting[t] /\ x.user = u
    <3>1. x.conn <= epoch[u] /\ x.conn \in Nat
      BY <1>8, <2>3 DEF IInv, WaitInv
    <3>2. x.conn # epoch'[u] /\ x.conn <= epoch'[u]
      BY <1>2, <1>6, <3>1
    <3>3. QED
      BY <2>3, <3>2 DEF There
  <2>4. QED
    BY <1>7, <2>1, <2>2, <2>3
<1>11. ASSUME NEW t \in Servers, logic'[t].at \in LoginPlace, NEW v, v = logic'[t].user,
              NEW c, c = logic'[t].conn
       PROVE  /\ v \in Users /\ c <= epoch'[v]
              /\ \A x \in waiting'[t] : x.user = v => c < x.conn
              /\ There(v, c)' =>
                    /\ phase'[v] = "asked" /\ home'[v] = t
                    /\ logic'[t].at \in {"map", "answer"} => uip'[v] = t \/ v \in overtaken'
                    /\ logic'[t].at = "answer" => uid_to_session'[t][v] = c
  <2>1. /\ logic'[t] = logic[t] /\ v \in Users /\ c <= epoch[v] /\ c \in Nat
        /\ \A x \in waiting[t] : x.user = v => c < x.conn
    BY <1>1, <1>2, <1>11 DEF IInv, LoginInv, PlaceInv, Threads
  <2>2. v = u => c < n.conn
    BY <1>2, <1>3, <2>1
  <2>3. \A x \in waiting'[t] : x.user = v => c < x.conn
    BY <1>3, <1>7, <2>1, <2>2
  <2>4. CASE v = u
    <3>1. c <= epoch'[u] /\ c # epoch'[u]
      BY <1>2, <1>6, <2>1, <2>4
    <3>2. QED
      BY <2>1, <2>3, <2>4, <3>1 DEF There
  <2>5. CASE v # u
    <3>1. There(v, c)' <=> There(v, c)
      BY <1>5, <2>1, <2>5 DEF There
    <3>2. QED
      BY <1>1, <1>5, <1>11, <2>1, <2>3, <2>5, <3>1 DEF IInv, LoginInv
  <2>6. QED
    BY <2>4, <2>5
<1>12. WaitInv' /\ LoginInv'
  BY <1>10, <1>11 DEF WaitInv, LoginInv
<1>13. Settled' /\ OvertakenInv' /\ RoutedHome'
  <2>1. ASSUME NEW v \in Users, phase'[v] = "in"
        PROVE  v # u /\ phase[v] = "in" /\ home'[v] = home[v] /\ home[v] \in Servers
    BY <1>5, <1>6, <2>1 DEF IInv, Connected
  <2>2. QED
    BY <1>1, <1>3, <1>5, <1>7, <2>1 DEF IInv, Settled, OvertakenInv, RoutedHome
<1>14. QED
  BY <1>4, <1>9, <1>12, <1>13 DEF IInv

LEMMA DisconnectInv == ASSUME NEW u \in Users, IInv, Disconnect(u) PROVE IInv'
<1> DEFINE n == Session(u, epoch[u])
<1>1. /\ phase[u] # "off"
      /\ phase' = [phase EXCEPT ![u] = "off"] /\ home' = [home EXCEPT ![u] = None]
      /\ dying' = [dying EXCEPT ![home[u]] = @ \union {n}]
      /\ UNCHANGED <<epoch, uip, uid_to_session, waiting, logic, overtaken>>
  BY DEF Disconnect, server
<1>2. PlaceInv /\ home[u] \in Servers /\ n \in Sessions /\ n.user = u
  BY <1>1 DEF IInv, Connected, PlaceInv, Session, Sessions
<1>3. PlaceInv'
  BY <1>1, <1>2 DEF PlaceInv
<1>4. \A v \in Users : v # u => UNCHANGED <<phase[v], home[v]>>
  BY <1>1, <1>2 DEF PlaceInv
<1>5. phase'[u] = "off"
  BY <1>1, <1>2 DEF PlaceInv
<1>6. \A s \in Servers : \A x \in dying'[s] : x = n \/ x \in dying[s]
  BY <1>1, <1>2 DEF PlaceInv
<1>7. /\ \A t \in Servers : \A x \in waiting[t] \union dying[t] : x \in Sessions
      /\ \A x \in Sessions : x.user \in Users
  BY <1>2 DEF PlaceInv, Sessions
<1>8. Connected' /\ DyingInv'
  BY <1>2, <1>4, <1>5, <1>6, <1>7 DEF IInv, Connected, DyingInv
<1>9. \A v \in Users : \A c : There(v, c)' => v # u /\ There(v, c)
  BY <1>1, <1>4, <1>5 DEF There
<1>10. WaitInv'
  BY <1>1, <1>4, <1>7, <1>9 DEF IInv, WaitInv
<1>11. LoginInv'
  BY <1>1, <1>4, <1>9 DEF IInv, LoginInv
<1>12. Settled' /\ OvertakenInv' /\ RoutedHome'
  BY <1>1, <1>4, <1>5 DEF IInv, Settled, OvertakenInv, RoutedHome
<1>13. QED
  BY <1>3, <1>8, <1>10, <1>11, <1>12 DEF IInv

(* A late ClearSession hits no user who is on the server again. *)
LEMMA ClearSessionInv ==
  ASSUME NEW s \in Servers, NEW x \in dying[s], IInv, ClearSession(s, x) PROVE IInv'
<1> DEFINE u == x.user
<1>1. /\ dying' = [dying EXCEPT ![s] = @ \ {x}]
      /\ uid_to_session' = [uid_to_session EXCEPT ![s][u] = IF Named(s, x) THEN 0 ELSE @]
      /\ UNCHANGED <<home, phase, epoch, uip, waiting, logic, overtaken>>
  BY DEF ClearSession, client, history
<1>2. PlaceInv /\ u \in Users
  BY DEF IInv, PlaceInv, Sessions
<1>3. PlaceInv'
  BY <1>1, <1>2 DEF PlaceInv
<1>4. Connected' /\ DyingInv'
  BY <1>1, <1>2 DEF IInv, PlaceInv, Connected, DyingInv
<1>5. \A t \in Servers, v \in Users : t # s \/ v # u => uid_to_session'[t][v] = uid_to_session[t][v]
  BY <1>1, <1>2 DEF PlaceInv
<1>6. phase[u] = "off" \/ home[u] # s
  BY DEF IInv, DyingInv
<1>7. WaitInv' /\ OvertakenInv'
  BY <1>1 DEF IInv, WaitInv, OvertakenInv, There
<1>8. LoginInv'
  BY <1>1, <1>5, <1>6 DEF IInv, LoginInv, There
<1>9. Settled' /\ RoutedHome'
  BY <1>1, <1>5, <1>6 DEF IInv, Connected, Settled, RoutedHome
<1>10. QED
  BY <1>3, <1>4, <1>7, <1>8, <1>9 DEF IInv

-----------------------------------------------------------------------------
(* The steps of a login change the logic thread of one server and write    *)
(* something about the user of the session it came from.                   *)
LEMMA LoginStarts ==
  ASSUME NEW s \in Servers, NEW x \in waiting[s], IInv, LoginReadsLists(s, x) PROVE IInv'
<1> DEFINE u == x.user
<1>1. /\ logic[s] = Idle /\ \A y \in waiting[s] : y.user = u => x.conn <= y.conn
      /\ waiting' = [waiting EXCEPT ![s] = @ \ {x}]
      /\ logic' = [logic EXCEPT ![s] = [at |-> "uid", user |-> u, conn |-> x.conn, req |-> None]]
      /\ UNCHANGED <<home, phase, epoch, uip, uid_to_session, dying, overtaken>>
  BY DEF LoginReadsLists, client, server
<1>2. PlaceInv /\ x \in Sessions /\ u \in Users /\ x.conn \in Nat
  BY DEF IInv, PlaceInv, Sessions
<1>3. PlaceInv'
  BY <1>1, <1>2 DEF PlaceInv, Threads, Places
<1>4. Connected' /\ DyingInv' /\ OvertakenInv' /\ RoutedHome'
  BY <1>1 DEF IInv, Connected, DyingInv, OvertakenInv, RoutedHome
<1>5. \A t \in Servers :
         IF t = s THEN logic'[t].at = "uid" /\ logic'[t].user = u /\ logic'[t].conn = x.conn
                  ELSE logic'[t] = logic[t]
  BY <1>1, <1>2 DEF PlaceInv
<1>6. \A t \in Servers : \A y \in waiting'[t] : y \in waiting[t] /\ (t = s => y # x)
  BY <1>1, <1>2 DEF PlaceInv
<1>7. WaitInv'
  BY <1>1, <1>6 DEF IInv, WaitInv, There
<1>8. \A y \in waiting'[s] : y.user = u => x.conn < y.conn
  <2>1. SUFFICES ASSUME NEW y \in waiting'[s], y.user = u PROVE x.conn < y.conn
    OBVIOUS
  <2>2. y \in Sessions /\ y # x /\ x.conn <= y.conn
    BY <1>1, <1>2, <1>6, <2>1 DEF PlaceInv
  <2>3. y.conn # x.conn /\ y.conn \in Nat
    BY <1>2, <2>1, <2>2 DEF Sessions
  <2>4. QED
    BY <1>2, <2>2, <2>3
<1>9. x.conn <= epoch[u] /\ (There(u, x.conn) => phase[u] = "asked" /\ home[u] = s)
  BY DEF IInv, WaitInv
<1>10. LoginInv'
  <2>1. ASSUME NEW t \in Servers, t # s
        PROVE  logic'[t] = logic[t] /\ \A y \in waiting'[t] : y \in waiting[t]
    BY <1>5, <1>6, <2>1
  <2>2. QED
    BY <1>1, <1>2, <1>5, <1>8, <1>9, <2>1 DEF IInv, LoginInv, There
<1>11. Settled'
  <2>1. SUFFICES ASSUME NEW v \in Users, phase[v] = "in"
                 PROVE  /\ \A y \in waiting'[home[v]] : y.user # v
                        /\ logic'[home[v]].at \in LoginPlace => logic'[home[v]].user # v
    BY <1>1 DEF Settled
  <2>2. /\ home[v] \in Servers /\ \A y \in waiting[home[v]] : y.user # v
        /\ logic[home[v]].at \in LoginPlace => logic[home[v]].user # v
    BY <2>1 DEF IInv, Connected, Settled
  <2>3. home[v] = s => u # v
    BY <2>2
  <2>4. QED
    BY <1>5, <1>6, <2>2, <2>3
<1>12. QED
  BY <1>3, <1>4, <1>7, <1>10, <1>11 DEF IInv

(* A step of a login that leaves the queues and the clients alone. *)
LEMMA LoginThread ==
  ASSUME IInv, NEW s \in Servers, NEW from \in LoginPlace, NEW to \in LoginPlace, Goes(s, from, to)
  PROVE  /\ logic' \in [Servers -> Threads]
         /\ logic[s].user \in Users /\ logic[s].conn \in Nat /\ logic[s].at = from
         /\ \A t \in Servers : /\ logic'[t].user = logic[t].user /\ logic'[t].conn = logic[t].conn
                               /\ logic'[t].at = IF t = s THEN to ELSE logic[t].at
         /\ \A t \in Servers : logic'[t].at \in LoginPlace <=> logic[t].at \in LoginPlace
<1>1. logic \in [Servers -> Threads] /\ from \in Places /\ to \in Places
  BY DEF IInv, PlaceInv, LoginPlace, Places
<1>2. logic[s].at = from /\ logic' = [logic EXCEPT ![s].at = to]
  BY DEF Goes
<1>3. logic[s].user \in Users
  BY <1>2 DEF IInv, LoginInv
<1>4. logic[s] \in Threads /\ [logic[s] EXCEPT !.at = to] \in Threads
  BY <1>1 DEF Threads
<1>5. logic' \in [Servers -> Threads]
  BY <1>1, <1>2, <1>4
<1>6. \A t \in Servers : /\ logic'[t].user = logic[t].user /\ logic'[t].conn = logic[t].conn
                         /\ logic'[t].at = IF t = s THEN to ELSE logic[t].at
  BY <1>1, <1>2 DEF Threads
<1>7. QED
  BY <1>2, <1>3, <1>4, <1>5, <1>6 DEF Threads

LEMMA UserIdInv == ASSUME NEW s \in Servers, IInv, LoginSetsUserId(s) PROVE IInv'
<1>1. /\ Goes(s, "uid", "uip")
      /\ UNCHANGED <<home, phase, epoch, uip, uid_to_session, dying, waiting, overtaken>>
  BY DEF LoginSetsUserId, client, server, queue, history
<1>2. /\ logic' \in [Servers -> Threads] /\ logic[s].at = "uid"
      /\ \A t \in Servers : /\ logic'[t].user = logic[t].user /\ logic'[t].conn = logic[t].conn
                            /\ logic'[t].at = IF t = s THEN "uip" ELSE logic[t].at
      /\ \A t \in Servers : logic'[t].at \in LoginPlace <=> logic[t].at \in LoginPlace
  <2>1. "uid" \in LoginPlace /\ "uip" \in LoginPlace
    BY DEF LoginPlace
  <2>2. QED
    BY <1>1, <2>1, LoginThread
<1>3. PlaceInv'
  BY <1>1, <1>2 DEF IInv, PlaceInv
<1>4. Connected' /\ DyingInv' /\ WaitInv' /\ OvertakenInv' /\ RoutedHome'
  BY <1>1 DEF IInv, Connected, DyingInv, WaitInv, OvertakenInv, RoutedHome, There
<1>5. LoginInv'
  BY <1>1, <1>2 DEF IInv, LoginInv, There
<1>6. Settled'
  BY <1>1, <1>2 DEF IInv, Connected, Settled
<1>7. QED
  BY <1>3, <1>4, <1>5, <1>6 DEF IInv

LEMMA UipInv == ASSUME NEW s \in Servers, IInv, LoginSetsUip(s) PROVE IInv'
<1> DEFINE u == logic[s].user
<1>1. /\ Goes(s, "uip", "map") /\ uip' = [uip EXCEPT ![u] = s]
      /\ overtaken' = IF Live(u, logic[s].conn) THEN overtaken \ {u} ELSE overtaken \union {u}
      /\ UNCHANGED <<home, phase, epoch, uid_to_session, dying, waiting>>
  BY DEF LoginSetsUip, client, queue
<1>2. /\ logic' \in [Servers -> Threads] /\ logic[s].at = "uip" /\ u \in Users
      /\ \A t \in Servers : /\ logic'[t].user = logic[t].user /\ logic'[t].conn = logic[t].conn
                            /\ logic'[t].at = IF t = s THEN "map" ELSE logic[t].at
      /\ \A t \in Servers : logic'[t].at \in LoginPlace <=> logic[t].at \in LoginPlace
  <2>1. "uip" \in LoginPlace /\ "map" \in LoginPlace
    BY DEF LoginPlace
  <2>2. QED
    BY <1>1, <2>1, LoginThread
<1>3. There(u, logic[s].conn) => phase[u] = "asked" /\ home[u] = s
  BY <1>2 DEF IInv, LoginInv, LoginPlace
<1>4. \A v \in Users : uip'[v] = IF v = u THEN s ELSE uip[v]
  BY <1>1, <1>2 DEF IInv, PlaceInv
<1>5. /\ \A v \in overtaken' : v = u \/ v \in overtaken
      /\ \A v \in overtaken : v = u \/ v \in overtaken'
      /\ u \in overtaken' \/ Live(u, logic[s].conn)
  BY <1>1
<1>6. PlaceInv'
  BY <1>1, <1>2, <1>5 DEF IInv, PlaceInv
<1>7. Connected' /\ DyingInv' /\ WaitInv'
  BY <1>1 DEF IInv, Connected, DyingInv, WaitInv, There
<1>8. OvertakenInv'
  BY <1>2, <1>4, <1>5 DEF IInv, PlaceInv, OvertakenInv
<1>9. RoutedHome'
  BY <1>1, <1>4, <1>5 DEF IInv, RoutedHome, Live
<1>10. Settled'
  BY <1>1, <1>2 DEF IInv, Connected, Settled
<1>11. LoginInv'
  BY <1>1, <1>2, <1>3, <1>4, <1>5 DEF IInv, LoginInv, LoginPlace, There, Live
<1>12. QED
  BY <1>6, <1>7, <1>8, <1>9, <1>10, <1>11 DEF IInv

LEMMA SessionInv == ASSUME NEW s \in Servers, IInv, LoginSetsSession(s) PROVE IInv'
<1> DEFINE u == logic[s].user  c == logic[s].conn
<1>1. /\ Goes(s, "map", "answer") /\ uid_to_session' = [uid_to_session EXCEPT ![s][u] = c]
      /\ UNCHANGED <<home, phase, epoch, uip, dying, waiting, overtaken>>
  BY DEF LoginSetsSession, client, queue, history
<1>2. /\ logic' \in [Servers -> Threads] /\ logic[s].at = "map" /\ u \in Users /\ c \in Nat
      /\ \A t \in Servers : /\ logic'[t].user = logic[t].user /\ logic'[t].conn = logic[t].conn
                            /\ logic'[t].at = IF t = s THEN "answer" ELSE logic[t].at
      /\ \A t \in Servers : logic'[t].at \in LoginPlace <=> logic[t].at \in LoginPlace
  <2>1. "map" \in LoginPlace /\ "answer" \in LoginPlace
    BY DEF LoginPlace
  <2>2. QED
    BY <1>1, <2>1, LoginThread
<1>3. PlaceInv'
  BY <1>1, <1>2 DEF IInv, PlaceInv
<1>4. Connected' /\ DyingInv' /\ WaitInv' /\ OvertakenInv'
  BY <1>1 DEF IInv, Connected, DyingInv, WaitInv, OvertakenInv, There
<1>5. \A t \in Servers, v \in Users :
         uid_to_session'[t][v] = IF t = s /\ v = u THEN c ELSE uid_to_session[t][v]
  BY <1>1, <1>2 DEF IInv, PlaceInv
<1>6. ~(phase[u] = "in" /\ home[u] = s)
  BY <1>2 DEF IInv, Settled, LoginPlace
<1>7. RoutedHome'
  BY <1>1, <1>2, <1>5, <1>6 DEF IInv, Connected, RoutedHome
<1>8. Settled'
  BY <1>1, <1>2 DEF IInv, Connected, Settled
<1>9. LoginInv'
  BY <1>1, <1>2, <1>5 DEF IInv, LoginInv, LoginPlace, There
<1>10. QED
  BY <1>3, <1>4, <1>7, <1>8, <1>9 DEF IInv

LEMMA AnswerInv == ASSUME NEW s \in Servers, IInv, LoginAnswers(s) PROVE IInv'
<1> DEFINE u == logic[s].user  c == logic[s].conn
<1>1. /\ logic[s].at = "answer" /\ logic' = [logic EXCEPT ![s] = Idle]
      /\ phase' = [phase EXCEPT ![u] = IF Live(u, c) THEN "in" ELSE @]
      /\ UNCHANGED <<home, epoch, uip, uid_to_session, dying, waiting, overtaken>>
  BY DEF LoginAnswers, Ends, server, queue, history
<1>2. /\ u \in Users /\ c <= epoch[u] /\ \A x \in waiting[s] : x.user = u => c < x.conn
      /\ There(u, c) => /\ phase[u] = "asked" /\ home[u] = s
                        /\ uip[u] = s \/ u \in overtaken
                        /\ uid_to_session[s][u] = c
  BY <1>1 DEF IInv, LoginInv, LoginPlace
<1>3. PlaceInv /\ c \in Nat /\ epoch[u] \in Nat
  BY <1>2 DEF IInv, PlaceInv, Threads
<1>4. PlaceInv'
  BY <1>1, <1>2, <1>3 DEF PlaceInv, Idle, Threads, Places
<1>5. \A t \in Servers : IF t = s THEN logic'[t].at = "idle" ELSE logic'[t] = logic[t]
  BY <1>1, <1>3 DEF PlaceInv, Idle
<1>6. CASE ~Live(u, c)
  <2>1. phase' = phase
    BY <1>1, <1>2, <1>3, <1>6 DEF PlaceInv
  <2>2. Connected' /\ DyingInv' /\ WaitInv' /\ OvertakenInv' /\ RoutedHome'
    BY <1>1, <2>1 DEF IInv, Connected, DyingInv, WaitInv, OvertakenInv, RoutedHome, There
  <2>3. LoginInv' /\ Settled'
    BY <1>1, <1>5, <2>1 DEF IInv, Connected, LoginInv, LoginPlace, Settled, There
  <2>4. QED
    BY <1>4, <2>2, <2>3 DEF IInv
<1>7. CASE Live(u, c)
  <2>1. /\ phase[u] = "asked" /\ home[u] = s /\ uid_to_session[s][u] = epoch[u] /\ c = epoch[u]
        /\ uip[u] = s \/ u \in overtaken
    BY <1>2, <1>7 DEF Live, There
  <2>2. \A v \in Users : phase'[v] = IF v = u THEN "in" ELSE phase[v]
    BY <1>1, <1>2, <1>3, <1>7 DEF PlaceInv
  <2>3. \A t \in Servers : \A x \in waiting[t] \union dying[t] :
           x.user \in Users /\ x.conn \in Nat /\ epoch[x.user] \in Nat
    BY <1>3 DEF PlaceInv, Sessions
  <2>4. Connected' /\ DyingInv' /\ OvertakenInv' /\ RoutedHome'
    BY <1>1, <2>1, <2>2, <2>3 DEF IInv, Connected, DyingInv, OvertakenInv, RoutedHome
  <2>5. \A t \in Servers : \A x \in waiting[t] : ~(x.user = u /\ x.conn = epoch[u])
    <3>1. SUFFICES ASSUME NEW t \in Servers, NEW x \in waiting[t], x.user = u, x.conn = epoch[u]
                   PROVE  FALSE
      OBVIOUS
    <3>2. There(x.user, x.conn)
      BY <2>1, <3>1 DEF There
    <3>3. t = s
      BY <2>1, <3>1, <3>2 DEF IInv, WaitInv
    <3>4. QED
      BY <1>2, <1>3, <2>1, <3>1, <3>3
  <2>6. WaitInv'
    BY <1>1, <2>2, <2>3, <2>5 DEF IInv, WaitInv, There
  <2>7. \A t \in Servers \ {s} : logic[t].at \in LoginPlace =>
           ~(logic[t].user = u /\ logic[t].conn = epoch[u])
    BY <2>1 DEF IInv, LoginInv, There
  <2>8. LoginInv'
    BY <1>1, <1>5, <2>2, <2>7 DEF IInv, LoginInv, LoginPlace, There
  <2>9. \A x \in waiting[s] : x.user # u
    <3>1. SUFFICES ASSUME NEW x \in waiting[s], x.user = u PROVE FALSE
      OBVIOUS
    <3>2. x.conn <= epoch[u] /\ c < x.conn /\ x.conn \in Nat
      BY <1>2, <2>3, <3>1 DEF IInv, WaitInv
    <3>3. QED
      BY <1>3, <2>1, <3>2
  <2>10. Settled'
    BY <1>1, <1>5, <2>1, <2>2, <2>9 DEF IInv, Connected, Settled, LoginPlace
  <2>11. QED
    BY <1>4, <2>4, <2>6, <2>8, <2>10 DEF IInv
<1>8. QED
  BY <1>6, <1>7

-----------------------------------------------------------------------------
(* A request writes nothing that RoutedHome speaks of, and the logic       *)
(* thread that runs it is in no login before or after.                     *)
LEMMA RequestStep ==
  ASSUME IInv, NEW s \in Servers, NEW l \in Threads, l.at \notin LoginPlace,
         logic' = [logic EXCEPT ![s] = l],
         UNCHANGED <<home, phase, epoch, uip, uid_to_session, dying, waiting, overtaken>>
  PROVE  IInv'
<1>1. PlaceInv'
  BY DEF IInv, PlaceInv
<1>2. Connected' /\ DyingInv' /\ WaitInv' /\ OvertakenInv' /\ RoutedHome'
  BY DEF IInv, Connected, DyingInv, WaitInv, OvertakenInv, RoutedHome, There
<1>3. \A t \in Servers : IF t = s THEN logic'[t].at \notin LoginPlace ELSE logic'[t] = logic[t]
  BY DEF IInv, PlaceInv
<1>4. LoginInv' /\ Settled'
  BY <1>3 DEF IInv, Connected, LoginInv, Settled, There
<1>5. QED
  BY <1>1, <1>2, <1>4 DEF IInv

LEMMA RequestBeginsInv ==
  ASSUME NEW s \in Servers, NEW r \in Requests, IInv, RequestBegins(s, r) PROVE IInv'
<1> DEFINE l == [at |-> IF r \in Rows THEN "insert" ELSE "route", user |-> None, conn |-> 0,
                 req |-> r]
<1>1. /\ logic' = [logic EXCEPT ![s] = l]
      /\ UNCHANGED <<home, phase, epoch, uip, uid_to_session, dying, waiting, overtaken>>
  BY DEF RequestBegins, client, server, queue
<1>2. l \in Threads /\ l.at \notin LoginPlace
  BY DEF Threads, Places, LoginPlace
<1>3. QED
  BY <1>1, <1>2, RequestStep

LEMMA RequestHandlerInv ==
  ASSUME NEW s \in Servers, IInv, RequestHandler(s) \/ RpcFails(s) PROVE IInv'
<1>1. UNCHANGED <<home, phase, epoch, uip, uid_to_session, dying, waiting, overtaken>>
  BY DEF RequestHandler, InsertsRow, RouteUnknown, RouteFails, RoutesTo, RequestEnds, RpcFails,
         client, server, queue, history
<1>2. logic \in [Servers -> Threads]
  BY DEF IInv, PlaceInv
<1>3. CASE logic' = [logic EXCEPT ![s] = Idle]
  <2>1. Idle \in Threads /\ Idle.at \notin LoginPlace
    BY DEF Idle, Threads, Places, LoginPlace
  <2>2. QED
    BY <1>1, <1>3, <2>1, RequestStep
<1>4. CASE \E to \in {"route", "wait"} : logic' = [logic EXCEPT ![s].at = to]
  <2>1. PICK to \in {"route", "wait"} : logic' = [logic EXCEPT ![s].at = to]
    BY <1>4
  <2> DEFINE l == [logic[s] EXCEPT !.at = to]
  <2>2. logic' = [logic EXCEPT ![s] = l]
    BY <2>1
  <2>3. l \in Threads /\ l.at \notin LoginPlace
    BY <1>2 DEF Threads, Places, LoginPlace
  <2>4. QED
    BY <1>1, <2>2, <2>3, RequestStep
<1>5. QED
  BY <1>3, <1>4 DEF RequestHandler, InsertsRow, RouteUnknown, RouteFails, RoutesTo, RequestEnds,
                    RpcFails, Goes, Ends

LEMMA StepInv == IInv /\ [Next]_vars => IInv'
<1> SUFFICES ASSUME IInv, [Next]_vars PROVE IInv'
  OBVIOUS
<1>1. ASSUME NEW u \in Users, NEW s \in Servers, Connect(u, s) PROVE IInv'
  BY <1>1, ConnectInv
<1>2. ASSUME NEW u \in Users, Disconnect(u) PROVE IInv'
  BY <1>2, DisconnectInv
<1>3. ASSUME NEW s \in Servers, NEW x \in dying[s], ClearSession(s, x) PROVE IInv'
  BY <1>3, ClearSessionInv
<1>4. ASSUME NEW s \in Servers, LoginHandler(s) PROVE IInv'
  BY <1>4, LoginStarts, UserIdInv, UipInv, SessionInv, AnswerInv DEF LoginHandler
<1>5. ASSUME NEW s \in Servers, RequestHandler(s) \/ RpcFails(s) PROVE IInv'
  BY <1>5, RequestHandlerInv
<1>6. ASSUME NEW s \in Servers, NEW r \in Requests, RequestBegins(s, r) PROVE IInv'
  BY <1>6, RequestBeginsInv
<1>7. CASE UNCHANGED vars \/ \E r \in Requests : Notifies(r)
  <2>1. UNCHANGED <<home, phase, epoch, uip, uid_to_session, dying, waiting, logic, overtaken>>
    BY <1>7 DEF Notifies, Finds, Sends, vars, client, server, queue, history
  <2>2. QED
    BY <2>1 DEF IInv, PlaceInv, Connected, DyingInv, WaitInv, LoginInv, Settled, OvertakenInv,
                RoutedHome, There
<1>8. QED
  BY <1>1, <1>2, <1>3, <1>4, <1>5, <1>6, <1>7 DEF Next

-----------------------------------------------------------------------------
(* Redis and the user tables agree about every user who is logged in, but  *)
(* for the uip_ that the login of a session he lost has set after his own, *)
(* for any number of servers, users, connections and requests.             *)
THEOREM RoutedHomeCorrect == Spec => []RoutedHome
<1>1. IInv => RoutedHome
  BY DEF IInv
<1>2. QED
  BY InitInv, StepInv, <1>1, PTL DEF Spec

-----------------------------------------------------------------------------
(* The requests: each runs on one logic thread, once.                      *)

RequestPlace == {"insert", "route", "wait"}
Begun == {begun[i].req : i \in DOMAIN begun}
Shown(u) == {delivered[u][i] : i \in DOMAIN delivered[u]}

(* A logic thread has a user during a login, a request during a request. *)
RunInv ==
    /\ \A s \in Servers :
          /\ logic[s].at \in RequestPlace => logic[s].req \in Requests
          /\ logic[s].at \notin RequestPlace => logic[s].req = None
          /\ logic[s].at \notin LoginPlace => logic[s].user = None
          /\ logic[s].at = "insert" => logic[s].req \in Rows
    /\ \A u \in Users : phase[u] # "off" => epoch[u] >= 1
    /\ \A r \in Requests : call[r].at \in {"called", "found"} => call[r].server \in Servers

Calls == [at : {"none", "called", "found", "done"},
          server : Servers \union {None}, conn : Nat]

OnceInv ==
    /\ \A i, j \in DOMAIN begun : begun[i].req = begun[j].req => i = j
    /\ \A s \in Servers : logic[s].req # None => logic[s].req \in Begun
    /\ \A s, t \in Servers : logic[s].req # None /\ logic[s].req = logic[t].req => s = t
    /\ \A r \in Requests : call[r].at # "none" => r \in Begun
    /\ table \subseteq Begun
    /\ \A s \in Servers :
          /\ logic[s].at \in {"insert", "route"} => call[logic[s].req].at = "none"
          /\ logic[s].at = "wait" => call[logic[s].req].at # "none"

(* A request of a sender's present connection runs on the server of that   *)
(* connection, so of two from one connection the earlier has ended.        *)
ConnInv ==
    /\ \A i \in DOMAIN begun : begun[i].conn <= epoch[From[begun[i].req]]
    /\ \A i \in DOMAIN begun, s \in Servers :
          begun[i].req = logic[s].req /\ begun[i].conn = epoch[From[begun[i].req]]
             /\ phase[From[begun[i].req]] # "off"
             => home[From[begun[i].req]] = s
    /\ \A i, j \in DOMAIN begun :
          i < j /\ From[begun[i].req] = From[begun[j].req] /\ begun[i].conn = begun[j].conn
             => ~Running(begun[i].req)

OrderInv ==
    /\ \A u \in Users : \A r \in Shown(u) : call[r].at = "done"
    /\ \A r \in Requests : Handled(r) /\ r \notin failed => call[r].at \in {"none", "done"}
    /\ NotifiedInOrder

(* A request whose recipient has been there all along finds him, if it has *)
(* not followed a uip_ that the login of a dead session has set.           *)
Finding(r) ==
    /\ phase[To[r]] = "in"
    /\ call[r].at = "called" => call[r].server = home[To[r]]
    /\ call[r].at = "found" => call[r].server = home[To[r]] /\ call[r].conn = epoch[To[r]]
    /\ call[r].at = "done" => r \in Shown(To[r]) /\ r \in known[To[r]]

SteadyInv ==
    /\ \A r \in Requests : Running(r) /\ r \notin disturbed \union strayed => Finding(r)
    /\ \A r \in Requests :
          Handled(r) /\ r \notin disturbed \union strayed \union failed => r \in Shown(To[r])

(* While a request runs beside no login of its recipient, he was there     *)
(* from its beginning or is not there at all; afterwards every login reads *)
(* its row.                                                                *)
RowInv ==
    /\ disturbed \subseteq Begun
    /\ \A r \in Requests \ (overlapped \union strayed \union failed) :
          /\ Running(r) => ~LoggingIn(To[r])
          /\ Running(r) /\ phase[To[r]] = "in" => r \notin disturbed
          /\ r \in table /\ Handled(r) /\ Listable(r)
                /\ (phase[To[r]] = "in" \/ LoggingIn(To[r]))
                => r \in known[To[r]]

BaseInv == IInv /\ TypeOK /\ RunInv

(* What TypeOK adds to the types in IInv. *)
RowTypes ==
    /\ table \subseteq Rows /\ applies \in [Users -> Nat] /\ older \in [Requests -> Nat]
    /\ call \in [Requests -> Calls]
    /\ known \in [Users -> SUBSET Requests] /\ delivered \in [Users -> Seq(Requests)]
    /\ begun \in Seq([req : Requests, conn : Nat])
    /\ overlapped \subseteq Requests /\ disturbed \subseteq Requests
    /\ strayed \subseteq Requests /\ failed \subseteq Requests

LEMMA Types ==
  /\ PlaceInv /\ RowTypes <=> TypeOK
  /\ PlaceInv' /\ RowTypes' <=> TypeOK'
BY DEF PlaceInv, RowTypes, TypeOK, Threads, Places, Sessions, Calls

LEMMA TypesAfter == ASSUME BaseInv, [Next]_vars, RowTypes' PROVE TypeOK'
BY StepInv, Types DEF BaseInv, IInv

LEMMA BaseClient ==
  ASSUME BaseInv, [Next]_vars,
         \/ \E u \in Users : Disconnect(u) \/ \E s \in Servers : Connect(u, s)
         \/ \E s \in Servers : \E x \in dying[s] : ClearSession(s, x)
  PROVE  TypeOK' /\ RunInv'
<1>1. PlaceInv /\ RowTypes
  BY Types DEF BaseInv
<1>2. ASSUME NEW u \in Users, Disconnect(u)
      PROVE  TypeOK' /\ RunInv'
  <2>1. RowTypes'
    BY <1>1, <1>2 DEF Disconnect, server, mysql, screen, RequestsTo, RowTypes
  <2>2. RunInv'
    BY <1>1, <1>2 DEF Disconnect, server, BaseInv, PlaceInv, RunInv
  <2>3. QED
    BY <2>1, <2>2, TypesAfter
<1>3. ASSUME NEW u \in Users, NEW s \in Servers, Connect(u, s)
      PROVE  TypeOK' /\ RunInv'
  <2>1. RowTypes'
    BY <1>1, <1>3 DEF Connect, server, mysql, screen, history, RowTypes
  <2>2. RunInv'
    BY <1>1, <1>3 DEF Connect, BaseInv, PlaceInv, RunInv
  <2>3. QED
    BY <2>1, <2>2, TypesAfter
<1>4. ASSUME NEW s \in Servers, NEW x \in dying[s], ClearSession(s, x)
      PROVE  TypeOK' /\ RunInv'
  <2>1. RowTypes'
    BY <1>1, <1>4 DEF ClearSession, mysql, screen, history, RowTypes
  <2>2. RunInv'
    BY <1>4 DEF ClearSession, client, BaseInv, RunInv
  <2>3. QED
    BY <2>1, <2>2, TypesAfter
<1>5. QED
  BY <1>2, <1>3, <1>4

LEMMA BaseLogin ==
  ASSUME BaseInv, [Next]_vars, NEW s \in Servers, LoginHandler(s)
  PROVE  TypeOK' /\ RunInv'
<1> DEFINE u == logic[s].user
<1>1. PlaceInv /\ RowTypes /\ logic \in [Servers -> Threads]
  BY Types DEF BaseInv, PlaceInv
<1>2. RowTypes'
  <2>1. ASSUME NEW x \in waiting[s], LoginReadsLists(s, x)
        PROVE  RowTypes'
    <3> DEFINE L == {r \in table \intersect RequestsTo(x.user) : Listable(r)}
    <3>0. L \in SUBSET Requests
      BY DEF RequestsTo
    <3> HIDE DEF L
    <3>1. known' \in [Users -> SUBSET Requests]
      <4>1. known' = [known EXCEPT ![x.user] = L] \/ known' = known
        BY <2>1 DEF LoginReadsLists, L
      <4>2. QED
        BY <1>1, <3>0, <4>1 DEF RowTypes
    <3>2. overlapped' \subseteq Requests
      BY <1>1, <2>1 DEF LoginReadsLists, RequestsTo, RowTypes
    <3>3. QED
      BY <1>1, <2>1, <3>1, <3>2 DEF LoginReadsLists, server, mysql, RowTypes
  <2>2. CASE LoginSetsUserId(s) \/ LoginSetsUip(s) \/ LoginSetsSession(s) \/ LoginAnswers(s)
    BY <1>1, <2>2 DEF LoginSetsUserId, LoginSetsUip, LoginSetsSession, LoginAnswers,
                      server, mysql, screen, history, RowTypes
  <2>3. QED
    BY <2>1, <2>2 DEF LoginHandler
<1>3. ASSUME NEW x \in waiting[s], LoginReadsLists(s, x) PROVE RunInv'
  BY <1>1, <1>3 DEF LoginReadsLists, client, BaseInv, RunInv, RequestPlace, LoginPlace
<1>4. CASE LoginSetsUserId(s) \/ LoginSetsUip(s) \/ LoginSetsSession(s)
  <2>1. PICK to \in LoginPlace : logic' = [logic EXCEPT ![s].at = to]
    BY <1>4 DEF LoginSetsUserId, LoginSetsUip, LoginSetsSession, Goes, LoginPlace
  <2>2. logic[s].at \in LoginPlace /\ UNCHANGED <<phase, epoch, call>>
    BY <1>4 DEF LoginSetsUserId, LoginSetsUip, LoginSetsSession, Goes, LoginPlace, client
  <2>3. \A t \in Servers : /\ logic'[t].user = logic[t].user /\ logic'[t].req = logic[t].req
                           /\ logic'[t].at = IF t = s THEN to ELSE logic[t].at
    BY <1>1, <2>1 DEF Threads
  <2>4. /\ \A t \in Servers : logic'[t].at \in LoginPlace <=> logic[t].at \in LoginPlace
        /\ \A t \in Servers : logic'[t].at \in RequestPlace <=> logic[t].at \in RequestPlace
        /\ \A t \in Servers : logic'[t].at = "insert" => logic[t].at = "insert"
    BY <2>2, <2>3 DEF LoginPlace, RequestPlace
  <2>5. ASSUME NEW t \in Servers
        PROVE  /\ logic'[t].at \in RequestPlace => logic'[t].req \in Requests
               /\ logic'[t].at \notin RequestPlace => logic'[t].req = None
               /\ logic'[t].at \notin LoginPlace => logic'[t].user = None
               /\ logic'[t].at = "insert" => logic'[t].req \in Rows
    BY <2>3, <2>4 DEF BaseInv, RunInv
  <2>6. QED
    BY <1>2, <2>2, <2>5, TypesAfter DEF BaseInv, RunInv
<1>5. CASE LoginAnswers(s)
  <2>1. \A v \in Users : phase'[v] # "off" => phase[v] # "off"
    BY <1>1, <1>5 DEF LoginAnswers, Live, PlaceInv
  <2>2. /\ UNCHANGED <<epoch, call>>
        /\ \A t \in Servers : IF t = s THEN logic'[t] = Idle ELSE logic'[t] = logic[t]
    BY <1>1, <1>5 DEF LoginAnswers, Ends
  <2>3. \A v \in Users : phase'[v] # "off" => epoch'[v] >= 1
    BY <2>1, <2>2 DEF BaseInv, RunInv
  <2>4. ASSUME NEW t \in Servers
        PROVE  /\ logic'[t].at \in RequestPlace => logic'[t].req \in Requests
               /\ logic'[t].at \notin RequestPlace => logic'[t].req = None
               /\ logic'[t].at \notin LoginPlace => logic'[t].user = None
               /\ logic'[t].at = "insert" => logic'[t].req \in Rows
    BY <2>2 DEF Idle, BaseInv, RunInv, RequestPlace, LoginPlace
  <2>5. QED
    BY <1>2, <2>2, <2>3, <2>4, TypesAfter DEF BaseInv, RunInv
<1>6. QED
  BY <1>2, <1>3, <1>4, <1>5, TypesAfter DEF LoginHandler

LEMMA BaseRequest ==
  ASSUME BaseInv, [Next]_vars, NEW s \in Servers,
         \/ \E r \in Requests : RequestBegins(s, r)
         \/ RequestHandler(s) \/ RpcFails(s)
  PROVE  TypeOK' /\ RunInv'
<1> DEFINE q == logic[s].req
<1>1. PlaceInv /\ RowTypes /\ logic \in [Servers -> Threads] /\ call \in [Requests -> Calls]
  BY Types DEF BaseInv, PlaceInv, RowTypes
<1>2. ASSUME NEW r \in Requests, RequestBegins(s, r)
      PROVE  TypeOK' /\ RunInv'
  <2>1. epoch[From[r]] \in Nat
    BY <1>1, ChatRoutingAssumption DEF PlaceInv
  <2>2. Append(begun, [req |-> r, conn |-> epoch[From[r]]]) \in Seq([req : Requests, conn : Nat])
    BY <1>1, <2>1 DEF RowTypes
  <2>3. RowTypes'
    BY <1>1, <1>2, <2>2 DEF RequestBegins, server, mysql, screen, RowTypes
  <2>4. RunInv'
    BY <1>1, <1>2 DEF RequestBegins, client, BaseInv, RunInv, RequestPlace, LoginPlace
  <2>5. QED
    BY <2>3, <2>4, TypesAfter
<1>3. CASE InsertsRow(s)
  <2>1. q \in Rows /\ q \in Requests /\ To[q] \in Users
    BY <1>3, ChatRoutingAssumption DEF InsertsRow, Goes, BaseInv, RunInv
  <2>2. table' \subseteq Rows
    BY <1>1, <1>3, <2>1 DEF InsertsRow, mysql, RowTypes
  <2>3. applies' \in [Users -> Nat] /\ older' \in [Requests -> Nat]
    <3>1. applies \in [Users -> Nat] /\ older \in [Requests -> Nat]
      BY <1>1 DEF RowTypes
    <3>2. applies[To[q]] \in Nat /\ (IF q \in Applies THEN applies[To[q]] + 1 ELSE applies[To[q]]) \in Nat
      BY <2>1, <3>1
    <3>3. CASE UNCHANGED mysql
      BY <3>1, <3>3 DEF mysql
    <3>4. CASE /\ older' = [older EXCEPT ![q] = applies[To[q]]]
               /\ applies' = [applies EXCEPT ![To[q]] = IF q \in Applies THEN @ + 1 ELSE @]
      BY <2>1, <3>1, <3>2, <3>4
    <3>5. QED
      BY <1>3, <3>3, <3>4 DEF InsertsRow
  <2>4. RowTypes'
    BY <1>1, <1>3, <2>2, <2>3 DEF InsertsRow, screen, history, RowTypes
  <2>5. RunInv'
    BY <1>1, <1>3 DEF InsertsRow, Goes, client, BaseInv, RunInv, RequestPlace, LoginPlace, Threads
  <2>6. QED
    BY <2>4, <2>5, TypesAfter
<1>4. CASE RouteUnknown(s) \/ RouteFails(s) \/ RequestEnds(s) \/ RpcFails(s)
  <2>1. /\ q \in Requests /\ logic' = [logic EXCEPT ![s] = Idle]
        /\ UNCHANGED <<client, server, screen, begun, overlapped, disturbed, strayed>>
    BY <1>4 DEF RouteUnknown, RouteFails, RequestEnds, RpcFails, Ends, history, BaseInv, RunInv,
                RequestPlace
  <2>2. /\ failed' \in {failed, failed \union {q}}
        /\ call' \in {call, [call EXCEPT ![q].at = "done"]}
    BY <1>4 DEF RouteUnknown, RouteFails, RequestEnds, RpcFails, history
  <2>3. failed' \subseteq Requests
    BY <1>1, <2>1, <2>2 DEF RowTypes
  <2>4. call' \in [Requests -> Calls]
    <3>1. [call[q] EXCEPT !.at = "done"] \in Calls
      BY <1>1, <2>1 DEF Calls
    <3>2. QED
      BY <1>1, <2>2, <3>1
  <2>5. RowTypes'
    BY <1>1, <2>1, <2>3, <2>4 DEF server, mysql, screen, RowTypes
  <2>6. RunInv'
    <3>1. \A r \in Requests : call'[r].at \in {"called", "found"} => call'[r].server \in Servers
      BY <1>1, <2>2 DEF BaseInv, RunInv, Calls
    <3>2. QED
      BY <1>1, <2>1, <3>1 DEF Idle, client, BaseInv, RunInv, RequestPlace, LoginPlace
  <2>7. QED
    BY <2>5, <2>6, TypesAfter
<1>5. ASSUME NEW t \in Servers, RoutesTo(s, t)
      PROVE  TypeOK' /\ RunInv'
  <2> DEFINE k == [at |-> "called", server |-> t, conn |-> 0]
  <2>1. q \in Requests
    BY <1>5 DEF RoutesTo, Goes, BaseInv, RunInv, RequestPlace
  <2>2. call' = [call EXCEPT ![q] = k] /\ k \in Calls
    BY <1>5 DEF RoutesTo, Calls
  <2>3. call' \in [Requests -> Calls] /\ \A r \in Requests : call'[r] = k \/ call'[r] = call[r]
    BY <1>1, <2>2
  <2>4. strayed' \subseteq Requests
    BY <1>1, <1>5, <2>1 DEF RoutesTo, RowTypes
  <2>5. RowTypes'
    BY <1>1, <1>5, <2>3, <2>4 DEF RoutesTo, server, mysql, screen, RowTypes
  <2>6. RunInv'
    BY <1>1, <1>5, <2>3 DEF RoutesTo, Goes, client, BaseInv, RunInv, RequestPlace, LoginPlace,
                            Threads
  <2>7. QED
    BY <2>5, <2>6, TypesAfter
<1>6. QED
  BY <1>2, <1>3, <1>4, <1>5 DEF RequestHandler

LEMMA BaseNotifies ==
  ASSUME BaseInv, [Next]_vars, NEW r \in Requests, Notifies(r)
  PROVE  TypeOK' /\ RunInv'
<1>1. UNCHANGED <<client, server, logic, history>>
  BY DEF Notifies, Finds, Sends
<1>2. /\ PlaceInv /\ RowTypes /\ To[r] \in Users /\ call \in [Requests -> Calls]
      /\ delivered \in [Users -> Seq(Requests)]
  BY Types, ChatRoutingAssumption DEF BaseInv, RowTypes
<1>3. PICK k \in Calls : /\ call' = [call EXCEPT ![r] = k]
                        /\ k.server = call[r].server /\ call[r].at \in {"called", "found"}
  <2>1. CASE Sends(r)
    <3>1. [call[r] EXCEPT !.at = "done"] \in Calls
      BY <1>2 DEF Calls
    <3>2. QED
      BY <1>2, <2>1, <3>1 DEF Sends, Calls
  <2>2. CASE Finds(r)
    <3> DEFINE c == uid_to_session[call[r].server][To[r]]
               k == [call[r] EXCEPT !.at = IF c = 0 THEN "done" ELSE "found", !.conn = c]
    <3>1. call[r].at = "called" /\ call[r].server \in Servers
      BY <2>2 DEF Finds, BaseInv, RunInv
    <3>2. c \in Nat
      BY <1>2, <3>1 DEF PlaceInv
    <3>3. k \in Calls /\ k.server = call[r].server
      BY <1>2, <3>2 DEF Calls
    <3>4. call' = [call EXCEPT ![r] = k]
      BY <1>2, <2>2 DEF Finds
    <3>5. QED
      BY <3>1, <3>3, <3>4
  <2>3. QED
    BY <2>1, <2>2 DEF Notifies
<1>4. call' \in [Requests -> Calls] /\ \A q \in Requests : call'[q] = IF q = r THEN k ELSE call[q]
  BY <1>2, <1>3
<1>5. RunInv'
  BY <1>1, <1>3, <1>4 DEF client, BaseInv, RunInv
<1>6. known' \in [Users -> SUBSET Requests] /\ delivered' \in [Users -> Seq(Requests)]
  <2>1. \/ UNCHANGED <<known, delivered>>
        \/ /\ known' = [known EXCEPT ![To[r]] = @ \union {r}]
           /\ delivered' = [delivered EXCEPT ![To[r]] = Append(@, r)]
    BY DEF Notifies, Finds, Sends, screen
  <2>2. Append(delivered[To[r]], r) \in Seq(Requests) /\ known \in [Users -> SUBSET Requests]
    BY <1>2 DEF RowTypes
  <2>3. CASE UNCHANGED <<known, delivered>>
    BY <1>2, <2>2, <2>3
  <2>4. CASE /\ known' = [known EXCEPT ![To[r]] = @ \union {r}]
             /\ delivered' = [delivered EXCEPT ![To[r]] = Append(@, r)]
    <3>1. known[To[r]] \union {r} \in SUBSET Requests
      BY <1>2, <2>2
    <3>2. QED
      BY <1>2, <2>2, <2>4, <3>1
  <2>5. QED
    BY <2>1, <2>3, <2>4
<1>7. RowTypes'
  BY <1>1, <1>2, <1>4, <1>6 DEF server, mysql, history, RowTypes
<1>8. QED
  BY <1>5, <1>7, TypesAfter

LEMMA BaseNext == BaseInv /\ [Next]_vars => BaseInv'
<1> SUFFICES ASSUME BaseInv, [Next]_vars PROVE TypeOK' /\ RunInv'
  BY StepInv DEF BaseInv
<1>1. CASE UNCHANGED vars
  BY <1>1 DEF vars, client, server, mysql, queue, screen, history, BaseInv, TypeOK, RunInv
<1>2. CASE Next
  BY <1>2, BaseClient, BaseLogin, BaseRequest, BaseNotifies DEF Next
<1>3. QED
  BY <1>1, <1>2

LEMMA BaseInit == Init => BaseInv
<1> SUFFICES ASSUME Init PROVE TypeOK /\ RunInv
  BY InitInv DEF BaseInv
<1>1. RowTypes
  BY ChatRoutingAssumption DEF Init, RowTypes, NoCall, Calls
<1>2. TypeOK
  BY <1>1, InitInv, Types DEF IInv
<1>3. RunInv
  BY DEF Init, RunInv, RequestPlace, Idle, NoCall
<1>4. QED
  BY <1>2, <1>3

(* Every variable keeps its type. *)
THEOREM TypeCorrect == Spec => []TypeOK
BY BaseInit, BaseNext, PTL DEF Spec, BaseInv

-----------------------------------------------------------------------------
(* What the kinds of steps do to the requests.                             *)

ClientStep ==
    \/ \E u \in Users : Disconnect(u) \/ \E s \in Servers : Connect(u, s)
    \/ \E s \in Servers : \E x \in dying[s] : ClearSession(s, x)

(* A login is no request, before and after each of its steps. *)
LEMMA LoginEffect ==
  ASSUME BaseInv, NEW s \in Servers, LoginHandler(s)
  PROVE  /\ \A t \in Servers \ {s} : logic'[t] = logic[t]
         /\ logic[s].at \notin RequestPlace /\ logic'[s].at \notin RequestPlace
         /\ logic[s].req = None /\ logic'[s].req = None
         /\ UNCHANGED <<home, epoch, mysql, call, delivered, begun, disturbed, strayed, failed>>
         /\ UNCHANGED <<table, older>>
<1>1. logic \in [Servers -> Threads]
  BY DEF BaseInv, TypeOK, Threads, Places
<1>2. /\ UNCHANGED <<home, epoch, mysql, call, delivered, begun, disturbed, strayed, failed>>
      /\ UNCHANGED <<table, older>>
  BY DEF LoginHandler, LoginReadsLists, LoginSetsUserId, LoginSetsUip, LoginSetsSession,
         LoginAnswers, client, server, mysql, screen, history
<1>3. /\ \A t \in Servers \ {s} : logic'[t] = logic[t]
      /\ logic[s].at \notin RequestPlace /\ logic'[s].at \notin RequestPlace
      /\ logic'[s].req \in {logic[s].req, None}
  <2>1. CASE \E x \in waiting[s] : LoginReadsLists(s, x)
    BY <1>1, <2>1 DEF LoginReadsLists, Idle, RequestPlace
  <2>2. CASE LoginSetsUserId(s) \/ LoginSetsUip(s) \/ LoginSetsSession(s)
    BY <1>1, <2>2 DEF LoginSetsUserId, LoginSetsUip, LoginSetsSession, Goes, RequestPlace, Threads
  <2>3. CASE LoginAnswers(s)
    BY <1>1, <2>3 DEF LoginAnswers, Ends, Idle, RequestPlace
  <2>4. QED
    BY <2>1, <2>2, <2>3 DEF LoginHandler
<1>4. logic[s].req = None
  BY <1>3 DEF BaseInv, RunInv
<1>5. QED
  BY <1>2, <1>3, <1>4

(* The ends of a request. *)
EndOf(s) == RouteUnknown(s) \/ RouteFails(s) \/ RequestEnds(s) \/ RpcFails(s)

LEMMA EndEffect ==
  ASSUME BaseInv, NEW s \in Servers, EndOf(s)
  PROVE  /\ logic[s].req \in Requests /\ logic[s].at \in {"route", "wait"} /\ logic'[s] = Idle
         /\ \A t \in Servers \ {s} : logic'[t] = logic[t]
         /\ UNCHANGED <<home, phase, epoch, table, older, known, delivered, begun, overlapped,
                        disturbed, strayed>>
         /\ failed \subseteq failed'
         /\ \A r \in Requests :
               call'[r] = call[r] \/ (RpcFails(s) /\ r = logic[s].req /\ call'[r].at = "done")
         /\ logic[s].req \notin failed' =>
               \/ logic[s].at = "route" /\ uip[To[logic[s].req]] = None
               \/ logic[s].at = "wait" /\ call[logic[s].req].at = "done"
<1>1. logic \in [Servers -> Threads] /\ call \in [Requests -> Calls]
  BY DEF BaseInv, TypeOK, Threads, Places, Calls
<1>2. logic[s].at \in {"route", "wait"} /\ logic' = [logic EXCEPT ![s] = Idle]
  BY DEF EndOf, RouteUnknown, RouteFails, RequestEnds, RpcFails, Ends
<1>3. logic[s].req \in Requests
  BY <1>2 DEF BaseInv, RunInv, RequestPlace
<1>4. UNCHANGED <<home, phase, epoch, table, older, known, delivered, begun, overlapped,
                  disturbed, strayed>>
  BY DEF EndOf, RouteUnknown, RouteFails, RequestEnds, RpcFails, client, server, mysql, screen,
         history
<1>5. logic'[s] = Idle /\ \A t \in Servers \ {s} : logic'[t] = logic[t]
  BY <1>1, <1>2
<1>6. /\ failed' \in {failed, failed \union {logic[s].req}}
      /\ call' = call \/ (RpcFails(s) /\ call' = [call EXCEPT ![logic[s].req].at = "done"])
      /\ failed' = failed =>
            \/ logic[s].at = "route" /\ uip[To[logic[s].req]] = None
            \/ logic[s].at = "wait" /\ call[logic[s].req].at = "done"
            \/ logic[s].req \in failed
  <2>1. CASE RouteUnknown(s)
    BY <2>1 DEF RouteUnknown, Ends, history
  <2>2. CASE RequestEnds(s)
    BY <2>2 DEF RequestEnds, Ends, history
  <2>3. CASE RouteFails(s)
    BY <2>3 DEF RouteFails
  <2>4. CASE RpcFails(s)
    BY <2>4 DEF RpcFails
  <2>5. QED
    BY <2>1, <2>2, <2>3, <2>4 DEF EndOf
<1>7. ASSUME NEW r \in Requests
      PROVE  call'[r] = call[r] \/ (RpcFails(s) /\ r = logic[s].req /\ call'[r].at = "done")
  <2>1. CASE call' = call
    BY <2>1
  <2>2. CASE RpcFails(s) /\ call' = [call EXCEPT ![logic[s].req].at = "done"]
    <3>1. call'[logic[s].req] = [call[logic[s].req] EXCEPT !.at = "done"]
      BY <1>1, <1>3, <2>2
    <3>2. call[logic[s].req] \in Calls
      BY <1>1, <1>3
    <3>3. call'[logic[s].req].at = "done"
      BY <3>1, <3>2 DEF Calls
    <3>4. QED
      BY <1>1, <2>2, <3>3
  <2>3. QED
    BY <1>6, <2>1, <2>2
<1>8. QED
  BY <1>2, <1>3, <1>4, <1>5, <1>6, <1>7

LEMMA NotifyEffect ==
  ASSUME BaseInv, NEW r \in Requests, Notifies(r)
  PROVE  /\ UNCHANGED <<client, server, queue, logic, history>>
         /\ \A q \in Requests \ {r} : call'[q] = call[q]
         /\ call[r].at \in {"called", "found"} /\ call'[r].at \in {"found", "done"}
         /\ call'[r].at = "found" => UNCHANGED screen
<1>1. call \in [Requests -> Calls]
  BY DEF BaseInv, TypeOK, Calls
<1>2. CASE Finds(r)
  BY <1>1, <1>2 DEF Finds, Calls
<1>3. CASE Sends(r)
  BY <1>1, <1>3 DEF Sends, Calls
<1>4. QED
  BY <1>2, <1>3 DEF Notifies

LEMMA RouteEffect ==
  ASSUME BaseInv, NEW s \in Servers, NEW t \in Servers, RoutesTo(s, t)
  PROVE  /\ logic[s].req \in Requests /\ logic[s].at = "route" /\ logic'[s].at = "wait"
         /\ logic'[s].req = logic[s].req /\ logic'[s].user = logic[s].user
         /\ \A q \in Servers \ {s} : logic'[q] = logic[q]
         /\ call'[logic[s].req] = [at |-> "called", server |-> t, conn |-> 0]
         /\ \A q \in Requests \ {logic[s].req} : call'[q] = call[q]
         /\ uip[To[logic[s].req]] = t
         /\ UNCHANGED <<client, server, queue, screen, begun, overlapped, disturbed, failed>>
         /\ strayed \subseteq strayed'
         /\ phase[To[logic[s].req]] = "in" /\ To[logic[s].req] \in overtaken
               => logic[s].req \in strayed'
<1>1. logic \in [Servers -> Threads] /\ call \in [Requests -> Calls]
  BY DEF BaseInv, TypeOK, Threads, Places, Calls
<1>2. logic[s].req \in Requests
  BY DEF RoutesTo, Goes, BaseInv, RunInv, RequestPlace
<1>3. QED
  BY <1>1, <1>2 DEF RoutesTo, Goes, Threads

LEMMA InsertEffect ==
  ASSUME BaseInv, NEW s \in Servers, InsertsRow(s)
  PROVE  /\ logic[s].req \in Requests /\ logic[s].at = "insert" /\ logic'[s].at = "route"
         /\ logic'[s].req = logic[s].req /\ logic'[s].user = logic[s].user
         /\ \A q \in Servers \ {s} : logic'[q] = logic[q]
         /\ table' \in {table, table \union {logic[s].req}}
         /\ \A r \in Requests \ {logic[s].req} : older'[r] = older[r]
         /\ UNCHANGED <<client, uip, uid_to_session, queue, call, screen, history>>
<1>1. logic \in [Servers -> Threads]
  BY DEF BaseInv, TypeOK, Threads, Places
<1>2. logic[s].req \in Requests
  BY DEF InsertsRow, Goes, BaseInv, RunInv, RequestPlace
<1>3. older \in [Requests -> Nat]
  BY DEF BaseInv, TypeOK
<1>4. /\ table' \in {table, table \union {logic[s].req}}
      /\ \A r \in Requests \ {logic[s].req} : older'[r] = older[r]
  BY <1>2, <1>3 DEF InsertsRow, mysql
<1>5. QED
  BY <1>1, <1>2, <1>4 DEF InsertsRow, Goes, Threads

LEMMA BeginEffect ==
  ASSUME BaseInv, NEW s \in Servers, NEW r \in Requests, RequestBegins(s, r)
  PROVE  /\ logic[s] = Idle /\ logic'[s].at \in {"insert", "route"} /\ logic'[s].req = r
         /\ logic'[s].user = None /\ r \notin Begun
         /\ \A q \in Servers \ {s} : logic'[q] = logic[q]
         /\ home[From[r]] = s /\ phase[From[r]] = "in"
         /\ begun' = Append(begun, [req |-> r, conn |-> epoch[From[r]]])
         /\ UNCHANGED <<client, server, queue, call, screen, strayed, failed>>
<1>1. logic \in [Servers -> Threads]
  BY DEF BaseInv, TypeOK, Threads, Places
<1>2. r \notin Begun
  BY DEF RequestBegins, Begun
<1>3. QED
  BY <1>1, <1>2 DEF RequestBegins

(* The entry that a request adds to the end of begun. *)
LEMMA BegunAppend ==
  ASSUME BaseInv, NEW r \in Requests, NEW c,
         begun' = Append(begun, [req |-> r, conn |-> c])
  PROVE  /\ Len(begun) \in Nat /\ DOMAIN begun = 1..Len(begun)
         /\ DOMAIN begun' = 1..(Len(begun) + 1)
         /\ \A i \in DOMAIN begun : begun'[i] = begun[i] /\ i \in DOMAIN begun' /\ i < Len(begun) + 1
         /\ begun'[Len(begun) + 1] = [req |-> r, conn |-> c]
         /\ \A i \in DOMAIN begun' : i \in DOMAIN begun \/ i = Len(begun) + 1
         /\ Begun' = Begun \union {r}
<1>1. begun \in Seq([req : Requests, conn : Nat])
  BY DEF BaseInv, TypeOK
<1>2. /\ Len(begun) \in Nat /\ DOMAIN begun = 1..Len(begun)
      /\ DOMAIN begun' = 1..(Len(begun) + 1)
      /\ \A i \in 1..Len(begun) : begun'[i] = begun[i]
      /\ begun'[Len(begun) + 1] = [req |-> r, conn |-> c]
  BY <1>1
<1>3. \A i \in 1..(Len(begun) + 1) : i \in 1..Len(begun) \/ i = Len(begun) + 1
  BY <1>2
<1>4. \A i \in 1..Len(begun) : i \in 1..(Len(begun) + 1) /\ i < Len(begun) + 1
  BY <1>2
<1>5. Len(begun) + 1 \in 1..(Len(begun) + 1)
  BY <1>2
<1>6. Begun' = Begun \union {r}
  <2>1. \A x : x \in Begun' <=> \E i \in 1..(Len(begun) + 1) : x = begun'[i].req
    BY <1>2 DEF Begun
  <2>2. \A x : x \in Begun <=> \E i \in 1..Len(begun) : x = begun[i].req
    BY <1>2 DEF Begun
  <2>3. begun'[Len(begun) + 1].req = r
    BY <1>2
  <2>4. QED
    BY <1>2, <1>3, <1>4, <1>5, <2>1, <2>2, <2>3
<1>7. QED
  BY <1>2, <1>3, <1>4, <1>6

-----------------------------------------------------------------------------
(* A step that begins no request, writes no new row and starts no call. *)
LEMMA OnceFrame ==
  ASSUME BaseInv, RunInv', OnceInv, begun' = begun, table' \subseteq Begun,
         \A s \in Servers :
            \/ logic'[s].req = None
            \/ /\ logic'[s].req = logic[s].req
               /\ logic'[s].at = logic[s].at \/ (logic[s].at = "insert" /\ logic'[s].at = "route"),
         \A r \in Requests : call'[r].at = "none" <=> call[r].at = "none"
  PROVE  OnceInv'
<1>1. Begun' = Begun /\ None \notin Requests
  BY ChatRoutingAssumption DEF Begun
<1>2. \A s \in Servers : logic'[s].at \in RequestPlace => logic'[s].req \in Requests
  BY DEF RunInv
<1>3. ASSUME NEW s \in Servers
      PROVE  /\ logic'[s].at \in {"insert", "route"} => call'[logic'[s].req].at = "none"
             /\ logic'[s].at = "wait" => call'[logic'[s].req].at # "none"
  <2>1. SUFFICES ASSUME logic'[s].at \in RequestPlace
                 PROVE  /\ logic'[s].at \in {"insert", "route"} => call'[logic'[s].req].at = "none"
                        /\ logic'[s].at = "wait" => call'[logic'[s].req].at # "none"
    BY DEF RequestPlace
  <2>2. logic'[s].req \in Requests /\ logic'[s].req = logic[s].req
    BY <1>1, <1>2, <2>1
  <2>3. logic'[s].at = logic[s].at \/ (logic[s].at = "insert" /\ logic'[s].at = "route")
    BY <1>1, <2>2
  <2>4. QED
    BY <2>2, <2>3 DEF OnceInv
<1>4. QED
  BY <1>1, <1>3 DEF OnceInv

LEMMA OnceNext == BaseInv /\ BaseInv' /\ OnceInv /\ [Next]_vars => OnceInv'
<1> SUFFICES ASSUME BaseInv, BaseInv', OnceInv, [Next]_vars PROVE OnceInv'
  OBVIOUS
<1>a. RunInv' /\ None \notin Requests /\ table \subseteq Begun
  BY ChatRoutingAssumption DEF BaseInv, OnceInv
<1>1. CASE \/ UNCHANGED vars
           \/ ClientStep
  <2>1. UNCHANGED <<table, logic, call, begun>>
    BY <1>1 DEF vars, ClientStep, Disconnect, Connect, ClearSession, server, mysql, history
  <2>2. QED
    BY <1>a, <2>1, OnceFrame
<1>2. ASSUME NEW s \in Servers, LoginHandler(s) PROVE OnceInv'
  BY <1>a, <1>2, LoginEffect, OnceFrame
<1>3. ASSUME NEW r \in Requests, Notifies(r) PROVE OnceInv'
  <2>1. /\ UNCHANGED <<table, logic, begun>> /\ call[r].at # "none" /\ call'[r].at # "none"
        /\ \A q \in Requests \ {r} : call'[q] = call[q]
    BY <1>3, NotifyEffect DEF server, mysql, history
  <2>2. QED
    BY <1>a, <2>1, OnceFrame
<1>4. ASSUME NEW s \in Servers, EndOf(s) PROVE OnceInv'
  <2>1. /\ logic'[s] = Idle /\ \A t \in Servers \ {s} : logic'[t] = logic[t]
        /\ UNCHANGED <<table, begun>>
    BY <1>4, EndEffect
  <2>2. ASSUME NEW r \in Requests
        PROVE  call'[r].at = "none" <=> call[r].at = "none"
    <3>1. call'[r] = call[r] \/ (RpcFails(s) /\ r = logic[s].req /\ call'[r].at = "done")
      BY <1>4, EndEffect
    <3>2. RpcFails(s) /\ r = logic[s].req => call[r].at # "none"
      BY DEF RpcFails, Ends, OnceInv
    <3>3. QED
      BY <3>1, <3>2
  <2>3. Idle.req = None
    BY DEF Idle
  <2>4. QED
    BY <1>a, <2>1, <2>2, <2>3, OnceFrame
<1>5. ASSUME NEW s \in Servers, InsertsRow(s) PROVE OnceInv'
  <2>1. /\ logic[s].req \in Requests /\ logic[s].at = "insert" /\ logic'[s].at = "route"
        /\ logic'[s].req = logic[s].req /\ UNCHANGED <<call, begun>>
        /\ \A t \in Servers \ {s} : logic'[t] = logic[t]
        /\ table' \in {table, table \union {logic[s].req}}
    BY <1>5, InsertEffect DEF history
  <2>2. logic[s].req \in Begun
    BY <1>a, <2>1 DEF OnceInv
  <2>3. QED
    BY <1>a, <2>1, <2>2, OnceFrame
<1>6. ASSUME NEW s \in Servers, NEW t \in Servers, RoutesTo(s, t) PROVE OnceInv'
  <2> DEFINE q == logic[s].req
  <2>1. /\ q \in Requests /\ q # None /\ logic[s].at = "route" /\ logic'[s].at = "wait"
        /\ logic'[s].req = q /\ UNCHANGED <<table, begun>>
        /\ \A p \in Servers \ {s} : logic'[p] = logic[p]
        /\ call'[q].at = "called" /\ \A r \in Requests \ {q} : call'[r] = call[r]
    <3>1. /\ q \in Requests /\ logic[s].at = "route" /\ logic'[s].at = "wait"
          /\ logic'[s].req = q /\ UNCHANGED <<server, begun>>
          /\ \A p \in Servers \ {s} : logic'[p] = logic[p]
          /\ call'[q] = [at |-> "called", server |-> t, conn |-> 0]
          /\ \A r \in Requests \ {q} : call'[r] = call[r]
      BY <1>6, RouteEffect
    <3>2. QED
      BY <1>a, <3>1 DEF server, mysql
  <2>2. Begun' = Begun /\ q \in Begun
    BY <2>1 DEF Begun, OnceInv
  <2>3. ASSUME NEW p \in Servers \ {s}
        PROVE  /\ logic'[p].at \in {"insert", "route"} => call'[logic'[p].req].at = "none"
               /\ logic'[p].at = "wait" => call'[logic'[p].req].at # "none"
    <3>1. logic'[p] = logic[p] /\ logic[p].req # q
      BY <2>1 DEF OnceInv
    <3>2. logic[p].at \in RequestPlace => logic[p].req \in Requests \ {q}
      BY <3>1 DEF BaseInv, RunInv
    <3>3. QED
      BY <2>1, <3>1, <3>2 DEF OnceInv, RequestPlace
  <2>4. \A p \in Servers : logic'[p].req = logic[p].req
    BY <2>1
  <2>5. \A r \in Requests : call'[r].at # "none" => r \in Begun
    BY <2>1, <2>2 DEF OnceInv
  <2>6. QED
    BY <2>1, <2>2, <2>3, <2>4, <2>5 DEF OnceInv
<1>7. ASSUME NEW s \in Servers, NEW r \in Requests, RequestBegins(s, r) PROVE OnceInv'
  <2>1. /\ logic'[s].at \in {"insert", "route"} /\ logic'[s].req = r /\ r \notin Begun
        /\ \A q \in Servers \ {s} : logic'[q] = logic[q]
        /\ begun' = Append(begun, [req |-> r, conn |-> epoch[From[r]]])
        /\ UNCHANGED <<table, call>>
    BY <1>7, BeginEffect DEF server, mysql
  <2>2. /\ \A i \in DOMAIN begun : begun'[i] = begun[i]
        /\ begun'[Len(begun) + 1].req = r
        /\ \A i \in DOMAIN begun' : i \in DOMAIN begun \/ i = Len(begun) + 1
        /\ Begun' = Begun \union {r}
    BY <2>1, BegunAppend
  <2>3. \A i \in DOMAIN begun : begun[i].req # r
    BY <2>1 DEF Begun
  <2>4. \A i, j \in DOMAIN begun' : begun'[i].req = begun'[j].req => i = j
    BY <2>2, <2>3 DEF OnceInv
  <2>5. \A q \in Servers : logic[q].req # r
    BY <1>a, <2>1 DEF OnceInv
  <2>6. call[r].at = "none"
    BY <2>1 DEF OnceInv
  <2>7. \A q \in Servers : logic'[q].req # None => logic'[q].req \in Begun'
    BY <2>1, <2>2 DEF OnceInv
  <2>8. \A q, p \in Servers : logic'[q].req # None /\ logic'[q].req = logic'[p].req => q = p
    BY <2>1, <2>5 DEF OnceInv
  <2>9. \A q \in Servers :
           /\ logic'[q].at \in {"insert", "route"} => call'[logic'[q].req].at = "none"
           /\ logic'[q].at = "wait" => call'[logic'[q].req].at # "none"
    BY <2>1, <2>6 DEF OnceInv
  <2>10. QED
    BY <2>1, <2>2, <2>4, <2>7, <2>8, <2>9 DEF OnceInv
<1>8. QED
  BY <1>1, <1>2, <1>3, <1>4, <1>5, <1>6, <1>7 DEF Next, ClientStep, RequestHandler, EndOf

-----------------------------------------------------------------------------
(* A step that begins no request: a client keeps its connection, or loses  *)
(* it, or has a new one.                                                   *)
LEMMA ConnFrame ==
  ASSUME BaseInv, BaseInv', ConnInv, begun' = begun,
         \A s \in Servers : logic'[s].req \in {logic[s].req, None},
         \A u \in Users :
            \/ epoch'[u] = epoch[u] /\ phase'[u] = "off"
            \/ epoch'[u] = epoch[u] /\ home'[u] = home[u] /\ phase[u] # "off"
            \/ epoch'[u] = epoch[u] + 1
            \/ epoch'[u] = epoch[u] /\ home'[u] = home[u] /\ phase'[u] = phase[u]
  PROVE  ConnInv'
<1>1. \A u \in Users : epoch[u] \in Nat /\ epoch'[u] \in Nat
  BY DEF BaseInv, IInv, PlaceInv
<1>2. ASSUME NEW i \in DOMAIN begun
      PROVE  begun[i].req \in Requests /\ begun[i].conn \in Nat /\ From[begun[i].req] \in Users
  <2>1. begun \in Seq([req : Requests, conn : Nat])
    BY DEF BaseInv, TypeOK
  <2>2. ASSUME NEW S, begun \in Seq(S) PROVE begun[i] \in S
    BY <2>2
  <2>3. begun[i] \in [req : Requests, conn : Nat]
    BY <2>1, <2>2
  <2>4. QED
    BY <2>1, <2>3, ChatRoutingAssumption
<1>3. \A i \in DOMAIN begun : begun[i].conn <= epoch'[From[begun[i].req]]
  BY <1>1, <1>2 DEF ConnInv
<1>4. ASSUME NEW i \in DOMAIN begun, NEW s \in Servers, begun[i].req = logic'[s].req
      PROVE  begun[i].req = logic[s].req
  BY <1>2, <1>4, ChatRoutingAssumption
<1>5. ASSUME NEW i \in DOMAIN begun, NEW s \in Servers, begun[i].req = logic'[s].req,
             begun[i].conn = epoch'[From[begun[i].req]], phase'[From[begun[i].req]] # "off"
      PROVE  home'[From[begun[i].req]] = s
  <2> DEFINE u == From[begun[i].req]
  <2>1. begun[i].conn <= epoch[u] /\ u \in Users /\ begun[i].conn \in Nat
    BY <1>2 DEF ConnInv
  <2>2. epoch'[u] = epoch[u] /\ home'[u] = home[u] /\ phase[u] # "off"
    BY <1>1, <1>5, <2>1
  <2>3. QED
    BY <1>4, <1>5, <2>2 DEF ConnInv
<1>6. \A i \in DOMAIN begun : Running(begun[i].req)' => Running(begun[i].req)
  BY <1>4 DEF Running
<1>7. QED
  BY <1>3, <1>5, <1>6 DEF ConnInv, Running

LEMMA ConnNext ==
  BaseInv /\ BaseInv' /\ OnceInv /\ ConnInv /\ [Next]_vars => ConnInv'
<1> SUFFICES ASSUME BaseInv, BaseInv', OnceInv, ConnInv, [Next]_vars PROVE ConnInv'
  OBVIOUS
<1>a. /\ home \in [Users -> Servers \union {None}] /\ phase \in [Users -> {"off", "asked", "in"}]
      /\ epoch \in [Users -> Nat]
  BY DEF BaseInv, IInv, PlaceInv
<1>1. CASE ClientStep
  <2>1. logic' = logic /\ begun' = begun
    BY <1>1 DEF ClientStep, Disconnect, Connect, ClearSession, history
  <2>2. \/ \E u \in Users : /\ home' = [home EXCEPT ![u] = None]
                            /\ phase' = [phase EXCEPT ![u] = "off"] /\ epoch' = epoch
        \/ \E u \in Users, s \in Servers : /\ home' = [home EXCEPT ![u] = s]
                                          /\ phase' = [phase EXCEPT ![u] = "asked"]
                                          /\ epoch' = [epoch EXCEPT ![u] = @ + 1]
        \/ UNCHANGED <<home, phase, epoch>>
    BY <1>1 DEF ClientStep, Disconnect, Connect, ClearSession, client
  <2>3. ASSUME NEW v \in Users
        PROVE  \/ epoch'[v] = epoch[v] /\ phase'[v] = "off"
               \/ epoch'[v] = epoch[v] + 1
               \/ epoch'[v] = epoch[v] /\ home'[v] = home[v] /\ phase'[v] = phase[v]
    BY <1>a, <2>2
  <2>4. QED
    BY <2>1, <2>3, ConnFrame
<1>2. ASSUME NEW s \in Servers, LoginHandler(s) PROVE ConnInv'
  <2>1. \A t \in Servers : logic'[t].req = logic[t].req
    BY <1>2, LoginEffect
  <2>2. home' = home /\ epoch' = epoch /\ begun' = begun
    BY <1>2, LoginEffect
  <2>3. \A u \in Users : phase'[u] = phase[u] \/ phase[u] # "off"
    <3>1. CASE LoginAnswers(s)
      BY <1>a, <3>1 DEF LoginAnswers, Live
    <3>2. CASE ~LoginAnswers(s)
      BY <1>2, <3>2 DEF LoginHandler, LoginReadsLists, LoginSetsUserId, LoginSetsUip, LoginSetsSession, client
    <3>3. QED
      BY <3>1, <3>2
  <2>4. QED
    BY <2>1, <2>2, <2>3, ConnFrame
<1>3. ASSUME UNCHANGED <<home, phase, epoch, begun>>,
             \A s \in Servers : logic'[s].req \in {logic[s].req, None}
      PROVE  ConnInv'
  BY <1>3, ConnFrame
<1>4. CASE UNCHANGED vars \/ \E r \in Requests : Notifies(r)
  <2>1. UNCHANGED <<home, phase, epoch, begun, logic>>
    BY <1>4, NotifyEffect DEF vars, client, history
  <2>2. QED
    BY <1>3, <2>1
<1>5. ASSUME NEW s \in Servers, EndOf(s) PROVE ConnInv'
  <2>1. Idle.req = None
    BY DEF Idle
  <2>2. UNCHANGED <<home, phase, epoch, begun>>
    BY <1>5, EndEffect
  <2>3. \A t \in Servers : logic'[t].req \in {logic[t].req, None}
    BY <1>5, <2>1, EndEffect
  <2>4. QED
    BY <1>3, <2>2, <2>3
<1>6. ASSUME NEW s \in Servers, InsertsRow(s) \/ \E t \in Servers : RoutesTo(s, t)
      PROVE  ConnInv'
  <2>1. UNCHANGED <<home, phase, epoch, begun>>
    BY <1>6 DEF InsertsRow, RoutesTo, client, history
  <2>2. \A t \in Servers : logic'[t].req = logic[t].req
    BY <1>6, InsertEffect, RouteEffect
  <2>3. QED
    BY <1>3, <2>1, <2>2
<1>7. ASSUME NEW s \in Servers, NEW r \in Requests, RequestBegins(s, r) PROVE ConnInv'
  <2> DEFINE u == From[r]  n == Len(begun) + 1
  <2>1. /\ logic'[s].req = r /\ r \notin Begun /\ home[u] = s /\ phase[u] = "in"
        /\ \A q \in Servers \ {s} : logic'[q] = logic[q]
        /\ begun' = Append(begun, [req |-> r, conn |-> epoch[u]])
        /\ UNCHANGED <<home, phase, epoch>>
    BY <1>7, BeginEffect DEF client
  <2>2. /\ DOMAIN begun = 1..Len(begun) /\ Len(begun) \in Nat
        /\ \A i \in DOMAIN begun : begun'[i] = begun[i] /\ i < n
        /\ begun'[n].req = r /\ begun'[n].conn = epoch[u]
        /\ \A i \in DOMAIN begun' : i \in DOMAIN begun \/ i = n
    BY <2>1, BegunAppend
  <2>3. \A i \in DOMAIN begun : begun[i].req # r
    BY <2>1 DEF Begun
  <2>4. \A q \in Servers : logic[q].req # r
    BY <2>1, ChatRoutingAssumption DEF OnceInv
  <2>5. u \in Users /\ epoch[u] \in Nat
    BY <1>a, ChatRoutingAssumption
  <2>6. ASSUME NEW i \in DOMAIN begun'
        PROVE  begun'[i].conn <= epoch'[From[begun'[i].req]]
    BY <2>1, <2>2, <2>5, <2>6 DEF ConnInv
  <2>7. ASSUME NEW i \in DOMAIN begun', NEW q \in Servers, begun'[i].req = logic'[q].req,
               begun'[i].conn = epoch'[From[begun'[i].req]], phase'[From[begun'[i].req]] # "off"
        PROVE  home'[From[begun'[i].req]] = q
    <3>1. CASE i = n
      BY <2>1, <2>2, <2>4, <2>7, <3>1
    <3>2. CASE i \in DOMAIN begun
      <4>1. q # s /\ logic'[q] = logic[q] /\ begun'[i] = begun[i]
        BY <2>1, <2>2, <2>3, <2>7, <3>2
      <4>2. QED
        BY <2>1, <2>7, <3>2, <4>1 DEF ConnInv
    <3>3. QED
      BY <2>2, <3>1, <3>2
  <2>8. ASSUME NEW i \in DOMAIN begun', NEW j \in DOMAIN begun', i < j,
               From[begun'[i].req] = From[begun'[j].req], begun'[i].conn = begun'[j].conn,
               NEW q \in Servers, logic'[q].req = begun'[i].req
        PROVE  FALSE
    <3>1. i \in DOMAIN begun
      BY <2>2, <2>8
    <3>2. q # s /\ logic'[q] = logic[q] /\ begun'[i] = begun[i]
      BY <2>1, <2>2, <2>3, <2>8, <3>1
    <3>3. CASE j = n
      <4>1. begun[i].req = logic[q].req /\ begun[i].conn = epoch[From[begun[i].req]]
            /\ From[begun[i].req] = u
        BY <2>2, <2>8, <3>2, <3>3
      <4>2. home[u] = q
        BY <2>1, <3>1, <4>1 DEF ConnInv
      <4>3. QED
        BY <2>1, <3>2, <4>2
    <3>4. CASE j \in DOMAIN begun
      <4>1. begun'[j] = begun[j]
        BY <2>2, <3>4
      <4>2. ~Running(begun[i].req)
        BY <2>8, <3>1, <3>2, <3>4, <4>1 DEF ConnInv
      <4>3. QED
        BY <2>8, <3>2, <4>2 DEF Running
    <3>5. QED
      BY <2>2, <3>3, <3>4
  <2>9. QED
    BY <2>6, <2>7, <2>8 DEF ConnInv, Running
<1>8. QED
  BY <1>1, <1>2, <1>4, <1>5, <1>6, <1>7 DEF Next, ClientStep, RequestHandler, EndOf

-----------------------------------------------------------------------------
(* What ends is one request; it has been looked for, or something failed.  *)
LEMMA HandledAfter ==
  ASSUME BaseInv, BaseInv', [Next]_vars, NEW r \in Requests, Handled(r)'
  PROVE  Handled(r) \/ \E s \in Servers : EndOf(s) /\ r = logic[s].req
<1>a. Handled(r) <=> ~Running(r) /\ r \in Begun
  BY DEF Handled, Begun
<1>b. Handled(r)' <=> ~Running(r)' /\ r \in Begun'
  BY DEF Handled, Begun
<1>1. CASE \E s \in Servers : EndOf(s)
  <2>1. PICK s \in Servers : EndOf(s)
    BY <1>1
  <2>2. begun' = begun /\ \A t \in Servers \ {s} : logic'[t] = logic[t]
    BY <2>1, EndEffect
  <2>3. r \in Begun
    BY <1>b, <2>2 DEF Begun
  <2>4. Running(r) => logic[s].req = r
    BY <1>b, <2>2 DEF Running
  <2>5. QED
    BY <1>a, <2>1, <2>3, <2>4
<1>2. CASE \E s \in Servers, q \in Requests : RequestBegins(s, q)
  <2>1. PICK s \in Servers, q \in Requests : RequestBegins(s, q)
    BY <1>2
  <2>2. /\ logic[s] = Idle /\ logic'[s].req = q
        /\ \A t \in Servers \ {s} : logic'[t] = logic[t]
        /\ Begun' = Begun \union {q}
    <3>1. begun' = Append(begun, [req |-> q, conn |-> epoch[From[q]]])
      BY <2>1, BeginEffect
    <3>2. Begun' = Begun \union {q}
      BY <3>1, BegunAppend
    <3>3. QED
      BY <2>1, <3>2, BeginEffect
  <2>3. r # q
    BY <1>b, <2>2 DEF Running
  <2>4. ~Running(r)
    <3>1. logic[s].req = None
      BY <2>2 DEF Idle
    <3>2. QED
      BY <1>b, <2>2, <3>1, ChatRoutingAssumption DEF Running
  <2>5. QED
    BY <1>a, <1>b, <2>2, <2>3, <2>4
<1>3. CASE begun' = begun /\ \A s \in Servers : logic'[s].req = logic[s].req
  BY <1>3, <1>a, <1>b DEF Running, Begun
<1>4. ASSUME NEW s \in Servers, LoginHandler(s) \/ InsertsRow(s) \/ \E t \in Servers : RoutesTo(s, t)
      PROVE  begun' = begun /\ \A q \in Servers : logic'[q].req = logic[q].req
  <2>1. CASE LoginHandler(s)
    BY <2>1, LoginEffect
  <2>2. CASE InsertsRow(s) \/ \E t \in Servers : RoutesTo(s, t)
    BY <2>2, InsertEffect, RouteEffect DEF history
  <2>3. QED
    BY <1>4, <2>1, <2>2
<1>5. CASE \/ UNCHANGED vars \/ \E q \in Requests : Notifies(q)
           \/ ClientStep
  <2>1. UNCHANGED <<logic, begun>>
    BY <1>5, NotifyEffect DEF vars, ClientStep, Disconnect, Connect, ClearSession, history
  <2>2. QED
    BY <1>3, <2>1
<1>6. QED
  BY <1>1, <1>2, <1>3, <1>4, <1>5 DEF Next, ClientStep, RequestHandler, EndOf

(* An undisturbed request that ends has found its recipient's server. *)
LEMMA EndFinds ==
  ASSUME BaseInv, SteadyInv, NEW s \in Servers, EndOf(s),
         logic[s].req \notin disturbed \union strayed, logic[s].req \notin failed'
  PROVE  /\ call[logic[s].req].at = "done" /\ Finding(logic[s].req)
         /\ logic[s].req \in Shown(To[logic[s].req]) /\ logic[s].req \in known[To[logic[s].req]]
<1> DEFINE q == logic[s].req
<1>1. q \in Requests /\ q # None /\ To[q] \in Users
  BY EndEffect, ChatRoutingAssumption
<1>2. Finding(q)
  BY <1>1 DEF SteadyInv, Running
<1>3. uip[To[q]] # None
  <2>1. phase[To[q]] = "in"
    BY <1>2 DEF Finding
  <2>2. uip[To[q]] \in Servers
    BY <1>1, <2>1 DEF BaseInv, IInv, RoutedHome, Connected, OvertakenInv
  <2>3. QED
    BY <2>2, ChatRoutingAssumption
<1>4. call[q].at = "done"
  BY <1>3, EndEffect
<1>5. QED
  BY <1>2, <1>4 DEF Finding

-----------------------------------------------------------------------------
(* The order of notifications.                                             *)
LEMMA SendEffect ==
  ASSUME BaseInv, NEW r \in Requests, Sends(r)
  PROVE  /\ call[r].at = "found" /\ call'[r].at = "done"
         /\ UNCHANGED <<client, server, queue, logic, history>>
         /\ \/ ~Shows(r) /\ UNCHANGED screen
            \/ /\ Shows(r) /\ delivered' = [delivered EXCEPT ![To[r]] = Append(@, r)]
               /\ \A u \in Users : Shown(u)' = Shown(u) \union (IF u = To[r] THEN {r} ELSE {})
               /\ \A u \in Users : known'[u] = known[u] \union (IF u = To[r] THEN {r} ELSE {})
<1>1. call \in [Requests -> Calls] /\ call[r] \in Calls
  BY DEF BaseInv, TypeOK, Calls
<1>2. call[r].at = "found" /\ call'[r].at = "done"
  BY <1>1 DEF Sends, Calls
<1>3. UNCHANGED <<client, server, queue, logic, history>>
  BY DEF Sends
<1>4. CASE ~Shows(r)
  BY <1>2, <1>3, <1>4 DEF Sends
<1>5. CASE Shows(r)
  <2>1. /\ known' = [known EXCEPT ![To[r]] = @ \union {r}]
        /\ delivered' = [delivered EXCEPT ![To[r]] = Append(@, r)]
    BY <1>5 DEF Sends
  <2>2. /\ known \in [Users -> SUBSET Requests] /\ delivered \in [Users -> Seq(Requests)]
        /\ To[r] \in Users
    BY ChatRoutingAssumption DEF BaseInv, TypeOK
  <2>3. \A u \in Users : known'[u] = known[u] \union (IF u = To[r] THEN {r} ELSE {})
    BY <2>1, <2>2
  <2>4. ASSUME NEW u \in Users, u # To[r]
        PROVE  Shown(u)' = Shown(u)
    BY <2>1, <2>2, <2>4 DEF Shown
  <2>5. Shown(To[r])' = Shown(To[r]) \union {r}
    <3> DEFINE d == delivered[To[r]]
    <3>1. delivered'[To[r]] = Append(d, r) /\ d \in Seq(Requests)
      BY <2>1, <2>2
    <3>2. /\ Len(d) \in Nat /\ DOMAIN d = 1..Len(d) /\ DOMAIN Append(d, r) = 1..(Len(d) + 1)
          /\ \A i \in 1..Len(d) : Append(d, r)[i] = d[i]
          /\ Append(d, r)[Len(d) + 1] = r
      BY <3>1
    <3>3. \A i \in 1..(Len(d) + 1) : i \in 1..Len(d) \/ i = Len(d) + 1
      BY <3>2
    <3>4. \A i \in 1..Len(d) : i \in 1..(Len(d) + 1)
      BY <3>2
    <3>5. Len(d) + 1 \in 1..(Len(d) + 1)
      BY <3>2
    <3>6. \A x : x \in Shown(To[r])' <=> \E i \in 1..(Len(d) + 1) : x = Append(d, r)[i]
      BY <3>1, <3>2 DEF Shown
    <3>7. \A x : x \in Shown(To[r]) <=> \E i \in 1..Len(d) : x = d[i]
      BY <3>2 DEF Shown
    <3> HIDE DEF d
    <3>8. \A x : x \in Shown(To[r])' <=> x \in Shown(To[r]) \/ x = r
      BY <3>2, <3>3, <3>4, <3>5, <3>6, <3>7
    <3>9. QED
      BY <3>8
  <2>6. QED
    BY <1>2, <1>3, <1>5, <2>1, <2>3, <2>4, <2>5
<1>6. QED
  BY <1>4, <1>5

LEMMA OrderStep ==
  ASSUME BaseInv, BaseInv', OnceInv, OrderInv, [Next]_vars, delivered' = delivered,
         NotifiedInOrder',
         \A r \in Requests : call[r].at = "done" => call'[r].at = "done",
         \A r \in Requests : Handled(r)' /\ Handled(r) /\ r \notin failed =>
             call'[r].at \in {"none", "done"},
         failed \subseteq failed',
         \A s \in Servers : EndOf(s) /\ logic[s].req \notin failed' =>
             call'[logic[s].req].at \in {"none", "done"}
  PROVE  OrderInv'
<1>1. ASSUME NEW r \in Requests, Handled(r)', r \notin failed'
      PROVE  call'[r].at \in {"none", "done"}
  <2>1. CASE Handled(r)
    BY <1>1, <2>1
  <2>2. CASE \E s \in Servers : EndOf(s) /\ r = logic[s].req
    BY <1>1, <2>2
  <2>3. QED
    BY <1>1, <2>1, <2>2, HandledAfter
<1>2. \A u \in Users : Shown(u) \subseteq Requests
  <2>1. ASSUME NEW u \in Users, NEW i \in DOMAIN delivered[u]
        PROVE  delivered[u][i] \in Requests
    <3>1. delivered[u] \in Seq(Requests)
      BY DEF BaseInv, TypeOK
    <3>2. QED
      BY <2>1, <3>1
  <2>2. QED
    BY <2>1 DEF Shown
<1>3. \A u \in Users : \A r \in Shown(u)' : call'[r].at = "done"
  BY <1>2 DEF OrderInv, Shown
<1>4. QED
  BY <1>1, <1>3 DEF OrderInv

LEMMA OrderNext ==
  BaseInv /\ BaseInv' /\ OnceInv /\ ConnInv /\ OrderInv /\ [Next]_vars => OrderInv'
<1> SUFFICES ASSUME BaseInv, BaseInv', OnceInv, ConnInv, OrderInv, [Next]_vars PROVE OrderInv'
  OBVIOUS
<1>1. ASSUME begun' = begun, delivered' = delivered, failed \subseteq failed'
      PROVE  NotifiedInOrder'
  BY <1>1 DEF OrderInv, NotifiedInOrder, BeganBefore
<1>2. ASSUME UNCHANGED <<begun, delivered, call, failed>>, \A s \in Servers : ~EndOf(s)
      PROVE  OrderInv'
  BY <1>1, <1>2, OrderStep DEF OrderInv
<1>3. CASE UNCHANGED vars
  <2>1. UNCHANGED <<begun, delivered, call, failed, logic>>
    BY <1>3 DEF vars, screen, history
  <2>2. QED
    BY <2>1 DEF OrderInv, NotifiedInOrder, BeganBefore, Shown, Handled, Running
<1>4. ASSUME UNCHANGED <<begun, delivered, call, failed>>,
             \A s \in Servers : logic'[s].req = logic[s].req
      PROVE  OrderInv'
  BY <1>4 DEF OrderInv, NotifiedInOrder, BeganBefore, Shown, Handled, Running
<1>5. CASE ClientStep
  <2>1. UNCHANGED <<begun, delivered, call, failed, logic>>
    BY <1>5 DEF ClientStep, Disconnect, Connect, ClearSession, screen, history
  <2>2. QED
    BY <1>4, <2>1
<1>6. ASSUME NEW s \in Servers, LoginHandler(s) PROVE OrderInv'
  BY <1>4, <1>6, LoginEffect
<1>7. ASSUME NEW s \in Servers, InsertsRow(s) PROVE OrderInv'
  BY <1>4, <1>7, InsertEffect DEF screen, history
<1>8. ASSUME NEW s \in Servers, EndOf(s) PROVE OrderInv'
  <2>1. /\ UNCHANGED <<begun, delivered>> /\ failed \subseteq failed'
        /\ \A t \in Servers \ {s} : logic'[t] = logic[t]
        /\ logic'[s] = Idle /\ logic[s].req \in Requests
    BY <1>8, EndEffect
  <2>2. \A r \in Requests : call'[r] = call[r] \/ call'[r].at = "done"
    BY <1>8, EndEffect
  <2>3. ASSUME logic[s].req \notin failed'
        PROVE  call'[logic[s].req].at \in {"none", "done"}
    <3>1. call[logic[s].req].at \in {"none", "done"}
      BY <1>8, <2>3, EndEffect DEF OnceInv
    <3>2. QED
      BY <2>1, <2>2, <3>1
  <2>4. ASSUME NEW t \in Servers, EndOf(t)
        PROVE  t = s
    <3>1. logic'[t] = Idle /\ logic[t].at # "idle"
      BY <2>4, EndEffect
    <3>2. QED
      BY <2>1, <3>1 DEF Idle
  <2>5. NotifiedInOrder'
    BY <1>1, <2>1
  <2>6. \A r \in Requests : Handled(r)' /\ Handled(r) /\ r \notin failed =>
             call'[r].at \in {"none", "done"}
    BY <2>2 DEF OrderInv
  <2>7. QED
    BY <2>1, <2>2, <2>3, <2>4, <2>5, <2>6, OrderStep
<1>9. ASSUME NEW s \in Servers, NEW t \in Servers, RoutesTo(s, t) PROVE OrderInv'
  <2> DEFINE q == logic[s].req
  <2>1. /\ q \in Requests /\ logic'[s].req = q /\ logic[s].at = "route"
        /\ \A p \in Servers \ {s} : logic'[p] = logic[p]
        /\ \A r \in Requests \ {q} : call'[r] = call[r]
        /\ UNCHANGED <<begun, delivered, failed>>
    BY <1>9, RouteEffect DEF screen, history
  <2>2. call[q].at = "none" /\ Running(q)'
    BY <2>1 DEF OnceInv, Running
  <2>3. \A p \in Servers : ~EndOf(p)
    <3>1. SUFFICES ASSUME NEW p \in Servers, EndOf(p) PROVE FALSE
      OBVIOUS
    <3>2. logic'[p] = Idle /\ logic[p].at # "idle" /\ logic[p].req \in Requests
      BY <3>1, EndEffect
    <3>3. Idle.at = "idle" /\ Idle.req = None
      BY DEF Idle
    <3>4. QED
      BY <2>1, <3>2, <3>3, ChatRoutingAssumption
  <2>4. NotifiedInOrder'
    BY <1>1, <2>1
  <2>5. \A r \in Requests : call[r].at = "done" => call'[r].at = "done"
    BY <2>1, <2>2
  <2>6. \A r \in Requests : Handled(r)' /\ Handled(r) /\ r \notin failed =>
             call'[r].at \in {"none", "done"}
    BY <2>1, <2>2 DEF OrderInv, Handled
  <2>7. QED
    BY <2>1, <2>3, <2>4, <2>5, <2>6, OrderStep
<1>10. ASSUME NEW r \in Requests, Notifies(r) PROVE OrderInv'
  <2>1. /\ UNCHANGED <<begun, failed, logic>>
        /\ \A q \in Requests \ {r} : call'[q] = call[q]
        /\ call[r].at \in {"called", "found"} /\ call'[r].at \in {"found", "done"}
    BY <1>10, NotifyEffect DEF history
  <2>2. ~Handled(r) \/ r \in failed
    BY <2>1 DEF OrderInv
  <2>3. ASSUME NEW q \in Requests, Handled(q)', q \notin failed'
        PROVE  call'[q].at \in {"none", "done"}
    <3>1. Handled(q) /\ q \notin failed
      BY <2>1, <2>3 DEF Handled, Running
    <3>2. QED
      BY <2>1, <2>2, <3>1 DEF OrderInv
  <2>4. ASSUME NEW u \in Users, NEW q \in Shown(u), q \in Requests
        PROVE  call'[q].at = "done" /\ q # r
    BY <2>1, <2>4 DEF OrderInv
  <2>5. ASSUME NEW u \in Users PROVE Shown(u) \subseteq Requests
    <3>1. delivered[u] \in Seq(Requests)
      BY DEF BaseInv, TypeOK
    <3>2. \A i \in DOMAIN delivered[u] : delivered[u][i] \in Requests
      BY <3>1
    <3>3. QED
      BY <3>2 DEF Shown
  <2>6. CASE delivered' = delivered
    <3>1. NotifiedInOrder'
      BY <1>1, <2>1, <2>6
    <3>2. \A u \in Users : \A q \in Shown(u)' : call'[q].at = "done"
      BY <2>4, <2>5, <2>6 DEF Shown
    <3>3. QED
      BY <2>3, <3>1, <3>2 DEF OrderInv
  <2>7. CASE delivered' # delivered
    <3>1. Sends(r)
      BY <1>10, <2>7 DEF Notifies, Finds, screen
    <3> DEFINE u == To[r]  d == delivered[u]
    <3>2. /\ delivered' = [delivered EXCEPT ![u] = Append(@, r)] /\ call'[r].at = "done"
          /\ \A v \in Users : Shown(v)' = Shown(v) \union (IF v = u THEN {r} ELSE {})
      BY <2>7, <3>1, SendEffect DEF screen
    <3>3. u \in Users /\ d \in Seq(Requests) /\ delivered \in [Users -> Seq(Requests)]
      BY ChatRoutingAssumption DEF BaseInv, TypeOK
    <3>4. \A v \in Users : \A q \in Shown(v)' : call'[q].at = "done"
      BY <2>4, <2>5, <3>2
    <3>5. ASSUME NEW q \in Shown(u), From[q] = From[r], r \notin failed
          PROVE  ~BeganBefore(r, q)
      <4>1. SUFFICES ASSUME BeganBefore(r, q) PROVE FALSE
        OBVIOUS
      <4>2. PICK i \in DOMAIN begun, j \in DOMAIN begun :
               i < j /\ begun[i].req = r /\ begun[j].req = q /\ begun[i].conn = begun[j].conn
        BY <4>1 DEF BeganBefore
      <4>3. ~Running(r)
        BY <3>5, <4>2 DEF ConnInv
      <4>4. Handled(r)
        BY <4>2, <4>3 DEF Handled
      <4>5. QED
        BY <2>2, <3>5, <4>4
    <3>6. \A p, q : BeganBefore(p, q)' <=> BeganBefore(p, q)
      BY <2>1 DEF BeganBefore
    <3>7. /\ delivered'[u] = Append(d, r) /\ Len(d) \in Nat /\ DOMAIN d = 1..Len(d)
          /\ DOMAIN delivered'[u] = 1..(Len(d) + 1)
          /\ \A i \in 1..Len(d) : delivered'[u][i] = d[i]
          /\ delivered'[u][Len(d) + 1] = r
      BY <3>2, <3>3
    <3> HIDE DEF d
    <3>8. ASSUME NEW v \in Users, NEW i \in DOMAIN delivered'[v], NEW j \in DOMAIN delivered'[v],
                 i < j, NEW q, NEW p, q = delivered'[v][i], p = delivered'[v][j]
          PROVE  q # p /\ (From[q] = From[p] /\ p \notin failed => ~BeganBefore(p, q))
      <4>1. ASSUME i \in DOMAIN delivered[v], j \in DOMAIN delivered[v],
                   q = delivered[v][i], p = delivered[v][j]
            PROVE  q # p /\ (From[q] = From[p] /\ p \notin failed => ~BeganBefore(p, q))
        BY <3>8, <4>1 DEF OrderInv, NotifiedInOrder
      <4>2. CASE v # u
        <5>1. delivered'[v] = delivered[v]
          BY <3>2, <3>3, <4>2
        <5>2. QED
          BY <3>8, <4>1, <5>1
      <4>3. CASE v = u /\ j # Len(d) + 1
        <5>1. i \in DOMAIN d /\ j \in DOMAIN d
          BY <3>7, <3>8, <4>3
        <5>2. q = d[i] /\ p = d[j]
          BY <3>7, <3>8, <4>3, <5>1
        <5>3. QED
          BY <4>1, <4>3, <5>1, <5>2 DEF d
      <4>4. CASE v = u /\ j = Len(d) + 1
        <5>1. i \in DOMAIN d /\ q = d[i] /\ p = r
          BY <3>7, <3>8, <4>4
        <5>2. q \in Shown(u)
          BY <5>1 DEF Shown, d
        <5>3. q # r
          BY <2>4, <2>5, <3>3, <5>2
        <5>4. QED
          BY <3>5, <5>1, <5>2, <5>3
      <4>5. QED
        BY <4>2, <4>3, <4>4
    <3>9. NotifiedInOrder'
      BY <2>1, <3>8 DEF NotifiedInOrder, BeganBefore
    <3>10. QED
      BY <2>3, <3>4, <3>9 DEF OrderInv
  <2>8. QED
    BY <2>6, <2>7
<1>11. ASSUME NEW s \in Servers, NEW r \in Requests, RequestBegins(s, r) PROVE OrderInv'
  <2>1. /\ logic'[s].req = r /\ r \notin Begun /\ logic[s] = Idle
        /\ \A q \in Servers \ {s} : logic'[q] = logic[q]
        /\ begun' = Append(begun, [req |-> r, conn |-> epoch[From[r]]])
        /\ UNCHANGED <<call, delivered, failed>>
    BY <1>11, BeginEffect DEF screen
  <2>2. /\ \A i \in DOMAIN begun : begun'[i] = begun[i] /\ i < Len(begun) + 1
        /\ begun'[Len(begun) + 1].req = r /\ Len(begun) \in Nat
        /\ \A i \in DOMAIN begun' : i \in DOMAIN begun \/ i = Len(begun) + 1
        /\ DOMAIN begun = 1..Len(begun)
    BY <2>1, BegunAppend
  <2>3. ASSUME NEW p, NEW q, q # r, BeganBefore(p, q)'
        PROVE  BeganBefore(p, q)
    <3>1. PICK i \in DOMAIN begun', j \in DOMAIN begun' :
             i < j /\ begun'[i].req = p /\ begun'[j].req = q /\ begun'[i].conn = begun'[j].conn
      BY <2>3 DEF BeganBefore
    <3>2. j \in DOMAIN begun
      BY <2>2, <2>3, <3>1
    <3>3. i \in DOMAIN begun
      BY <2>2, <3>1, <3>2
    <3>4. QED
      BY <2>2, <3>1, <3>2, <3>3 DEF BeganBefore
  <2>4. ASSUME NEW u \in Users, NEW i \in DOMAIN delivered[u]
        PROVE  delivered[u][i] # r
    <3>1. delivered[u] \in Seq(Requests)
      BY DEF BaseInv, TypeOK
    <3>2. delivered[u][i] \in Requests /\ call[delivered[u][i]].at = "done"
      BY <2>4, <3>1 DEF OrderInv, Shown
    <3>3. QED
      BY <2>1, <3>2 DEF OnceInv
  <2>5. NotifiedInOrder'
    BY <2>1, <2>3, <2>4 DEF OrderInv, NotifiedInOrder
  <2>6. \A p \in Servers : ~EndOf(p)
    <3>1. SUFFICES ASSUME NEW p \in Servers, EndOf(p) PROVE FALSE
      OBVIOUS
    <3>2. logic'[p] = Idle /\ logic[p].at # "idle"
      BY <3>1, EndEffect
    <3>3. Idle.at = "idle" /\ Idle.req = None
      BY DEF Idle
    <3>4. QED
      BY <2>1, <3>2, <3>3
  <2>7. QED
    BY <2>1, <2>5, <2>6, OrderStep DEF OrderInv
<1>12. QED
  BY <1>3, <1>5, <1>6, <1>7, <1>8, <1>9, <1>10, <1>11 DEF Next, ClientStep, RequestHandler, EndOf

-----------------------------------------------------------------------------
(* Recipients who stay are found.                                          *)
LEMMA Grows ==
  ASSUME BaseInv, [Next]_vars
  PROVE  /\ disturbed \subseteq disturbed' /\ failed \subseteq failed'
         /\ overlapped \subseteq overlapped' /\ strayed \subseteq strayed'
         /\ \A u \in Users : Shown(u) \subseteq Shown(u)'
<1>1. ASSUME NEW r \in Requests, Notifies(r)
      PROVE  \A u \in Users : Shown(u) \subseteq Shown(u)'
  <2>1. CASE delivered' = delivered
    BY <2>1 DEF Shown
  <2>2. CASE delivered' # delivered
    BY <1>1, <2>2, SendEffect DEF Notifies, Finds, screen
  <2>3. QED
    BY <2>1, <2>2
<1>2. CASE \E s \in Servers : EndOf(s)
  BY <1>2, EndEffect DEF Shown
<1>3. CASE \E s \in Servers : LoginHandler(s)
  <2>1. PICK s \in Servers : LoginHandler(s)
    BY <1>3
  <2>2. UNCHANGED <<delivered, disturbed, strayed, failed>>
    BY <2>1, LoginEffect
  <2>3. overlapped \subseteq overlapped'
    BY <2>1 DEF LoginHandler, LoginReadsLists, LoginSetsUserId, LoginSetsUip, LoginSetsSession, LoginAnswers, history
  <2>4. QED
    BY <2>2, <2>3 DEF Shown
<1>4. CASE \E s \in Servers : InsertsRow(s) \/ \E t \in Servers : RoutesTo(s, t)
  BY <1>4 DEF InsertsRow, RoutesTo, history, screen, Shown
<1>5. CASE \E s \in Servers, r \in Requests : RequestBegins(s, r)
  BY <1>5 DEF RequestBegins, screen, Shown
<1>6. CASE \/ UNCHANGED vars
           \/ ClientStep
  BY <1>6 DEF vars, ClientStep, Disconnect, Connect, ClearSession, screen, history, Shown
<1>7. CASE \E r \in Requests : Notifies(r)
  <2>1. UNCHANGED history
    BY <1>7, NotifyEffect
  <2>2. QED
    BY <1>1, <1>7, <2>1 DEF history
<1>8. QED
  BY <1>2, <1>3, <1>4, <1>5, <1>6, <1>7 DEF Next, ClientStep, RequestHandler, EndOf

LEMMA FindingFrame ==
  ASSUME BaseInv, [Next]_vars, NEW r \in Requests, Finding(r), call'[r] = call[r],
         phase'[To[r]] = phase[To[r]], home'[To[r]] = home[To[r]], epoch'[To[r]] = epoch[To[r]],
         known[To[r]] \subseteq known'[To[r]]
  PROVE  Finding(r)'
<1>1. Shown(To[r]) \subseteq Shown(To[r])'
  BY Grows, ChatRoutingAssumption
<1>2. QED
  BY <1>1 DEF Finding

LEMMA RunningAfter ==
  ASSUME BaseInv, [Next]_vars, NEW r \in Requests, Running(r)'
  PROVE  Running(r) \/ \E s \in Servers : RequestBegins(s, r)
<1>1. PICK t \in Servers : logic'[t].req = r
  BY DEF Running
<1>2. r # None /\ Idle.req = None
  BY ChatRoutingAssumption DEF Idle
<1>3. CASE \E s \in Servers : EndOf(s)
  BY <1>1, <1>2, <1>3, EndEffect DEF Running
<1>4. CASE \E s \in Servers : LoginHandler(s)
  BY <1>1, <1>2, <1>4, LoginEffect DEF Running
<1>5. CASE \E s \in Servers : InsertsRow(s) \/ \E q \in Servers : RoutesTo(s, q)
  <2>1. PICK s \in Servers : InsertsRow(s) \/ \E q \in Servers : RoutesTo(s, q)
    BY <1>5
  <2>2. logic'[t].req = logic[t].req
    BY <2>1, InsertEffect, RouteEffect
  <2>3. QED
    BY <1>1, <2>2 DEF Running
<1>6. ASSUME NEW s \in Servers, NEW q \in Requests, RequestBegins(s, q)
      PROVE  Running(r) \/ r = q
  <2>1. logic'[s].req = q /\ \A p \in Servers \ {s} : logic'[p] = logic[p]
    BY <1>6, BeginEffect
  <2>2. CASE t = s
    BY <1>1, <2>1, <2>2
  <2>3. CASE t # s
    BY <1>1, <2>1, <2>3 DEF Running
  <2>4. QED
    BY <2>2, <2>3
<1>7. CASE \/ UNCHANGED vars \/ \E q \in Requests : Notifies(q)
           \/ ClientStep
  <2>1. UNCHANGED logic
    BY <1>7, NotifyEffect DEF vars, ClientStep, Disconnect, Connect, ClearSession
  <2>2. QED
    BY <1>1, <2>1 DEF Running
<1>8. QED
  BY <1>3, <1>4, <1>5, <1>6, <1>7 DEF Next, ClientStep, RequestHandler, EndOf

(* A request found by Finds, or shown by Sends, is the one and on the      *)
(* server that its recipient is on.                                        *)
LEMMA FindingNotified ==
  ASSUME BaseInv, BaseInv', [Next]_vars, NEW r \in Requests, Notifies(r), Finding(r)
  PROVE  Finding(r)'
<1> DEFINE u == To[r]
<1>1. /\ u \in Users /\ home[u] \in Servers /\ phase[u] = "in" /\ epoch[u] >= 1
      /\ uid_to_session[home[u]][u] = epoch[u]
  BY ChatRoutingAssumption DEF Finding, BaseInv, IInv, Connected, RoutedHome, RunInv
<1>2. call \in [Requests -> Calls] /\ call[r] \in Calls /\ epoch[u] # 0
  BY <1>1 DEF BaseInv, TypeOK, Calls
<1>3. UNCHANGED <<home, phase, epoch>>
  BY NotifyEffect DEF client
<1>4. CASE Finds(r)
  <2>1. call[r].at = "called" /\ call[r].server = home[u]
    BY <1>4 DEF Finds, Finding
  <2>2. call' = [call EXCEPT ![r].at = "found", ![r].conn = epoch[u]]
    BY <1>1, <1>2, <1>4, <2>1 DEF Finds
  <2>3. call'[r].at = "found" /\ call'[r].server = home[u] /\ call'[r].conn = epoch[u]
    BY <1>2, <2>1, <2>2 DEF Calls
  <2>4. QED
    BY <1>1, <1>3, <2>3 DEF Finding
<1>5. CASE Sends(r)
  <2>1. Shows(r)
    BY <1>5 DEF Sends, Finding, Shows
  <2>2. call'[r].at = "done" /\ r \in Shown(u)' /\ r \in known'[u]
    BY <1>1, <1>5, <2>1, SendEffect
  <2>3. QED
    BY <1>1, <1>3, <2>2 DEF Finding
<1>6. QED
  BY <1>4, <1>5 DEF Notifies

LEMMA SteadyRuns ==
  ASSUME BaseInv, BaseInv', OnceInv, SteadyInv, [Next]_vars,
         NEW r \in Requests, Running(r)', r \notin disturbed' \union strayed'
  PROVE  Finding(r)'
<1> DEFINE u == To[r]
<1>1. /\ u \in Users /\ r # None /\ home \in [Users -> Servers \union {None}]
      /\ phase \in [Users -> {"off", "asked", "in"}] /\ epoch \in [Users -> Nat]
      /\ known \in [Users -> SUBSET Requests]
  BY ChatRoutingAssumption DEF BaseInv, IInv, PlaceInv, TypeOK
<1>2. CASE \E s \in Servers : RequestBegins(s, r)
  <2>1. PICK s \in Servers : RequestBegins(s, r)
    BY <1>2
  <2>2. UNCHANGED <<home, phase, epoch, call, known>> /\ r \notin Begun
    BY <2>1, BeginEffect DEF client, screen
  <2>3. phase[u] = "in"
    BY <2>1 DEF RequestBegins
  <2>4. call[r].at = "none"
    BY <2>2 DEF OnceInv
  <2>5. QED
    BY <2>2, <2>3, <2>4 DEF Finding
<1>3. CASE ~\E s \in Servers : RequestBegins(s, r)
  <2>1. Running(r) /\ Finding(r) /\ r \notin disturbed \union strayed /\ phase[u] = "in"
    BY <1>3, RunningAfter, Grows DEF SteadyInv, Finding
  <2>2. ASSUME UNCHANGED <<home, phase, epoch, known>>, call'[r] = call[r]
        PROVE  Finding(r)'
    BY <2>1, <2>2, FindingFrame
  <2>3. CASE UNCHANGED vars
    BY <2>2, <2>3 DEF vars, client, screen
  <2>4. ASSUME NEW v \in Users, Disconnect(v) PROVE Finding(r)'
    <3>1. v # u
      BY <2>1, <2>4 DEF Disconnect, RequestsTo
    <3>2. /\ phase'[u] = phase[u] /\ home'[u] = home[u] /\ epoch' = epoch /\ call' = call
          /\ known' = known
      BY <1>1, <2>4, <3>1 DEF Disconnect, screen
    <3>3. QED
      BY <2>1, <3>2, FindingFrame
  <2>5. ASSUME NEW v \in Users, NEW s \in Servers, Connect(v, s) PROVE Finding(r)'
    <3>1. v # u
      BY <2>1, <2>5 DEF Connect
    <3>2. /\ phase'[u] = phase[u] /\ home'[u] = home[u] /\ epoch'[u] = epoch[u] /\ call' = call
          /\ known' = known
      BY <1>1, <2>5, <3>1 DEF Connect, screen
    <3>3. QED
      BY <2>1, <3>2, FindingFrame
  <2>6. ASSUME NEW s \in Servers, NEW x \in dying[s], ClearSession(s, x) PROVE Finding(r)'
    BY <2>2, <2>6 DEF ClearSession, client, screen
  <2>7. ASSUME NEW s \in Servers, LoginHandler(s) PROVE Finding(r)'
    <3>1. home' = home /\ epoch' = epoch /\ call' = call
      BY <2>7, LoginEffect
    <3>2. phase'[u] = phase[u] /\ known'[u] = known[u]
      <4>1. ASSUME NEW x \in waiting[s], LoginReadsLists(s, x)
            PROVE  phase'[u] = phase[u] /\ known'[u] = known[u]
        <5>1. phase' = phase /\ (Live(x.user, x.conn) => x.user # u)
          BY <2>1, <4>1 DEF LoginReadsLists, client, Live
        <5>2. known' = known \/ \E L : Live(x.user, x.conn) /\ known' = [known EXCEPT ![x.user] = L]
          BY <4>1 DEF LoginReadsLists
        <5>3. QED
          BY <1>1, <5>1, <5>2
      <4>2. CASE LoginSetsUserId(s) \/ LoginSetsUip(s) \/ LoginSetsSession(s)
        BY <4>2 DEF LoginSetsUserId, LoginSetsUip, LoginSetsSession, client, screen
      <4>3. CASE LoginAnswers(s)
        BY <1>1, <2>1, <4>3 DEF LoginAnswers, Live, screen
      <4>4. QED
        BY <2>7, <4>1, <4>2, <4>3 DEF LoginHandler
    <3>3. QED
      BY <2>1, <3>1, <3>2, FindingFrame
  <2>8. ASSUME NEW s \in Servers, EndOf(s) PROVE Finding(r)'
    <3>1. r # logic[s].req
      <4>1. SUFFICES ASSUME r = logic[s].req PROVE FALSE
        OBVIOUS
      <4>2. PICK t \in Servers : logic'[t].req = r
        BY DEF Running
      <4>3. t # s /\ logic[t].req = r
        BY <1>1, <2>8, <4>2, EndEffect DEF Idle
      <4>4. QED
        BY <1>1, <4>1, <4>3 DEF OnceInv
    <3>2. call'[r] = call[r] /\ UNCHANGED <<home, phase, epoch, known>>
      BY <2>8, <3>1, EndEffect
    <3>3. QED
      BY <2>2, <3>2
  <2>9. ASSUME NEW s \in Servers, InsertsRow(s) PROVE Finding(r)'
    BY <2>2, <2>9 DEF InsertsRow, client, screen
  <2>10. ASSUME NEW s \in Servers, NEW t \in Servers, RoutesTo(s, t) PROVE Finding(r)'
    <3>1. /\ UNCHANGED <<home, phase, epoch, known>> /\ uip[To[logic[s].req]] = t
          /\ call'[logic[s].req] = [at |-> "called", server |-> t, conn |-> 0]
          /\ \A q \in Requests \ {logic[s].req} : call'[q] = call[q]
      BY <2>10, RouteEffect DEF client, screen
    <3>2. CASE r = logic[s].req
      <4>1. u \notin overtaken
        BY <2>1, <2>10, <3>2, RouteEffect
      <4>2. uip[u] = home[u]
        BY <1>1, <2>1, <4>1 DEF BaseInv, IInv, RoutedHome
      <4>3. QED
        BY <2>1, <3>1, <3>2, <4>2 DEF Finding
    <3>3. CASE r # logic[s].req
      BY <2>2, <3>1, <3>3
    <3>4. QED
      BY <3>2, <3>3
  <2>11. ASSUME NEW s \in Servers, NEW q \in Requests, RequestBegins(s, q) PROVE Finding(r)'
    BY <2>2, <2>11, BeginEffect DEF client, screen
  <2>12. ASSUME NEW q \in Requests, Notifies(q) PROVE Finding(r)'
    <3>1. CASE q = r
      BY <2>1, <2>12, <3>1, FindingNotified
    <3>2. CASE q # r
      <4>1. UNCHANGED <<home, phase, epoch>> /\ call'[r] = call[r]
        BY <2>12, <3>2, NotifyEffect DEF client
      <4>2. known[u] \subseteq known'[u]
        BY <1>1, <2>12, SendEffect DEF Notifies, Finds, screen
      <4>3. QED
        BY <2>1, <4>1, <4>2, FindingFrame
    <3>3. QED
      BY <3>1, <3>2
  <2>13. QED
    BY <2>3, <2>4, <2>5, <2>6, <2>7, <2>8, <2>9, <2>10, <2>11, <2>12
       DEF Next, ClientStep, RequestHandler, EndOf
<1>4. QED
  BY <1>2, <1>3

LEMMA SteadyNext ==
  BaseInv /\ BaseInv' /\ OnceInv /\ SteadyInv /\ [Next]_vars => SteadyInv'
<1> SUFFICES ASSUME BaseInv, BaseInv', OnceInv, SteadyInv, [Next]_vars PROVE SteadyInv'
  OBVIOUS
<1>1. ASSUME NEW r \in Requests, Handled(r)', r \notin disturbed' \union strayed' \union failed'
      PROVE  r \in Shown(To[r])'
  <2>1. To[r] \in Users /\ r \notin disturbed \union strayed \union failed
    BY <1>1, Grows, ChatRoutingAssumption
  <2>2. r \in Shown(To[r])
    BY <1>1, <2>1, HandledAfter, EndFinds DEF SteadyInv
  <2>3. QED
    BY <2>1, <2>2, Grows
<1>2. QED
  BY <1>1, SteadyRuns DEF SteadyInv

-----------------------------------------------------------------------------
(* Every row is seen.  What is new after a step, and which step made it.   *)
Reads(u) ==
    \E s \in Servers : \E x \in waiting[s] :
        x.user = u /\ Live(u, x.conn) /\ LoginReadsLists(s, x)

(* What a login has of its session. *)
LEMMA ThreadConn ==
  ASSUME BaseInv, NEW s \in Servers, NEW u \in Users, logic[s].user = u
  PROVE  logic[s].conn \in Nat /\ logic[s].conn <= epoch[u]
<1>1. logic[s].at \in LoginPlace
  BY ChatRoutingAssumption DEF BaseInv, RunInv
<1>2. QED
  BY <1>1 DEF BaseInv, IInv, PlaceInv, LoginInv, Threads

LEMMA LiveAfter ==
  ASSUME BaseInv, [Next]_vars, NEW u \in Users, NEW c \in Nat, c <= epoch[u],
         phase'[u] = "asked", epoch'[u] = c
  PROVE  Live(u, c)
<1>1. phase \in [Users -> {"off", "asked", "in"}] /\ epoch \in [Users -> Nat]
  BY DEF BaseInv, TypeOK
<1>2. CASE \E v \in Users : Disconnect(v)
  BY <1>1, <1>2 DEF Disconnect, Live
<1>3. CASE \E v \in Users, s \in Servers : Connect(v, s)
  <2>1. PICK v \in Users, s \in Servers : Connect(v, s)
    BY <1>3
  <2>2. CASE v = u
    <3>1. epoch'[u] = epoch[u] + 1 /\ epoch[u] \in Nat
      BY <1>1, <2>1, <2>2 DEF Connect
    <3>2. QED
      BY <3>1
  <2>3. CASE v # u
    BY <1>1, <2>1, <2>3 DEF Connect, Live
  <2>4. QED
    BY <2>2, <2>3
<1>4. CASE \E s \in Servers : LoginAnswers(s)
  BY <1>1, <1>4 DEF LoginAnswers, Live
<1>5. CASE UNCHANGED <<phase, epoch>>
  BY <1>5 DEF Live
<1>6. CASE \/ UNCHANGED vars \/ \E q \in Requests : Notifies(q)
           \/ \E s \in Servers : \/ EndOf(s) \/ InsertsRow(s) \/ \E t \in Servers : RoutesTo(s, t)
                                 \/ \E x \in dying[s] : ClearSession(s, x)
           \/ \E s \in Servers, q \in Requests : RequestBegins(s, q)
  BY <1>5, <1>6, NotifyEffect, EndEffect, InsertEffect, RouteEffect, BeginEffect
     DEF vars, ClearSession, client
<1>7. CASE \E s \in Servers : LoginHandler(s) /\ ~LoginAnswers(s)
  BY <1>5, <1>7 DEF LoginHandler, LoginReadsLists, LoginSetsUserId, LoginSetsUip, LoginSetsSession,
                    client
<1>8. QED
  BY <1>2, <1>3, <1>4, <1>6, <1>7 DEF Next, RequestHandler, EndOf

LEMMA LoggingInAfter ==
  ASSUME BaseInv, [Next]_vars, NEW u \in Users, LoggingIn(u)'
  PROVE  LoggingIn(u) \/ Reads(u)
<1>1. PICK t \in Servers : /\ logic'[t].user = u
                          /\ phase'[u] = "asked" /\ epoch'[u] = logic'[t].conn
  BY DEF LoggingIn, Live
<1>2. u # None /\ Idle.user = None /\ logic \in [Servers -> Threads]
  BY ChatRoutingAssumption DEF Idle, BaseInv, TypeOK, Threads, Places
<1>3. ASSUME logic'[t].user = logic[t].user, logic'[t].conn = logic[t].conn
      PROVE  LoggingIn(u)
  BY <1>1, <1>3, ThreadConn, LiveAfter DEF LoggingIn
<1>4. ASSUME NEW s \in Servers, EndOf(s) PROVE LoggingIn(u)
  BY <1>1, <1>2, <1>3, <1>4, EndEffect
<1>5. ASSUME NEW s \in Servers, LoginHandler(s)
      PROVE  LoggingIn(u) \/ Reads(u)
  <2>1. ASSUME NEW x \in waiting[s], LoginReadsLists(s, x) PROVE LoggingIn(u) \/ Reads(u)
    <3>1. /\ logic' = [logic EXCEPT ![s] = [at |-> "uid", user |-> x.user, conn |-> x.conn,
                                            req |-> None]]
          /\ UNCHANGED <<phase, epoch>>
      BY <2>1 DEF LoginReadsLists, client
    <3>2. CASE t = s
      <4>1. x.user = u /\ Live(u, x.conn)
        BY <1>1, <1>2, <3>1, <3>2 DEF Live
      <4>2. QED
        BY <2>1, <4>1 DEF Reads
    <3>3. CASE t # s
      BY <1>2, <1>3, <3>1, <3>3
    <3>4. QED
      BY <3>2, <3>3
  <2>2. CASE LoginSetsUserId(s) \/ LoginSetsUip(s) \/ LoginSetsSession(s)
    <3>1. logic'[t].user = logic[t].user /\ logic'[t].conn = logic[t].conn
      BY <1>2, <2>2 DEF LoginSetsUserId, LoginSetsUip, LoginSetsSession, Goes, Threads
    <3>2. QED
      BY <1>3, <3>1
  <2>3. CASE LoginAnswers(s)
    <3>1. logic' = [logic EXCEPT ![s] = Idle]
      BY <2>3 DEF LoginAnswers, Ends
    <3>2. t # s /\ logic'[t] = logic[t]
      BY <1>1, <1>2, <3>1
    <3>3. QED
      BY <1>3, <3>2
  <2>4. QED
    BY <1>5, <2>1, <2>2, <2>3 DEF LoginHandler
<1>6. ASSUME NEW s \in Servers, InsertsRow(s) \/ \E q \in Servers : RoutesTo(s, q)
      PROVE  LoggingIn(u)
  <2>1. \E to : logic' = [logic EXCEPT ![s].at = to]
    BY <1>6 DEF InsertsRow, RoutesTo, Goes
  <2>2. logic'[t].user = logic[t].user /\ logic'[t].conn = logic[t].conn
    BY <1>2, <2>1 DEF Threads
  <2>3. QED
    BY <1>3, <2>2
<1>7. ASSUME NEW s \in Servers, NEW q \in Requests, RequestBegins(s, q) PROVE LoggingIn(u)
  BY <1>1, <1>2, <1>3, <1>7, BeginEffect
<1>8. CASE UNCHANGED vars \/ ClientStep \/ \E q \in Requests : Notifies(q)
  <2>1. UNCHANGED logic
    BY <1>8, NotifyEffect DEF vars, ClientStep, Disconnect, Connect, ClearSession
  <2>2. QED
    BY <1>3, <2>1
<1>9. QED
  BY <1>4, <1>5, <1>6, <1>7, <1>8 DEF Next, ClientStep, RequestHandler, EndOf

LEMMA InAfter ==
  ASSUME BaseInv, [Next]_vars, NEW u \in Users, phase'[u] = "in"
  PROVE  phase[u] = "in" \/ LoggingIn(u)
<1>1. phase \in [Users -> {"off", "asked", "in"}]
  BY DEF BaseInv, TypeOK
<1>2. CASE phase' = phase
  BY <1>2
<1>3. ASSUME NEW s \in Servers, LoginHandler(s) PROVE phase[u] = "in" \/ LoggingIn(u)
  <2>1. CASE LoginAnswers(s)
    BY <1>1, <2>1 DEF LoginAnswers, LoggingIn
  <2>2. CASE ~LoginAnswers(s)
    BY <1>2, <1>3, <2>2 DEF LoginHandler, LoginReadsLists, LoginSetsUserId, LoginSetsUip,
                            LoginSetsSession, client
  <2>3. QED
    BY <2>1, <2>2
<1>4. CASE ClientStep
  BY <1>1, <1>4 DEF ClientStep, Disconnect, Connect, ClearSession, client
<1>5. CASE \/ UNCHANGED vars \/ \E q \in Requests : Notifies(q)
           \/ \E s \in Servers : EndOf(s) \/ InsertsRow(s) \/ \E t \in Servers : RoutesTo(s, t)
           \/ \E s \in Servers, q \in Requests : RequestBegins(s, q)
  <2>1. phase' = phase
    BY <1>5, NotifyEffect, EndEffect, InsertEffect, RouteEffect, BeginEffect DEF vars, client
  <2>2. QED
    BY <1>2, <2>1
<1>6. QED
  BY <1>3, <1>4, <1>5 DEF Next, ClientStep, RequestHandler, EndOf

LEMMA KnownAfter ==
  ASSUME BaseInv, [Next]_vars, NEW u \in Users
  PROVE  known[u] \subseteq known'[u] \/ Reads(u)
<1>1. known \in [Users -> SUBSET Requests]
  BY DEF BaseInv, TypeOK
<1>2. ASSUME NEW s \in Servers, LoginHandler(s)
      PROVE  known'[u] = known[u] \/ Reads(u)
  <2>1. ASSUME NEW x \in waiting[s], LoginReadsLists(s, x)
        PROVE  known'[u] = known[u] \/ Reads(u)
    <3>1. CASE Live(x.user, x.conn) /\ x.user = u
      BY <2>1, <3>1 DEF Reads
    <3>2. CASE ~Live(x.user, x.conn) \/ x.user # u
      BY <1>1, <2>1, <3>2 DEF LoginReadsLists
    <3>3. QED
      BY <3>1, <3>2
  <2>2. CASE LoginSetsUserId(s) \/ LoginSetsUip(s) \/ LoginSetsSession(s) \/ LoginAnswers(s)
    BY <2>2 DEF LoginSetsUserId, LoginSetsUip, LoginSetsSession, LoginAnswers, screen
  <2>3. QED
    BY <1>2, <2>1, <2>2 DEF LoginHandler
<1>3. ASSUME NEW q \in Requests, Notifies(q) PROVE known[u] \subseteq known'[u]
  BY <1>3, SendEffect DEF Notifies, Finds, screen
<1>4. CASE \/ UNCHANGED vars \/ ClientStep
           \/ \E s \in Servers : EndOf(s) \/ InsertsRow(s) \/ \E t \in Servers : RoutesTo(s, t)
           \/ \E s \in Servers, q \in Requests : RequestBegins(s, q)
  <2>1. known' = known
    BY <1>4, EndEffect, InsertEffect, RouteEffect, BeginEffect
       DEF vars, ClientStep, Disconnect, Connect, ClearSession, screen
  <2>2. QED
    BY <2>1
<1>5. QED
  BY <1>2, <1>3, <1>4 DEF Next, ClientStep, RequestHandler, EndOf

LEMMA DisturbedAfter ==
  ASSUME BaseInv, [Next]_vars, NEW r \in disturbed'
  PROVE  /\ r \in Requests
         /\ \/ r \in disturbed
            \/ Running(r) /\ phase'[To[r]] = "off" /\ begun' = begun
            \/ phase[To[r]] # "in" /\ \E s \in Servers : RequestBegins(s, r)
<1>1. disturbed \subseteq Requests /\ phase \in [Users -> {"off", "asked", "in"}]
  BY DEF BaseInv, TypeOK
<1>2. ASSUME NEW u \in Users, Disconnect(u), r \notin disturbed
      PROVE  r \in Requests /\ Running(r) /\ phase'[To[r]] = "off" /\ begun' = begun
  BY <1>1, <1>2 DEF Disconnect, RequestsTo
<1>3. ASSUME NEW s \in Servers, NEW q \in Requests, RequestBegins(s, q), r \notin disturbed
      PROVE  r = q /\ phase[To[r]] # "in"
  BY <1>3 DEF RequestBegins
<1>4. CASE \/ UNCHANGED vars \/ \E q \in Requests : Notifies(q)
           \/ \E s \in Servers : \/ LoginHandler(s) \/ EndOf(s) \/ InsertsRow(s)
                                 \/ \E t \in Servers : RoutesTo(s, t)
           \/ \E v \in Users, s \in Servers : Connect(v, s)
           \/ \E s \in Servers : \E x \in dying[s] : ClearSession(s, x)
  <2>1. disturbed' = disturbed
    BY <1>4, LoginEffect, NotifyEffect, EndEffect, InsertEffect, RouteEffect
       DEF vars, Connect, ClearSession, history
  <2>2. QED
    BY <1>1, <2>1
<1>5. QED
  BY <1>1, <1>2, <1>3, <1>4 DEF Next, ClientStep, RequestHandler, EndOf

LEMMA TableAfter ==
  ASSUME BaseInv, [Next]_vars, NEW r \in Requests, ~Running(r)
  PROVE  (r \in table' => r \in table) /\ (Listable(r)' <=> Listable(r))
<1>1. ASSUME NEW s \in Servers, InsertsRow(s)
      PROVE  (r \in table' => r \in table) /\ older'[r] = older[r]
  <2>1. r # logic[s].req
    BY DEF Running
  <2>2. QED
    BY <1>1, <2>1, InsertEffect
<1>2. CASE \/ UNCHANGED vars \/ ClientStep \/ \E q \in Requests : Notifies(q)
           \/ \E s \in Servers : LoginHandler(s) \/ EndOf(s) \/ \E t \in Servers : RoutesTo(s, t)
           \/ \E s \in Servers, q \in Requests : RequestBegins(s, q)
  <2>1. UNCHANGED <<table, older>>
    BY <1>2, LoginEffect, NotifyEffect, EndEffect, RouteEffect, BeginEffect
       DEF vars, ClientStep, Disconnect, Connect, ClearSession, server, mysql
  <2>2. QED
    BY <2>1 DEF Listable
<1>3. QED
  BY <1>1, <1>2 DEF Next, ClientStep, RequestHandler, EndOf, Listable

LEMMA BegunGrows ==
  ASSUME BaseInv, NEW s \in Servers, NEW r \in Requests, RequestBegins(s, r)
  PROVE  Begun' = Begun \union {r} /\ r \notin Begun
<1>1. begun' = Append(begun, [req |-> r, conn |-> epoch[From[r]]]) /\ r \notin Begun
  BY BeginEffect
<1>2. QED
  BY <1>1, BegunAppend

LEMMA RunningBegun ==
  ASSUME OnceInv, NEW r \in Requests, Running(r)
  PROVE  r \in Begun
BY ChatRoutingAssumption DEF OnceInv, Running

(* Beside no login: its recipient was there when it began, or is away.     *)
LEMMA RowRuns ==
  ASSUME BaseInv, BaseInv', OnceInv, RowInv, [Next]_vars,
         NEW r \in Requests \ (overlapped' \union strayed' \union failed'), Running(r)'
  PROVE  /\ ~LoggingIn(To[r])'
         /\ phase'[To[r]] = "in" => r \notin disturbed'
<1>1. To[r] \in Users /\ r \in Requests \ (overlapped \union strayed \union failed)
  BY Grows, ChatRoutingAssumption
<1>2. CASE \E s \in Servers : RequestBegins(s, r)
  <2>1. PICK s \in Servers : RequestBegins(s, r)
    BY <1>2
  <2>2. UNCHANGED phase /\ r \notin disturbed
    BY <2>1, BeginEffect DEF client, RowInv
  <2>3. ~LoggingIn(To[r])
    BY <2>1 DEF RequestBegins
  <2>4. ~Reads(To[r])
    <3>1. ASSUME NEW t \in Servers, NEW x \in waiting[t], LoginReadsLists(t, x) PROVE FALSE
      <4>1. begun' = begun
        BY <3>1 DEF LoginReadsLists
      <4>2. Begun' = Begun \union {r} /\ r \notin Begun
        BY <2>1, BegunGrows
      <4>3. QED
        BY <4>1, <4>2 DEF Begun
    <3>2. QED
      BY <3>1 DEF Reads
  <2>5. phase'[To[r]] = "in" => r \notin disturbed'
    BY <2>1, <2>2 DEF RequestBegins
  <2>6. QED
    BY <1>1, <2>3, <2>4, <2>5, LoggingInAfter
<1>3. CASE ~\E s \in Servers : RequestBegins(s, r)
  <2>1. Running(r) /\ ~LoggingIn(To[r])
    BY <1>1, <1>3, RunningAfter DEF RowInv
  <2>2. ~Reads(To[r])
    BY <1>1, <2>1 DEF Reads, LoginReadsLists, RequestsTo
  <2>3. ~LoggingIn(To[r])'
    BY <1>1, <2>1, <2>2, LoggingInAfter
  <2>4. ASSUME phase'[To[r]] = "in", r \in disturbed' PROVE FALSE
    <3>1. phase[To[r]] = "in"
      BY <1>1, <2>1, <2>4, InAfter
    <3>2. r \notin disturbed
      BY <1>1, <2>1, <3>1 DEF RowInv
    <3>3. QED
      BY <1>3, <2>4, <3>2, DisturbedAfter
  <2>5. QED
    BY <2>3, <2>4
<1>4. QED
  BY <1>2, <1>3

LEMMA RowSeen ==
  ASSUME BaseInv, BaseInv', OnceInv, SteadyInv, RowInv, [Next]_vars,
         NEW r \in Requests \ (overlapped' \union strayed' \union failed'), r \in table',
         Handled(r)', Listable(r)', phase'[To[r]] = "in" \/ LoggingIn(To[r])'
  PROVE  r \in known'[To[r]]
<1> DEFINE u == To[r]
<1>1. u \in Users /\ r \in Requests \ (overlapped \union strayed \union failed)
  BY Grows, ChatRoutingAssumption
<1>2. CASE Reads(u)
  <2>1. PICK s \in Servers : \E x \in waiting[s] :
               x.user = u /\ Live(u, x.conn) /\ LoginReadsLists(s, x)
    BY <1>2 DEF Reads
  <2>2. /\ known' = [known EXCEPT ![u] = {q \in table \intersect RequestsTo(u) : Listable(q)}]
        /\ table' = table /\ older' = older
    BY <2>1 DEF LoginReadsLists, server, mysql
  <2>3. known'[u] = {q \in table \intersect RequestsTo(u) : Listable(q)}
    BY <1>1, <2>2 DEF BaseInv, TypeOK
  <2>4. Listable(r)
    BY <2>2 DEF Listable
  <2>5. QED
    BY <1>1, <2>2, <2>3, <2>4 DEF RequestsTo
<1>3. CASE ~Reads(u)
  <2>1. known[u] \subseteq known'[u]
    BY <1>1, <1>3, KnownAfter
  <2>2. phase[u] = "in" \/ LoggingIn(u)
    BY <1>1, <1>3, InAfter, LoggingInAfter
  <2>3. CASE Handled(r)
    <3>1. r \in table /\ Listable(r)
      BY <2>3, TableAfter DEF Handled
    <3>2. QED
      BY <1>1, <2>1, <2>2, <2>3, <3>1 DEF RowInv
  <2>4. ASSUME NEW s \in Servers, EndOf(s), r = logic[s].req
        PROVE  r \in known'[u]
    <3>1. Running(r)
      BY <2>4 DEF Running
    <3>2. r \notin disturbed \union strayed
      BY <1>1, <2>2, <3>1 DEF RowInv
    <3>3. r \notin failed' /\ logic[s].req \in known[u]
      BY <2>4, <3>2, EndFinds
    <3>4. QED
      BY <2>1, <2>4, <3>3
  <2>5. QED
    BY <2>3, <2>4, HandledAfter
<1>4. QED
  BY <1>2, <1>3

LEMMA RowNext ==
  BaseInv /\ BaseInv' /\ OnceInv /\ SteadyInv /\ RowInv /\ [Next]_vars => RowInv'
<1> SUFFICES ASSUME BaseInv, BaseInv', OnceInv, SteadyInv, RowInv, [Next]_vars PROVE RowInv'
  OBVIOUS
<1>1. ASSUME NEW r \in disturbed' PROVE r \in Begun'
  <2>1. CASE r \in disturbed \/ Running(r)
    <3>1. r \in Begun
      BY <2>1, RunningBegun, DisturbedAfter DEF RowInv
    <3>2. Begun \subseteq Begun'
      <4>1. CASE begun' = begun
        BY <4>1 DEF Begun
      <4>2. CASE \E s \in Servers, q \in Requests : RequestBegins(s, q)
        BY <4>2, BegunGrows
      <4>3. CASE Next /\ ~\E s \in Servers, q \in Requests : RequestBegins(s, q)
        <5>1. begun' = begun
          BY <4>3, LoginEffect, NotifyEffect, EndEffect, InsertEffect, RouteEffect
             DEF Next, ClientStep, RequestHandler, EndOf, Disconnect, Connect, ClearSession, history
        <5>2. QED
          BY <4>1, <5>1
      <4>4. QED
        BY <4>1, <4>2, <4>3 DEF vars, history
    <3>3. QED
      BY <3>1, <3>2
  <2>2. CASE \E s \in Servers : RequestBegins(s, r)
    BY <2>2, BegunGrows, DisturbedAfter
  <2>3. QED
    BY <2>1, <2>2, DisturbedAfter
<1>2. QED
  BY <1>1, RowRuns, RowSeen DEF RowInv

-----------------------------------------------------------------------------
(* All of it together, from the beginning.                                 *)
Inv == BaseInv /\ OnceInv /\ ConnInv /\ OrderInv /\ SteadyInv /\ RowInv

LEMMA InitAll == Init => Inv
<1> SUFFICES ASSUME Init PROVE Inv
  OBVIOUS
<1>1. BaseInv
  BY BaseInit
<1>2. /\ begun = <<>> /\ DOMAIN begun = {} /\ table = {} /\ disturbed = {}
      /\ \A r \in Requests : call[r].at = "none"
      /\ \A s \in Servers : logic[s].req = None /\ logic[s].user = None /\ logic[s].at = "idle"
      /\ \A u \in Users : delivered[u] = <<>> /\ DOMAIN delivered[u] = {}
  BY DEF Init, NoCall, Idle
<1>3. \A r \in Requests : ~Running(r) /\ ~Handled(r)
  BY <1>2, ChatRoutingAssumption DEF Running, Handled
<1>4. OnceInv
  BY <1>2 DEF OnceInv
<1>5. ConnInv
  BY <1>2 DEF ConnInv
<1>6. OrderInv
  BY <1>2, <1>3 DEF OrderInv, NotifiedInOrder, Shown
<1>7. SteadyInv
  BY <1>3 DEF SteadyInv
<1>8. RowInv
  BY <1>2, <1>3 DEF RowInv
<1>9. QED
  BY <1>1, <1>4, <1>5, <1>6, <1>7, <1>8 DEF Inv

LEMMA NextAll == Inv /\ [Next]_vars => Inv'
BY BaseNext, OnceNext, ConnNext, OrderNext, SteadyNext, RowNext DEF Inv

(* Notifications of one connection of a sender are shown in the order he   *)
(* issued the requests, and none twice, over any number of servers.        *)
THEOREM InOrderCorrect == Spec => []NotifiedInOrder
<1>1. Inv => NotifiedInOrder
  BY DEF Inv, OrderInv
<1>2. QED
  BY InitAll, NextAll, <1>1, PTL DEF Spec

(* A request handled while its recipient stays logged in is shown to him,  *)
(* unless Redis or the call to his server failed.                          *)
THEOREM SteadyCorrect == Spec => []SteadyIsNotified
<1>1. Inv => SteadyIsNotified
  <2>1. \A r \in Requests : r \in Shown(To[r]) =>
           \E i \in DOMAIN delivered[To[r]] : delivered[To[r]][i] = r
    BY DEF Shown
  <2>2. QED
    BY <2>1 DEF Inv, SteadyInv, SteadyIsNotified
<1>2. QED
  BY InitAll, NextAll, <1>1, PTL DEF Spec

(* A friend request or an answer in MySQL is shown to its recipient when   *)
(* he is logged in, by his lists or by the notification; the one gap is a  *)
(* request that ran beside a login of his.                                 *)
THEOREM RowCorrect == Spec => []RowIsSeen
<1>1. Inv => RowIsSeen
  BY ChatRoutingAssumption DEF Inv, BaseInv, TypeOK, RowInv, RowIsSeen
<1>2. QED
  BY InitAll, NextAll, <1>1, PTL DEF Spec

-----------------------------------------------------------------------------
(* The steps a handler has still to take, those of its request at the      *)
(* recipient's server included.                                            *)
PlaceLeft == [idle |-> 0, uid |-> 4, uip |-> 3, map |-> 2, answer |-> 1, insert |-> 5, route |-> 4,
              wait |-> 0]
CallLeft == [none |-> 0, called |-> 3, found |-> 2, done |-> 1]

StepsLeft(s) ==
    PlaceLeft[logic[s].at] + (IF logic[s].at = "wait" THEN CallLeft[call[logic[s].req].at] ELSE 0)

(* The steps by which the handler on s goes on, on its own thread or, when *)
(* it waits for an answer, on the thread that runs its call.               *)
Serves(s) ==
    \/ LoginHandler(s) \/ RequestHandler(s) \/ RpcFails(s)
    \/ \E r \in Requests : r = logic[s].req /\ Notifies(r)

LEMMA PlaceDrops ==
  ASSUME BaseInv, NEW s \in Servers, logic[s].at # "idle",
         LoginHandler(s) \/ RequestHandler(s) \/ RpcFails(s), OnceInv
  PROVE  StepsLeft(s)' < StepsLeft(s)
<1> USE DEF StepsLeft, PlaceLeft, CallLeft
<1>1. logic \in [Servers -> Threads] /\ call \in [Requests -> Calls]
  BY DEF BaseInv, TypeOK, Threads, Places, Calls
<1>2. CASE EndOf(s)
  <2>1. logic[s].at \in {"route", "wait"} /\ logic'[s].at = "idle" /\ logic[s].req \in Requests
    BY <1>2, EndEffect DEF Idle
  <2>2. call[logic[s].req].at \in {"none", "called", "found", "done"}
    BY <1>1, <2>1 DEF Calls
  <2>3. logic[s].at = "wait" => call[logic[s].req].at # "none"
    BY DEF OnceInv
  <2>4. QED
    BY <2>1, <2>2, <2>3
<1>3. ASSUME NEW t \in Servers, RoutesTo(s, t) PROVE StepsLeft(s)' < StepsLeft(s)
  <2>1. logic[s].at = "route" /\ logic'[s].at = "wait" /\ logic'[s].req = logic[s].req
    BY <1>3, RouteEffect
  <2>2. call'[logic[s].req] = [at |-> "called", server |-> t, conn |-> 0]
    BY <1>3, RouteEffect
  <2>3. call'[logic[s].req].at = "called"
    BY <2>2
  <2>4. QED
    BY <2>1, <2>3
<1>4. CASE InsertsRow(s)
  BY <1>4, InsertEffect
<1>5. CASE LoginHandler(s)
  <2>1. ~ \E x \in waiting[s] : LoginReadsLists(s, x)
    BY DEF LoginReadsLists, Idle
  <2>6. CASE LoginSetsUserId(s)
    BY <1>1, <2>6 DEF LoginSetsUserId, Goes, Threads
  <2>2. CASE LoginSetsUip(s)
    BY <1>1, <2>2 DEF LoginSetsUip, Goes, Threads
  <2>3. CASE LoginSetsSession(s)
    BY <1>1, <2>3 DEF LoginSetsSession, Goes, Threads
  <2>4. CASE LoginAnswers(s)
    BY <1>1, <2>4 DEF LoginAnswers, Ends, Idle
  <2>5. QED
    BY <1>5, <2>1, <2>2, <2>3, <2>4, <2>6 DEF LoginHandler
<1>6. QED
  BY <1>2, <1>3, <1>4, <1>5 DEF RequestHandler, EndOf

LEMMA CallDrops ==
  ASSUME BaseInv, NEW s \in Servers, NEW r \in Requests, r = logic[s].req, Notifies(r), OnceInv
  PROVE  StepsLeft(s)' < StepsLeft(s)
<1>1. call \in [Requests -> Calls]
  BY DEF BaseInv, TypeOK, Calls
<1>2. UNCHANGED logic /\ call[r].at \in {"called", "found"}
  BY NotifyEffect
<1>3. logic[s].at = "wait"
  <2>1. logic[s].at \in RequestPlace
    BY ChatRoutingAssumption DEF BaseInv, RunInv
  <2>2. logic[s].at \in {"insert", "route"} => call[r].at = "none"
    BY DEF OnceInv
  <2>3. QED
    BY <1>2, <2>1, <2>2 DEF RequestPlace
<1>4. CASE Finds(r)
  <2>1. call[r].at = "called" /\ call'[r].at \in {"found", "done"}
    BY <1>1, <1>4 DEF Finds, Calls
  <2>2. QED
    BY <1>2, <1>3, <2>1 DEF StepsLeft, PlaceLeft, CallLeft
<1>5. CASE Sends(r)
  <2>1. call[r].at = "found" /\ call'[r].at = "done"
    BY <1>1, <1>5 DEF Sends, Calls
  <2>2. QED
    BY <1>2, <1>3, <2>1 DEF StepsLeft, PlaceLeft, CallLeft
<1>6. QED
  BY <1>4, <1>5 DEF Notifies

(* What is no step of the handler leaves it where it is. *)
LEMMA OthersWait ==
  ASSUME BaseInv, OnceInv, NEW s \in Servers, logic[s].at # "idle", [Next]_vars, ~Serves(s)
  PROVE  StepsLeft(s)' = StepsLeft(s)
<1>0. SUFFICES /\ logic'[s] = logic[s]
               /\ logic[s].at = "wait" => call'[logic[s].req] = call[logic[s].req]
  BY DEF StepsLeft
<1>1. logic[s].at = "wait" => logic[s].req \in Requests
  BY DEF BaseInv, RunInv, RequestPlace
<1>2. ASSUME NEW t \in Servers, t # s, EndOf(t)
      PROVE  logic'[s] = logic[s] /\ (logic[s].at = "wait" => call'[logic[s].req] = call[logic[s].req])
  <2>1. logic[t].req \in Requests /\ logic'[s] = logic[s]
    BY <1>2, EndEffect
  <2>2. logic[t].req # None
    BY <2>1, ChatRoutingAssumption
  <2>3. logic[s].req # logic[t].req
    BY <1>2, <2>2 DEF OnceInv
  <2>4. QED
    BY <1>1, <1>2, <2>1, <2>3, EndEffect
<1>3. ASSUME NEW t \in Servers, t # s, NEW q \in Servers, RoutesTo(t, q)
      PROVE  logic'[s] = logic[s] /\ (logic[s].at = "wait" => call'[logic[s].req] = call[logic[s].req])
  <2>1. logic[t].req \in Requests /\ logic'[s] = logic[s]
    BY <1>3, RouteEffect
  <2>2. logic[t].req # None
    BY <2>1, ChatRoutingAssumption
  <2>3. logic[s].req # logic[t].req
    BY <1>3, <2>2 DEF OnceInv
  <2>4. QED
    BY <1>1, <1>3, <2>1, <2>3, RouteEffect
<1>4. ASSUME NEW t \in Servers, t # s, InsertsRow(t)
      PROVE  logic'[s] = logic[s] /\ UNCHANGED call
  BY <1>4, InsertEffect
<1>5. ASSUME NEW t \in Servers, t # s, LoginHandler(t)
      PROVE  logic'[s] = logic[s] /\ UNCHANGED call
  BY <1>5, LoginEffect
<1>6. ASSUME NEW t \in Servers, NEW r \in Requests, RequestBegins(t, r)
      PROVE  logic'[s] = logic[s] /\ UNCHANGED call
  <2>1. logic[t] = Idle
    BY <1>6, BeginEffect
  <2>2. t # s
    BY <2>1 DEF Idle
  <2>3. \A q \in Servers \ {t} : logic'[q] = logic[q]
    BY <1>6, BeginEffect
  <2>4. UNCHANGED call
    BY <1>6 DEF RequestBegins
  <2>5. QED
    BY <2>2, <2>3, <2>4
<1>7. ASSUME NEW r \in Requests, Notifies(r)
      PROVE  logic'[s] = logic[s] /\ (logic[s].at = "wait" => call'[logic[s].req] = call[logic[s].req])
  <2>1. r # logic[s].req
    BY <1>7 DEF Serves
  <2>2. QED
    BY <1>1, <1>7, <2>1, NotifyEffect
<1>8. CASE ClientStep
  BY <1>8 DEF ClientStep, Disconnect, Connect, ClearSession
<1>9. CASE UNCHANGED vars
  BY <1>9 DEF vars
<1>10. ASSUME NEW t \in Servers, LoginHandler(t) \/ RequestHandler(t) \/ RpcFails(t)
       PROVE  t # s
  BY <1>10 DEF Serves
<1>11. QED
  BY <1>2, <1>3, <1>4, <1>5, <1>6, <1>7, <1>8, <1>9, <1>10 DEF Next, ClientStep, RequestHandler, EndOf

WaitIsAnswered == \A s \in Servers : logic[s].at = "wait" =>
    LET c == call[logic[s].req] IN
        c.at = "done" \/ (c.at \in {"called", "found"} /\ c.server \in Servers)

(* The safety that HandlersEnd rests on.  A handler that waits has a call  *)
(* that runs, or has run, on a thread of the peer's own ...                *)
THEOREM WaitIsAnsweredCorrect == Spec => []WaitIsAnswered
<1>1. Inv => WaitIsAnswered
  <2> SUFFICES ASSUME Inv, NEW s \in Servers, logic[s].at = "wait"
               PROVE  LET c == call[logic[s].req] IN
                        c.at = "done" \/ (c.at \in {"called", "found"} /\ c.server \in Servers)
    BY DEF WaitIsAnswered
  <2>1. logic[s].req \in Requests
    BY DEF Inv, BaseInv, RunInv, RequestPlace
  <2>2. call[logic[s].req].at \in {"none", "called", "found", "done"}
    BY <2>1 DEF Inv, BaseInv, TypeOK
  <2>3. call[logic[s].req].at # "none"
    BY DEF Inv, OnceInv
  <2>4. QED
    BY <2>1, <2>2, <2>3 DEF Inv, BaseInv, RunInv
<1>2. QED
  BY <1>1, InitAll, NextAll, PTL DEF Spec

Advances(s) == logic[s].at # "idle" =>
    /\ Serves(s) => StepsLeft(s)' < StepsLeft(s)
    /\ ~Serves(s) => StepsLeft(s)' = StepsLeft(s)

(* ... and every step of the handler, or of its call, takes it nearer to   *)
(* its end, while no step of anybody else takes it back: two servers whose *)
(* logic threads call each other hold neither of them up.                  *)
THEOREM HandlersAdvance == Spec => [][\A s \in Servers : Advances(s)]_vars
<1>1. Inv /\ [Next]_vars => [\A s \in Servers : Advances(s)]_vars
  <2> SUFFICES ASSUME Inv, [Next]_vars, NEW s \in Servers, logic[s].at # "idle"
               PROVE  /\ Serves(s) => StepsLeft(s)' < StepsLeft(s)
                      /\ ~Serves(s) => StepsLeft(s)' = StepsLeft(s)
    BY DEF Advances
  <2>1. QED
    BY PlaceDrops, CallDrops, OthersWait DEF Inv, Serves
<1>2. QED
  BY <1>1, InitAll, NextAll, PTL DEF Spec
=============================================================================
