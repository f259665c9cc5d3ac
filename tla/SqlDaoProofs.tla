---------------------------- MODULE SqlDaoProofs ----------------------------
(***************************************************************************)
(* Proofs about SqlDao, for any servers, users, requests, size of the pool *)
(* and number of faults.  A server that has not run AddFriend since its    *)
(* start has auto-commit on in all its connections, wherever they are, so  *)
(* what it writes is in the tables at once.  This needs that a server only *)
(* ever uses its own connections: SetAutoCommit of another server must not *)
(* reach them.  Each connection is in the pool or with one thread, which   *)
(* holds it only at the steps that need one (PlaceInv); half a friendship  *)
(* is only on the connection of a request between its two inserts and the  *)
(* end of its transaction (FriendInv).  A handler goes on from one         *)
(* function, step and friend to the next, and never back.                  *)
(***************************************************************************)
EXTENDS SqlDao, SequenceTheorems, TLAPS

(* The server's connections, and a connection wherever a step needs one. *)
OwnInv == \A s \in Servers :
    /\ pool[s] \in Seq(ConnsOf(s))
    /\ logic[s].con \in ConnsOf(s) \union {NoConn}
    /\ logic[s].con2 \in ConnsOf(s) \union {NoConn}
    /\ reader[s] \in ConnsOf(s) \union {NoConn}
    /\ logic[s].at \notin {"idle", "get"} => logic[s].con # NoConn
    /\ logic[s].at = "user" => logic[s].con2 # NoConn
    /\ logic[s].at # "idle" => logic[s].req # NoReq

CleanInv ==
    /\ \A s \in Servers \ befriended :
          /\ \A c \in ConnsOf(s) : auto[c] = TRUE
          /\ logic[s].at \notin {"insert", "insert2", "commit"}
          /\ logic[s].wrote \subseteq committed
    /\ safe \subseteq committed

IInv == TypeOK /\ OwnInv /\ CleanInv

AheadOK == ahead \in [Users \X Users -> SUBSET Users]

TablesOK ==
    /\ committed \subseteq Facts
    /\ pending \in [Conns -> SUBSET Facts]
    /\ locks \in [Conns -> SUBSET Rows(Facts)]
    /\ snapshot \in [Conns -> SUBSET SUBSET Facts]

-----------------------------------------------------------------------------
(* What a request writes are facts. *)
LEMMA FactsOf ==
  ASSUME NEW r \in Requests
  PROVE  {Applied(r), Answered(r), Authed(r), Friend(r), FriendBack(r)} \subseteq Facts
BY SqlDaoAssumption DEF Applied, Answered, Authed, Friend, FriendBack, Facts

LEMMA OwnConns == \A s \in Servers : ConnsOf(s) \subseteq Conns
BY DEF ConnsOf, Conns

LEMMA FreshPoolFacts ==
  ASSUME NEW s \in Servers
  PROVE  FreshPool(s) \in Seq(ConnsOf(s))
<1>1. FreshPool(s) \in [1..PoolSize -> ConnsOf(s)]
  BY DEF FreshPool, ConnsOf
<1>2. QED
  BY <1>1, SqlDaoAssumption, SeqDef

(* A statement writes what it is to write, at once if auto-commit is on. *)
LEMMA WriteFacts ==
  ASSUME IInv, NEW c \in Conns, NEW F \in SUBSET Facts, Write(c, F)
  PROVE  /\ TablesOK' /\ committed \subseteq committed'
         /\ auto[c] = TRUE => F \subseteq committed'
<1>1. Rows(F) \subseteq Rows(Facts)
  BY DEF Rows
<1>2. auto[c] \in BOOLEAN
  BY DEF IInv, TypeOK
<1>3. CASE auto[c] = TRUE
  BY <1>3 DEF Write, IInv, TypeOK, TablesOK
<1>4. CASE auto[c] = FALSE
  BY <1>1, <1>4 DEF Write, IInv, TypeOK, TablesOK
<1>5. QED
  BY <1>2, <1>3, <1>4

(* Ending transactions leaves the tables' types. *)
LEMMA EndFacts ==
  ASSUME IInv, NEW C \in SUBSET Conns, EndTransactions(C)
  PROVE  /\ pending' \in [Conns -> SUBSET Facts]
         /\ locks' \in [Conns -> SUBSET Rows(Facts)]
         /\ snapshot' \in [Conns -> SUBSET SUBSET Facts]
BY DEF EndTransactions, IInv, TypeOK

LEMMA ReadFacts ==
  ASSUME IInv, NEW c \in Conns
  PROVE  /\ View(c) \subseteq Facts
         /\ SnapshotAfterRead(c) \in [Conns -> SUBSET SUBSET Facts]
<1>1. pending[c] \subseteq Facts /\ UNION snapshot[c] \subseteq Facts /\ committed \subseteq Facts
  BY DEF IInv, TypeOK
<1>2. View(c) \subseteq Facts
  BY <1>1 DEF View
<1>3. SnapshotAfterRead(c) \in [Conns -> SUBSET SUBSET Facts]
  BY DEF SnapshotAfterRead, IInv, TypeOK
<1>4. QED
  BY <1>2, <1>3

-----------------------------------------------------------------------------
(* A new row is put behind the others of its user. *)
LEMMA AheadStep ==
  ASSUME IInv, NEW s \in Servers, logic[s].req \in Requests, AddFriendApply(s)
  PROVE  AheadOK'
<1> DEFINE r == logic[s].req
<1>1. ahead \in [Users \X Users -> SUBSET Users]
  BY DEF IInv, TypeOK
<1>2. Youngest(From[r], To[r]) \in [Users \X Users -> SUBSET Users]
  BY <1>1 DEF Youngest
<1>3. QED
  BY <1>1, <1>2 DEF AddFriendApply, AheadOK

(* What every step of a server's threads has to keep: the tables only      *)
(* grow, it is one server that moves, and it stays clean.                  *)
LEMMA ThreadInv ==
  ASSUME IInv, NEW s \in Servers,
         TablesOK', AheadOK', committed \subseteq committed',
         logic' \in [Servers -> LogicStates],
         \A t \in Servers \ {s} : logic'[t] = logic[t],
         pool' \in [Servers -> Seq(Conns)],
         \A t \in Servers \ {s} : pool'[t] = pool[t],
         pool'[s] \in Seq(ConnsOf(s)),
         reader' \in [Servers -> Conns \union {NoConn}],
         \A t \in Servers \ {s} : reader'[t] = reader[t],
         reader'[s] \in ConnsOf(s) \union {NoConn},
         logic'[s].con \in ConnsOf(s) \union {NoConn},
         logic'[s].con2 \in ConnsOf(s) \union {NoConn},
         logic'[s].at \notin {"idle", "get"} => logic'[s].con # NoConn,
         logic'[s].at = "user" => logic'[s].con2 # NoConn,
         logic'[s].at # "idle" => logic'[s].req # NoReq,
         UNCHANGED <<auto, begun, befriended>>,
         broken' \subseteq Conns, faults' \in 0..MaxFaults,
         reported' \subseteq Facts, safe' \subseteq Facts, safe' \subseteq committed',
         s \notin befriended => /\ logic'[s].at \notin {"insert", "insert2", "commit"}
                                /\ logic'[s].wrote \subseteq committed'
  PROVE  IInv'
<1>a. auto' \in [Conns -> BOOLEAN]
  BY DEF IInv, TypeOK
<1>b. begun' \subseteq Requests /\ befriended' \subseteq Servers
  BY DEF IInv, TypeOK
<1>c. /\ committed' \subseteq Facts /\ pending' \in [Conns -> SUBSET Facts]
      /\ locks' \in [Conns -> SUBSET Rows(Facts)]
      /\ snapshot' \in [Conns -> SUBSET SUBSET Facts]
  BY DEF TablesOK
<1>1. TypeOK'
  BY <1>a, <1>b, <1>c, Zenon DEF TypeOK, AheadOK
<1>2. OwnInv'
  <2>1. \A t \in Servers \ {s} :
            /\ pool'[t] \in Seq(ConnsOf(t))
            /\ logic'[t].con \in ConnsOf(t) \union {NoConn}
            /\ logic'[t].con2 \in ConnsOf(t) \union {NoConn}
            /\ reader'[t] \in ConnsOf(t) \union {NoConn}
            /\ logic'[t].at \notin {"idle", "get"} => logic'[t].con # NoConn
            /\ logic'[t].at = "user" => logic'[t].con2 # NoConn
            /\ logic'[t].at # "idle" => logic'[t].req # NoReq
    BY DEF IInv, OwnInv
  <2>2. QED
    BY <2>1 DEF OwnInv
<1>3. CleanInv'
  BY DEF IInv, CleanInv, ConnsOf
<1>4. QED
  BY <1>1, <1>2, <1>3 DEF IInv

-----------------------------------------------------------------------------
(* A step that touches neither the pool nor the gRPC thread. *)
LEMMA LogicInv ==
  ASSUME IInv, NEW s \in Servers,
         TablesOK', AheadOK', committed \subseteq committed',
         logic' \in [Servers -> LogicStates],
         \A t \in Servers \ {s} : logic'[t] = logic[t],
         logic'[s].con = logic[s].con, logic'[s].con2 = logic[s].con2,
         logic'[s].req = logic[s].req, logic[s].at \notin {"idle", "get"},
         logic'[s].at # "user" \/ logic[s].at = "user",
         UNCHANGED <<auto, pool, reader, history>>,
         broken' \subseteq Conns, faults' \in 0..MaxFaults,
         s \notin befriended => /\ logic'[s].at \notin {"insert", "insert2", "commit"}
                                /\ logic'[s].wrote \subseteq committed'
  PROVE  IInv'
<1>1. /\ pool \in [Servers -> Seq(Conns)] /\ reader \in [Servers -> Conns \union {NoConn}]
      /\ pool' = pool /\ reader' = reader /\ safe' = safe /\ reported' = reported
      /\ safe \subseteq committed /\ safe \subseteq Facts /\ reported \subseteq Facts
  BY DEF IInv, TypeOK, CleanInv, history
<1>2. UNCHANGED <<auto, begun, befriended>>
  BY DEF history
<1>3. /\ pool[s] \in Seq(ConnsOf(s)) /\ reader[s] \in ConnsOf(s) \union {NoConn}
      /\ logic[s].con \in ConnsOf(s) \union {NoConn} /\ logic[s].con # NoConn
      /\ logic[s].con2 \in ConnsOf(s) \union {NoConn} 
      /\ logic[s].at = "user" => logic[s].con2 # NoConn
      /\ logic[s].req # NoReq
  BY DEF IInv, OwnInv
<1>4. QED
  BY <1>1, <1>2, <1>3, ThreadInv

(* A statement of the logic thread that writes F, or nothing. *)
LEMMA WriteInv ==
  ASSUME IInv, NEW s \in Servers,
         AddFriendApply(s) \/ AuthFriendApply(s) \/ InsertFriend(s) \/ InsertFriendBack(s)
  PROVE  IInv'
<1> DEFINE c == logic[s].con  r == logic[s].req
<1>1. c \in Conns /\ c \in ConnsOf(s) /\ r \in Requests /\ logic[s] \in LogicStates
  BY OwnConns DEF AddFriendApply, AuthFriendApply, InsertFriend, InsertFriendBack, At, Goes,
                  IInv, OwnInv, TypeOK, LogicStates
<1>2. PICK F \in SUBSET Facts, G \in SUBSET Facts, to \in {"return", "insert2", "commit"} :
         /\ Write(c, F) /\ (G = F \/ G = {})
         /\ logic' = [logic EXCEPT ![s].at = to, ![s].wrote = @ \union G]
         /\ to # "return" => logic[s].at \in {"insert", "insert2"}
  <2>1. CASE AddFriendApply(s)
    BY <1>1, <2>1, FactsOf DEF AddFriendApply, Wrote
  <2>2. CASE AuthFriendApply(s)
    BY <1>1, <2>2, FactsOf DEF AuthFriendApply, Wrote
  <2>3. CASE InsertFriend(s)
    <3>1. logic' = [logic EXCEPT ![s].at = "insert2", ![s].wrote = @ \union {}]
      BY <1>1, <2>3 DEF InsertFriend, Goes, IInv, TypeOK, LogicStates
    <3>2. QED
      BY <1>1, <2>3, <3>1, FactsOf DEF InsertFriend, Goes
  <2>4. CASE InsertFriendBack(s)
    <3>1. logic' = [logic EXCEPT ![s].at = "commit", ![s].wrote = @ \union {}]
      BY <1>1, <2>4 DEF InsertFriendBack, Goes, IInv, TypeOK, LogicStates
    <3>2. QED
      BY <1>1, <2>4, <3>1, FactsOf DEF InsertFriendBack, Goes
  <2>5. QED
    BY <2>1, <2>2, <2>3, <2>4
<1>3. UNCHANGED <<auto, broken, faults, pool, reader, history>> /\ AheadOK'
  <2>1. CASE AddFriendApply(s)
    BY <1>1, <2>1, AheadStep DEF AddFriendApply
  <2>2. CASE AuthFriendApply(s) \/ InsertFriend(s) \/ InsertFriendBack(s)
    BY <2>2 DEF AuthFriendApply, InsertFriend, InsertFriendBack, state, AheadOK, IInv, TypeOK
  <2>3. QED
    BY <2>1, <2>2
<1>4. TablesOK' /\ committed \subseteq committed' /\ (auto[c] = TRUE => F \subseteq committed')
  BY <1>1, <1>2, WriteFacts
<1>5. /\ logic' \in [Servers -> LogicStates]
      /\ \A t \in Servers \ {s} : logic'[t] = logic[t]
      /\ logic'[s].at = to /\ logic'[s].wrote = logic[s].wrote \union G
      /\ logic'[s].con = c /\ logic'[s].con2 = logic[s].con2 /\ logic'[s].req = r
  BY <1>1, <1>2 DEF IInv, TypeOK, LogicStates
<1>6. broken' \subseteq Conns /\ faults' \in 0..MaxFaults
  BY <1>3 DEF IInv, TypeOK
<1>7. s \notin befriended => /\ logic'[s].at \notin {"insert", "insert2", "commit"}
                             /\ logic'[s].wrote \subseteq committed'
  BY <1>1, <1>2, <1>4, <1>5 DEF IInv, CleanInv
<1>8. logic[s].at \notin {"idle", "get"} /\ logic'[s].at # "user"
  BY <1>5 DEF AddFriendApply, AuthFriendApply, InsertFriend, InsertFriendBack, At, Goes
<1>9. QED
  BY <1>3, <1>4, <1>5, <1>6, <1>7, <1>8, LogicInv

(* Commit, rollback, and statements that fail. *)
LEMMA EndInv ==
  ASSUME IInv, NEW s \in Servers,
         Commit(s) \/ CommitFails(s) \/ Rollback(s) \/ StatementFails(s)
  PROVE  IInv'
<1> DEFINE c == logic[s].con
<1>1. /\ c \in Conns /\ logic[s] \in LogicStates
      /\ logic[s].at \in {"run", "insert", "insert2", "commit", "rollback"}
  BY OwnConns DEF Commit, CommitFails, Rollback, StatementFails, Goes, IInv, OwnInv, TypeOK,
                  LogicStates
<1>2. /\ pending' \in [Conns -> SUBSET Facts] /\ locks' \in [Conns -> SUBSET Rows(Facts)]
      /\ snapshot' \in [Conns -> SUBSET SUBSET Facts]
  BY <1>1, EndFacts DEF Commit, CommitFails, Rollback, StatementFails
<1>3. pending[c] \subseteq Facts /\ committed \subseteq Facts
  BY <1>1 DEF IInv, TypeOK
<1>4. TablesOK' /\ committed \subseteq committed'
  BY <1>2, <1>3 DEF Commit, CommitFails, Rollback, StatementFails, TablesOK
<1>5. PICK to \in {"return", "rollback"}, G \in SUBSET Facts :
         /\ logic' = [logic EXCEPT ![s].at = to, ![s].wrote = @ \union G]
         /\ G # {} => logic[s].at = "commit"
  <2>1. CASE Commit(s)
    <3>1. logic[s].req \in Requests
      BY <1>1 DEF IInv, OwnInv, TypeOK, LogicStates
    <3>2. {Friend(logic[s].req), FriendBack(logic[s].req)} \in SUBSET Facts
      BY <3>1, FactsOf
    <3>3. QED
      BY <2>1, <3>2 DEF Commit, Wrote
  <2>2. CASE CommitFails(s) \/ Rollback(s) \/ StatementFails(s)
    <3>1. PICK to \in {"return", "rollback"} : logic' = [logic EXCEPT ![s].at = to]
      BY <2>2 DEF CommitFails, Rollback, StatementFails, Goes, AfterException
    <3>2. logic' = [logic EXCEPT ![s].at = to, ![s].wrote = @ \union {}]
      BY <1>1, <3>1 DEF IInv, TypeOK, LogicStates
    <3>3. QED
      BY <3>2
  <2>3. QED
    BY <2>1, <2>2
<1>6. /\ logic' \in [Servers -> LogicStates]
      /\ \A t \in Servers \ {s} : logic'[t] = logic[t]
      /\ logic'[s].at = to /\ logic'[s].wrote = logic[s].wrote \union G
      /\ logic'[s].con = c /\ logic'[s].con2 = logic[s].con2 /\ logic'[s].req = logic[s].req
  BY <1>1, <1>5 DEF IInv, TypeOK, LogicStates
<1>7. UNCHANGED <<auto, pool, reader, history>> /\ AheadOK'
  BY DEF Commit, CommitFails, Rollback, StatementFails, state, AheadOK, IInv, TypeOK
<1>8. broken' \subseteq Conns
  BY <1>1 DEF Commit, CommitFails, Rollback, StatementFails, state, IInv, TypeOK
<1>9. faults' \in 0..MaxFaults
  <2>1. faults \in 0..MaxFaults /\ MaxFaults \in Nat
    BY SqlDaoAssumption DEF IInv, TypeOK
  <2>2. faults' = faults \/ (faults < MaxFaults /\ faults' = faults + 1)
    BY DEF Commit, CommitFails, Rollback, StatementFails
  <2>3. QED
    BY <2>1, <2>2
<1>10. s \notin befriended => /\ logic'[s].at \notin {"insert", "insert2", "commit"}
                              /\ logic'[s].wrote \subseteq committed'
  BY <1>4, <1>5, <1>6 DEF IInv, CleanInv
<1>11. QED
  BY <1>1, <1>4, <1>6, <1>7, <1>8, <1>9, <1>10, LogicInv

(* The reads of a login over the thread's own connection. *)
LEMMA ListInv ==
  ASSUME IInv, NEW s \in Servers, GetApplyList(s) \/ GetFriendList(s)
  PROVE  IInv'
<1> DEFINE c == logic[s].con
<1>1. c \in Conns /\ logic[s] \in LogicStates /\ logic[s].at = "run"
  BY OwnConns DEF GetApplyList, GetFriendList, At, IInv, OwnInv, TypeOK, LogicStates
<1>2. snapshot' \in [Conns -> SUBSET SUBSET Facts] /\ View(c) \subseteq Facts
  BY <1>1, ReadFacts DEF GetApplyList, GetFriendList
<1>3. TablesOK' /\ committed \subseteq committed'
  BY <1>2 DEF GetApplyList, GetFriendList, TablesOK, IInv, TypeOK
<1>4. PICK to \in {"return", "getuser"}, list \in SUBSET Facts, left \in SUBSET Users :
         logic' = [logic EXCEPT ![s].at = to, ![s].list = list, ![s].left = left]
  <2>1. CASE GetApplyList(s)
    <3>1. PICK list \in SUBSET Facts :
             logic' = [logic EXCEPT ![s].at = "return", ![s].list = list]
      <4> DEFINE u == From[logic[s].req]
                 list == {f \in ApplyRows(View(c), u) : Older(View(c), f) < ListLimit}
      <4>1. list \in SUBSET Facts
        BY <1>2 DEF ApplyRows
      <4>2. logic' = [logic EXCEPT ![s].at = "return", ![s].list = list]
        BY <2>1 DEF GetApplyList
      <4> HIDE DEF list
      <4>3. QED
        BY <4>1, <4>2
    <3>2. logic' = [logic EXCEPT ![s].at = "return", ![s].list = list,
                                 ![s].left = logic[s].left]
      BY <1>1, <3>1 DEF IInv, TypeOK, LogicStates
    <3>3. QED
      BY <1>1, <3>2 DEF LogicStates
  <2>2. CASE GetFriendList(s)
    <3>1. PICK left \in SUBSET Users, to \in {"return", "getuser"} :
             logic' = [logic EXCEPT ![s].left = left, ![s].at = to]
      BY <2>2 DEF GetFriendList
    <3>2. logic' = [logic EXCEPT ![s].at = to, ![s].list = logic[s].list, ![s].left = left]
      BY <1>1, <3>1 DEF IInv, TypeOK, LogicStates
    <3>3. QED
      BY <1>1, <3>2 DEF LogicStates
  <2>3. QED
    BY <2>1, <2>2
<1>5. /\ logic' \in [Servers -> LogicStates]
      /\ \A t \in Servers \ {s} : logic'[t] = logic[t]
      /\ logic'[s].at = to /\ logic'[s].wrote = logic[s].wrote
      /\ logic'[s].con = c /\ logic'[s].con2 = logic[s].con2 /\ logic'[s].req = logic[s].req
  BY <1>1, <1>4 DEF IInv, TypeOK, LogicStates
<1>6. UNCHANGED <<ahead, auto, broken, faults, pool, reader, history>>
  BY DEF GetApplyList, GetFriendList, state
<1>7. broken' \subseteq Conns /\ faults' \in 0..MaxFaults /\ AheadOK'
  BY <1>6 DEF IInv, TypeOK, AheadOK
<1>8. s \notin befriended => /\ logic'[s].at \notin {"insert", "insert2", "commit"}
                             /\ logic'[s].wrote \subseteq committed'
  BY <1>3, <1>5 DEF IInv, CleanInv
<1>9. QED
  BY <1>1, <1>3, <1>5, <1>6, <1>7, <1>8, LogicInv

-----------------------------------------------------------------------------
(* AddFriend turns auto-commit off on a connection of its own server. *)
LEMMA SetAutoCommitInv ==
  ASSUME IInv, NEW s \in Servers, SetAutoCommit(s)
  PROVE  IInv'
<1> DEFINE c == logic[s].con
<1>1. c \in ConnsOf(s) /\ c \in Conns /\ logic[s] \in LogicStates /\ logic[s].at = "run"
  BY OwnConns DEF SetAutoCommit, At, IInv, OwnInv, TypeOK, LogicStates
<1>2. logic' = [logic EXCEPT ![s].at = "insert"]
  BY DEF SetAutoCommit, Goes
<1>3. /\ logic' \in [Servers -> LogicStates]
      /\ \A t \in Servers \ {s} : logic'[t] = logic[t]
      /\ logic'[s].at = "insert" /\ logic'[s].con = c
      /\ logic'[s].con2 = logic[s].con2 /\ logic'[s].req = logic[s].req
  BY <1>1, <1>2 DEF IInv, TypeOK, LogicStates
<1>4. /\ UNCHANGED <<tables, ahead, broken, pool, reader, begun, reported, safe, faults>>
      /\ auto' = [auto EXCEPT ![c] = FALSE] /\ befriended' = befriended \union {s}
  BY DEF SetAutoCommit
<1>5. auto' \in [Conns -> BOOLEAN] /\ \A d \in Conns \ {c} : auto'[d] = auto[d]
  BY <1>1, <1>4 DEF IInv, TypeOK
<1>6. TypeOK'
  BY <1>3, <1>4, <1>5 DEF IInv, TypeOK, tables
<1>7. OwnInv'
  BY <1>1, <1>3, <1>4 DEF IInv, OwnInv
<1>8. \A t \in Servers \ {s} : c \notin ConnsOf(t)
  BY <1>1 DEF ConnsOf
<1>9. CleanInv'
  BY <1>3, <1>4, <1>5, <1>8, OwnConns DEF IInv, CleanInv, tables
<1>10. QED
  BY <1>6, <1>7, <1>9 DEF IInv

-----------------------------------------------------------------------------
(* Steps that take a connection from the pool. *)
LEMMA TakeInv ==
  ASSUME IInv, NEW s \in Servers, GetConnection(s) \/ GetUserTakes(s) \/ ReaderTakes(s)
  PROVE  IInv'
<1>1. /\ pool[s] \in Seq(ConnsOf(s)) /\ pool[s] # <<>> /\ pool \in [Servers -> Seq(Conns)]
      /\ pool[s] \in Seq(Conns)
  BY DEF GetConnection, GetUserTakes, ReaderTakes, IInv, OwnInv, TypeOK
<1>2. pool' = [pool EXCEPT ![s] = Tail(@)]
  BY DEF GetConnection, GetUserTakes, ReaderTakes
<1>3. /\ Head(pool[s]) \in ConnsOf(s) /\ Head(pool[s]) \in Conns
      /\ Tail(pool[s]) \in Seq(ConnsOf(s)) /\ Tail(pool[s]) \in Seq(Conns)
  BY <1>1
<1>4. /\ pool' \in [Servers -> Seq(Conns)] /\ pool'[s] \in Seq(ConnsOf(s))
      /\ \A t \in Servers \ {s} : pool'[t] = pool[t]
  BY <1>1, <1>2, <1>3
<1>5. NoConn \notin ConnsOf(s)
  BY OwnConns, SqlDaoAssumption
<1>6. logic[s] \in LogicStates /\ logic \in [Servers -> LogicStates]
  BY DEF IInv, TypeOK
<1>7. /\ logic[s].con \in ConnsOf(s) \union {NoConn}
      /\ logic[s].con2 \in ConnsOf(s) \union {NoConn}
      /\ logic[s].at \notin {"idle", "get"} => logic[s].con # NoConn
      /\ logic[s].at = "user" => logic[s].con2 # NoConn
      /\ logic[s].at # "idle" => logic[s].req # NoReq
  BY DEF IInv, OwnInv
<1>8. /\ logic' \in [Servers -> LogicStates]
      /\ \A t \in Servers \ {s} : logic'[t] = logic[t]
      /\ logic'[s].con \in ConnsOf(s) \union {NoConn}
      /\ logic'[s].con2 \in ConnsOf(s) \union {NoConn}
      /\ logic'[s].at \notin {"idle", "get"} => logic'[s].con # NoConn
      /\ logic'[s].at = "user" => logic'[s].con2 # NoConn
      /\ logic'[s].at # "idle" => logic'[s].req # NoReq
      /\ logic'[s].wrote = logic[s].wrote
      /\ logic'[s].at \in {"run", "user"} \/ logic'[s].at = logic[s].at
  <2>1. CASE GetConnection(s)
    BY <1>3, <1>5, <1>6, <1>7, <2>1 DEF GetConnection, LogicStates
  <2>2. CASE GetUserTakes(s)
    BY <1>3, <1>5, <1>6, <1>7, <2>2 DEF GetUserTakes, LogicStates
  <2>3. CASE ReaderTakes(s)
    BY <1>6, <1>7, <2>3 DEF ReaderTakes
  <2>4. QED
    BY <2>1, <2>2, <2>3
<1>9. /\ reader' \in [Servers -> Conns \union {NoConn}]
      /\ \A t \in Servers \ {s} : reader'[t] = reader[t]
      /\ reader'[s] \in ConnsOf(s) \union {NoConn}
  BY <1>3 DEF GetConnection, GetUserTakes, ReaderTakes, IInv, OwnInv, TypeOK
<1>10. UNCHANGED <<tables, state, history, faults>>
  BY DEF GetConnection, GetUserTakes, ReaderTakes
<1>11. /\ UNCHANGED <<auto, begun, befriended>>
       /\ committed' = committed /\ reported' = reported /\ safe' = safe
       /\ broken' = broken /\ faults' = faults
  BY <1>10 DEF tables, state, history
<1>12. TablesOK' /\ AheadOK' /\ broken' \subseteq Conns /\ faults' \in 0..MaxFaults
  BY <1>10 DEF TablesOK, AheadOK, tables, state, IInv, TypeOK
<1>13. reported' \subseteq Facts /\ safe' \subseteq Facts /\ safe' \subseteq committed'
  BY <1>11 DEF IInv, TypeOK, CleanInv
<1>14. s \notin befriended => /\ logic'[s].at \notin {"insert", "insert2", "commit"}
                              /\ logic'[s].wrote \subseteq committed'
  BY <1>8, <1>11 DEF IInv, CleanInv
<1>15. QED
  BY <1>4, <1>8, <1>9, <1>11, <1>12, <1>13, <1>14, ThreadInv

(* Steps that give a connection back. *)
LEMMA GiveInv ==
  ASSUME IInv, NEW s \in Servers, NEW c,
         \/ ReturnConnection(s) /\ c = logic[s].con
         \/ GetUserReturns(s) /\ c = logic[s].con2
         \/ ReaderReturns(s) /\ c = reader[s]
  PROVE  IInv'
<1>1. /\ logic[s] \in LogicStates /\ logic \in [Servers -> LogicStates]
      /\ logic[s].con \in ConnsOf(s) \union {NoConn}
      /\ logic[s].con2 \in ConnsOf(s) \union {NoConn}
      /\ logic[s].at \notin {"idle", "get"} => logic[s].con # NoConn
      /\ logic[s].at = "user" => logic[s].con2 # NoConn
      /\ logic[s].at # "idle" => logic[s].req # NoReq
      /\ reader[s] \in ConnsOf(s) \union {NoConn}
      /\ pool[s] \in Seq(ConnsOf(s)) /\ pool \in [Servers -> Seq(Conns)]
      /\ reader \in [Servers -> Conns \union {NoConn}]
  BY DEF IInv, OwnInv, TypeOK
<1>2. c \in ConnsOf(s) /\ c \in Conns
  BY <1>1, OwnConns DEF ReturnConnection, GetUserReturns, ReaderReturns
<1>3. pool' = [pool EXCEPT ![s] = Append(@, c)]
  BY DEF ReturnConnection, GetUserReturns, ReaderReturns
<1>4. Append(pool[s], c) \in Seq(ConnsOf(s)) /\ Append(pool[s], c) \in Seq(Conns)
  <2>1. pool[s] \in Seq(Conns)
    BY <1>1
  <2>2. QED
    BY <1>1, <1>2, <2>1
<1>5. /\ pool' \in [Servers -> Seq(Conns)] /\ pool'[s] \in Seq(ConnsOf(s))
      /\ \A t \in Servers \ {s} : pool'[t] = pool[t]
  BY <1>1, <1>3, <1>4
<1>6. /\ logic' \in [Servers -> LogicStates]
      /\ \A t \in Servers \ {s} : logic'[t] = logic[t]
      /\ logic'[s].con \in ConnsOf(s) \union {NoConn}
      /\ logic'[s].con2 \in ConnsOf(s) \union {NoConn}
      /\ logic'[s].at \notin {"idle", "get"} => logic'[s].con # NoConn
      /\ logic'[s].at = "user" => logic'[s].con2 # NoConn
      /\ logic'[s].at # "idle" => logic'[s].req # NoReq
      /\ logic'[s].wrote \in {logic[s].wrote, {}}
      /\ logic'[s].at \in {"idle", "get", "return", "getuser"} \/ logic'[s].at = logic[s].at
  <2>1. CASE ReturnConnection(s)
    <3>1. CASE NextCall(logic[s].call) # "none"
      <4>1. logic' = [logic EXCEPT ![s].at = "get", ![s].call = NextCall(logic[s].call),
                                   ![s].con = NoConn]
        BY <2>1, <3>1 DEF ReturnConnection
      <4>2. NextCall(logic[s].call) \in {"AddFriend", "GetFriendList", "none"}
        BY <1>1 DEF NextCall, LogicStates
      <4>3. logic[s].at = "return"
        BY <2>1 DEF ReturnConnection
      <4>4. QED
        BY <1>1, <4>1, <4>2, <4>3 DEF LogicStates
    <3>2. CASE NextCall(logic[s].call) = "none"
      <4>1. logic' = [logic EXCEPT ![s] = Idle]
        BY <2>1, <3>2 DEF ReturnConnection
      <4>2. /\ Idle \in LogicStates /\ Idle.at = "idle" /\ Idle.wrote = {}
            /\ Idle.con = NoConn /\ Idle.con2 = NoConn
        BY DEF Idle, LogicStates
      <4>3. QED
        BY <1>1, <4>1, <4>2
    <3>3. QED
      BY <3>1, <3>2
  <2>2. CASE GetUserReturns(s)
    <3>1. logic[s].at = "user"
      BY <2>2 DEF GetUserReturns
    <3>2. PICK v \in logic[s].left, to \in {"return", "getuser"} :
             logic' = [logic EXCEPT ![s].left = @ \ {v}, ![s].con2 = NoConn, ![s].at = to]
      BY <2>2 DEF GetUserReturns
    <3>3. QED
      BY <1>1, <3>1, <3>2 DEF LogicStates
  <2>3. CASE ReaderReturns(s)
    BY <1>1, <2>3 DEF ReaderReturns
  <2>4. QED
    BY <2>1, <2>2, <2>3
<1>7. /\ reader' \in [Servers -> Conns \union {NoConn}]
      /\ \A t \in Servers \ {s} : reader'[t] = reader[t]
      /\ reader'[s] \in ConnsOf(s) \union {NoConn}
  BY <1>1 DEF ReturnConnection, GetUserReturns, ReaderReturns
<1>8. /\ UNCHANGED <<auto, begun, befriended>>
      /\ committed' = committed /\ broken' = broken /\ faults' = faults
      /\ pending' = pending /\ locks' = locks /\ ahead' = ahead
  BY DEF ReturnConnection, GetUserReturns, ReaderReturns, tables, state, history
<1>9. snapshot' \in [Conns -> SUBSET SUBSET Facts]
  <2>1. snapshot \in [Conns -> SUBSET SUBSET Facts]
    BY DEF IInv, TypeOK
  <2>2. snapshot' = snapshot \/ snapshot' = SnapshotAfterRead(c)
    BY DEF ReturnConnection, GetUserReturns, ReaderReturns, Reads, tables
  <2>3. QED
    BY <1>2, <2>1, <2>2, ReadFacts
<1>10. TablesOK' /\ AheadOK' /\ broken' \subseteq Conns /\ faults' \in 0..MaxFaults
  BY <1>8, <1>9 DEF TablesOK, AheadOK, IInv, TypeOK
<1>11. s \notin befriended => logic[s].wrote \subseteq committed
  BY DEF IInv, CleanInv
<1>12. reported' \subseteq Facts /\ safe' \subseteq Facts /\ safe' \subseteq committed'
  <2>1. logic[s].wrote \subseteq Facts
    BY <1>1 DEF LogicStates
  <2>2. \/ reported' = reported /\ safe' = safe
        \/ /\ reported' = reported \union logic[s].wrote
           /\ safe' = IF s \in befriended THEN safe ELSE safe \union logic[s].wrote
    BY DEF ReturnConnection, GetUserReturns, ReaderReturns, history
  <2>3. reported \subseteq Facts /\ safe \subseteq Facts /\ safe \subseteq committed
    BY DEF IInv, TypeOK, CleanInv
  <2>4. QED
    BY <1>8, <1>11, <2>1, <2>2, <2>3
<1>13. s \notin befriended => /\ logic'[s].at \notin {"insert", "insert2", "commit"}
                              /\ logic'[s].wrote \subseteq committed'
  BY <1>6, <1>8 DEF IInv, CleanInv
<1>14. committed \subseteq committed'
  BY <1>8
<1>15. QED
  BY <1>5, <1>6, <1>7, <1>8, <1>10, <1>12, <1>13, <1>14, ThreadInv

-----------------------------------------------------------------------------
LEMMA IdleFacts ==
  /\ Idle \in LogicStates /\ Idle.at = "idle" /\ Idle.wrote = {}
  /\ Idle.con = NoConn /\ Idle.con2 = NoConn
BY DEF Idle, LogicStates

LEMMA BeginInv ==
  ASSUME IInv, NEW s \in Servers, NEW r \in Requests, Begin(s, r)
  PROVE  IInv'
<1> DEFINE call == FirstCall[Kind[r]]  l == [Idle EXCEPT !.at = "get", !.req = r, !.call = call]
<1>1. call \in {"AddFriendApply", "AuthFriendApply", "GetApplyList"}
  BY SqlDaoAssumption DEF FirstCall
<1>2. /\ l \in LogicStates /\ l.at = "get" /\ l.wrote = {} /\ l.req = r
      /\ l.con = NoConn /\ l.con2 = NoConn
  BY <1>1 DEF Idle, LogicStates
<1>3. logic' = [logic EXCEPT ![s] = l] /\ logic \in [Servers -> LogicStates]
  BY DEF Begin, IInv, TypeOK
<1>4. /\ logic' \in [Servers -> LogicStates] /\ logic'[s] = l
      /\ \A t \in Servers \ {s} : logic'[t] = logic[t]
  BY <1>2, <1>3
<1>5. /\ UNCHANGED <<tables, state, pool, reader, reported, befriended, safe, faults>>
      /\ begun' = begun \union {r}
  BY DEF Begin
<1>6. TypeOK'
  <2>1. begun' \subseteq Requests
    BY <1>5 DEF IInv, TypeOK
  <2>2. /\ UNCHANGED <<committed, pending, locks, snapshot, ahead, auto, broken>>
        /\ UNCHANGED <<pool, reader, reported, befriended, safe, faults>>
    BY <1>5 DEF tables, state
  <2>3. QED
    BY <1>4, <2>1, <2>2 DEF IInv, TypeOK
<1>7. r # NoReq
  BY SqlDaoAssumption
<1>8. OwnInv'
  BY <1>2, <1>4, <1>5, <1>7 DEF IInv, OwnInv
<1>9. CleanInv'
  BY <1>2, <1>4, <1>5 DEF IInv, CleanInv, tables, state
<1>10. QED
  BY <1>6, <1>8, <1>9 DEF IInv

(* A lost connection, and the check that replaces it: auto-commit can only *)
(* be turned on by that.                                                   *)
LEMMA BrokenInv ==
  ASSUME IInv, (\E c \in Conns : Breaks(c)) \/ (\E s \in Servers : CheckConnection(s))
  PROVE  IInv'
<1>1. /\ UNCHANGED <<committed, ahead, pool, logic, reader, history>>
      /\ broken' \subseteq Conns
  BY DEF Breaks, CheckConnection, tables, IInv, TypeOK
<1>2. TablesOK'
  BY EndFacts DEF Breaks, CheckConnection, tables, TablesOK, IInv, TypeOK
<1>3. auto' \in [Conns -> BOOLEAN] /\ \A c \in Conns : auto[c] = TRUE => auto'[c] = TRUE
  BY DEF Breaks, CheckConnection, IInv, TypeOK
<1>4. faults' \in 0..MaxFaults
  <2>1. faults \in 0..MaxFaults /\ MaxFaults \in Nat
    BY SqlDaoAssumption DEF IInv, TypeOK
  <2>2. faults' = faults \/ (faults < MaxFaults /\ faults' = faults + 1)
    BY DEF Breaks, CheckConnection
  <2>3. QED
    BY <2>1, <2>2
<1>5. TypeOK'
  BY <1>1, <1>2, <1>3, <1>4 DEF IInv, TypeOK, TablesOK, history
<1>6. OwnInv'
  BY <1>1 DEF IInv, OwnInv
<1>7. CleanInv'
  BY <1>1, <1>3, OwnConns DEF IInv, CleanInv, history
<1>8. QED
  BY <1>5, <1>6, <1>7 DEF IInv

(* A server that starts again has new connections and has forgotten the    *)
(* request it was handling.                                                *)
LEMMA RestartInv ==
  ASSUME IInv, NEW s \in Servers, Crash(s) \/ Terminates(s)
  PROVE  IInv'
<1>1. Restart(s)
  BY DEF Crash, Terminates
<1>2. faults' \in 0..MaxFaults
  <2>1. faults \in 0..MaxFaults /\ MaxFaults \in Nat
    BY SqlDaoAssumption DEF IInv, TypeOK
  <2>2. faults' = faults \/ (faults < MaxFaults /\ faults' = faults + 1)
    BY DEF Crash, Terminates
  <2>3. QED
    BY <2>1, <2>2
<1>3. /\ pending' \in [Conns -> SUBSET Facts] /\ locks' \in [Conns -> SUBSET Rows(Facts)]
      /\ snapshot' \in [Conns -> SUBSET SUBSET Facts]
  BY <1>1, OwnConns, EndFacts DEF Restart
<1>4. /\ auto' \in [Conns -> BOOLEAN]
      /\ \A c \in Conns : auto[c] = TRUE \/ c \in ConnsOf(s) => auto'[c] = TRUE
  BY <1>1 DEF Restart, IInv, TypeOK
<1>5. FreshPool(s) \in Seq(ConnsOf(s)) /\ FreshPool(s) \in Seq(Conns)
  BY FreshPoolFacts, OwnConns
<1>6. /\ pool' \in [Servers -> Seq(Conns)] /\ pool'[s] \in Seq(ConnsOf(s))
      /\ \A t \in Servers \ {s} : pool'[t] = pool[t]
  BY <1>1, <1>5 DEF Restart, IInv, TypeOK
<1>7. /\ logic' \in [Servers -> LogicStates] /\ logic'[s] = Idle
      /\ \A t \in Servers \ {s} : logic'[t] = logic[t]
  BY <1>1, IdleFacts DEF Restart, IInv, TypeOK
<1>8. /\ reader' \in [Servers -> Conns \union {NoConn}] /\ reader'[s] = NoConn
      /\ \A t \in Servers \ {s} : reader'[t] = reader[t]
  BY <1>1 DEF Restart, IInv, TypeOK
<1>9. /\ broken' \subseteq Conns /\ befriended' = befriended \ {s}
      /\ UNCHANGED <<committed, ahead, begun, reported, safe>>
  BY <1>1 DEF Restart, IInv, TypeOK
<1>10. TypeOK'
  BY <1>2, <1>3, <1>4, <1>6, <1>7, <1>8, <1>9 DEF IInv, TypeOK
<1>11. OwnInv'
  <2>1. \A t \in Servers \ {s} :
            /\ pool'[t] \in Seq(ConnsOf(t))
            /\ logic'[t].con \in ConnsOf(t) \union {NoConn}
            /\ logic'[t].con2 \in ConnsOf(t) \union {NoConn}
            /\ reader'[t] \in ConnsOf(t) \union {NoConn}
            /\ logic'[t].at \notin {"idle", "get"} => logic'[t].con # NoConn
            /\ logic'[t].at = "user" => logic'[t].con2 # NoConn
            /\ logic'[t].at # "idle" => logic'[t].req # NoReq
    BY <1>6, <1>7, <1>8 DEF IInv, OwnInv
  <2>2. QED
    BY <1>6, <1>7, <1>8, <2>1, IdleFacts DEF OwnInv
<1>12. CleanInv'
  BY <1>4, <1>7, <1>9, OwnConns, IdleFacts DEF IInv, CleanInv
<1>13. QED
  BY <1>10, <1>11, <1>12 DEF IInv

-----------------------------------------------------------------------------
LEMMA InitInv == Init => IInv
<1> SUFFICES ASSUME Init PROVE IInv
  OBVIOUS
<1>1. ASSUME NEW s \in Servers
      PROVE  FreshPool(s) \in Seq(ConnsOf(s)) /\ FreshPool(s) \in Seq(Conns)
  <2>1. FreshPool(s) \in Seq(ConnsOf(s)) /\ ConnsOf(s) \subseteq Conns
    BY FreshPoolFacts, OwnConns
  <2>2. QED
    BY <2>1
<1>2. MaxFaults \in Nat
  BY SqlDaoAssumption
<1>3. /\ pool \in [Servers -> Seq(Conns)] /\ \A s \in Servers : pool[s] \in Seq(ConnsOf(s))
  BY <1>1 DEF Init
<1>4. logic \in [Servers -> LogicStates] /\ \A s \in Servers : logic[s] = Idle
  BY IdleFacts DEF Init
<1>5. auto \in [Conns -> BOOLEAN] /\ \A c \in Conns : auto[c] = TRUE
  BY DEF Init
<1>6. faults \in 0..MaxFaults
  BY <1>2 DEF Init
<1>7. TypeOK
  <2>1. committed \subseteq Facts /\ ahead \in [Users \X Users -> SUBSET Users]
    BY SqlDaoAssumption DEF Init, Facts
  <2>2. QED
    BY <1>3, <1>4, <1>5, <1>6, <2>1 DEF Init, TypeOK
<1>8. OwnInv
  BY <1>3, <1>4, IdleFacts DEF Init, OwnInv
<1>9. CleanInv
  BY <1>4, <1>5, IdleFacts, OwnConns DEF Init, CleanInv
<1>10. QED
  BY <1>7, <1>8, <1>9 DEF IInv

LEMMA NextInv == IInv /\ [Next]_vars => IInv'
<1> SUFFICES ASSUME IInv, [Next]_vars PROVE IInv'
  OBVIOUS
<1>1. CASE UNCHANGED vars
  <2>1. UNCHANGED <<committed, pending, locks, snapshot, ahead, auto, broken, pool, logic, reader,
                    begun, reported, befriended, safe, faults>>
    BY <1>1 DEF vars, tables, state, history
  <2>2. TypeOK'
    BY <2>1 DEF IInv, TypeOK
  <2>3. QED
    BY <2>1, <2>2 DEF IInv, OwnInv, CleanInv
<1>2. CASE Next
  <2>1. CASE \E c \in Conns : Breaks(c)
    BY <2>1, BrokenInv
  <2>2. ASSUME NEW s \in Servers,
               \/ \E r \in Requests : Begin(s, r)
               \/ Gets(s) \/ Statement(s) \/ ReturnConnection(s)
               \/ ReaderTakes(s) \/ ReaderReturns(s)
               \/ CheckConnection(s) \/ Crash(s) \/ Terminates(s)
        PROVE  IInv'
    <3>1. CASE Statement(s)
      BY <3>1, WriteInv, EndInv, ListInv, SetAutoCommitInv, GiveInv DEF Statement
    <3>2. CASE Gets(s) \/ ReaderTakes(s)
      BY <3>2, TakeInv DEF Gets
    <3>3. CASE ReturnConnection(s) \/ ReaderReturns(s)
      BY <3>3, GiveInv
    <3>4. QED
      BY <2>2, <3>1, <3>2, <3>3, BeginInv, BrokenInv, RestartInv
  <2>3. QED
    BY <1>2, <2>1, <2>2 DEF Next
<1>3. QED
  BY <1>1, <1>2

(* Every variable keeps its type, and the threads of a server, wherever    *)
(* they are, have connections of their own server's pool, one wherever a   *)
(* step of theirs needs one: GetConnection and ReturnConnection of one     *)
(* server never touch another's.                                           *)
THEOREM TypeCorrect == Spec => [](TypeOK /\ OwnInv)
BY InitInv, NextInv, PTL DEF Spec, IInv

LEMMA CleanIsDurable == IInv => DurableUntilFriendship
BY DEF IInv, CleanInv, DurableUntilFriendship

(* What a server reports before its first friendship stays in the tables:  *)
(* MySqlDao's writes are durable as long as AddFriend has not run.         *)
THEOREM DurableCorrect == Spec => []DurableUntilFriendship
BY InitInv, NextInv, CleanIsDurable, PTL DEF Spec

LEMMA ListStep ==
  ASSUME IInv, NEW s \in Servers, GetApplyList(s), s \notin befriended
  PROVE  {f \in ApplyRows(safe, From[logic[s].req]) : Older(committed, f) < ListLimit}
             \subseteq logic'[s].list
<1> DEFINE u == From[logic[s].req]  F == View(logic[s].con)
<1>1. logic[s].con \in ConnsOf(s)
  BY DEF GetApplyList, At, IInv, OwnInv
<1>2. auto[logic[s].con] = TRUE /\ safe \subseteq committed
  BY <1>1 DEF IInv, CleanInv
<1>3. F = committed
  BY <1>2 DEF View
<1>4. logic'[s].list = {f \in ApplyRows(F, u) : Older(F, f) < ListLimit}
  BY DEF GetApplyList, IInv, TypeOK, LogicStates
<1>5. ApplyRows(safe, u) \subseteq ApplyRows(committed, u)
  BY <1>2 DEF ApplyRows
<1>6. QED
  BY <1>3, <1>4, <1>5

(* A login on a server that has not run AddFriend since its start lists    *)
(* every friend request to its user that such servers have reported and    *)
(* that has fewer than ListLimit older ones beside it in the table.        *)
THEOREM ListsCorrect == Spec => ListsAreCurrent
<1>1. IInv /\ [Next]_vars =>
        [\A s \in Servers : GetApplyList(s) /\ s \notin befriended =>
           {f \in ApplyRows(safe, From[logic[s].req]) : Older(committed, f) < ListLimit}
               \subseteq logic'[s].list]_vars
  BY ListStep
<1>2. QED
  BY <1>1, InitInv, NextInv, PTL DEF Spec, ListsAreCurrent

-----------------------------------------------------------------------------
(* Where the connections of a server are.                                  *)

Elements(q) == {q[i] : i \in DOMAIN q}
Distinct(q) == \A i, j \in DOMAIN q : q[i] = q[j] => i = j

(* The connections C are in the queue q and with three holders, each once. *)
Split(C, q, a, b, r) ==
    /\ Elements(q) \union ({a, b, r} \ {NoConn}) = C
    /\ Elements(q) \intersect ({a, b, r} \ {NoConn}) = {}
    /\ Distinct(q)
    /\ a # NoConn => a \notin {b, r}
    /\ b # NoConn => b # r

(* The logic thread has connections only where a step needs them, so that  *)
(* taking one never forgets another.                                       *)
PlaceInv == \A s \in Servers :
    /\ Split(ConnsOf(s), pool[s], logic[s].con, logic[s].con2, reader[s])
    /\ logic[s].at \in {"idle", "get"} => logic[s].con = NoConn
    /\ logic[s].at # "user" => logic[s].con2 = NoConn

LEMMA TailElements ==
  ASSUME NEW C, NEW q \in Seq(C), q # <<>>, Distinct(q)
  PROVE  /\ Head(q) \in Elements(q) /\ Distinct(Tail(q))
         /\ Elements(Tail(q)) = Elements(q) \ {Head(q)}
<1>1. /\ Len(q) \in Nat /\ Len(q) >= 1 /\ DOMAIN q = 1..Len(q) /\ Head(q) = q[1]
      /\ Tail(q) \in Seq(C) /\ Len(Tail(q)) = Len(q) - 1 /\ DOMAIN Tail(q) = 1..Len(Tail(q))
      /\ \A i \in 1..Len(Tail(q)) : Tail(q)[i] = q[i + 1] /\ i + 1 \in 1..Len(q) /\ i + 1 # 1
  OBVIOUS
<1>2. Distinct(Tail(q))
  <2>1. SUFFICES ASSUME NEW i \in 1..Len(Tail(q)), NEW j \in 1..Len(Tail(q)),
                        q[i + 1] = q[j + 1]
                 PROVE  i = j
    BY <1>1 DEF Distinct
  <2>2. i + 1 = j + 1
    BY <1>1, <2>1 DEF Distinct
  <2>3. QED
    BY <1>1, <2>2
<1>3. ASSUME NEW k \in 1..Len(q), k # 1
      PROVE  q[k] \in Elements(Tail(q))
  <2>1. k - 1 \in 1..Len(Tail(q)) /\ Tail(q)[k - 1] = q[(k - 1) + 1] /\ (k - 1) + 1 = k
    BY <1>1, <1>3
  <2>2. QED
    BY <1>1, <2>1 DEF Elements
<1>4. ASSUME NEW i \in 1..Len(Tail(q))
      PROVE  Tail(q)[i] \in Elements(q) \ {Head(q)}
  <2>1. 1 \in 1..Len(q) /\ i + 1 \in 1..Len(q) /\ i + 1 # 1 /\ Tail(q)[i] = q[i + 1]
    BY <1>1
  <2>2. QED
    BY <1>1, <2>1 DEF Elements, Distinct
<1>5. Elements(Tail(q)) \subseteq Elements(q) \ {Head(q)}
  BY <1>1, <1>4 DEF Elements
<1>6. Elements(q) \ {Head(q)} \subseteq Elements(Tail(q))
  BY <1>1, <1>3 DEF Elements
<1>7. Head(q) \in Elements(q)
  BY <1>1 DEF Elements
<1>8. QED
  BY <1>2, <1>5, <1>6, <1>7

LEMMA AppendElements ==
  ASSUME NEW C, NEW q \in Seq(C), NEW c \in C
  PROVE  /\ Elements(Append(q, c)) = Elements(q) \union {c}
         /\ Distinct(q) /\ c \notin Elements(q) => Distinct(Append(q, c))
<1>1. /\ Len(q) \in Nat /\ DOMAIN q = 1..Len(q)
      /\ DOMAIN Append(q, c) = 1..(Len(q) + 1)
      /\ \A i \in 1..Len(q) : Append(q, c)[i] = q[i]
      /\ Append(q, c)[Len(q) + 1] = c
  OBVIOUS
<1>2. \A i \in 1..(Len(q) + 1) : i \in 1..Len(q) \/ i = Len(q) + 1
  BY <1>1
<1>3. Elements(Append(q, c)) \subseteq Elements(q) \union {c}
  BY <1>1, <1>2 DEF Elements
<1>4. ASSUME NEW i \in 1..Len(q)
      PROVE  q[i] \in Elements(Append(q, c))
  <2>1. i \in 1..(Len(q) + 1) /\ q[i] = Append(q, c)[i]
    BY <1>1
  <2>2. QED
    BY <1>1, <2>1 DEF Elements
<1>5. c \in Elements(Append(q, c))
  <2>1. Len(q) + 1 \in 1..(Len(q) + 1)
    BY <1>1
  <2>2. QED
    BY <1>1, <2>1 DEF Elements
<1>6. ASSUME Distinct(q), c \notin Elements(q)
      PROVE  Distinct(Append(q, c))
  <2>1. SUFFICES ASSUME NEW i \in 1..(Len(q) + 1), NEW j \in 1..(Len(q) + 1),
                        Append(q, c)[i] = Append(q, c)[j]
                 PROVE  i = j
    BY <1>1 DEF Distinct
  <2>2. CASE i \in 1..Len(q) /\ j \in 1..Len(q)
    BY <1>1, <1>6, <2>1, <2>2 DEF Distinct
  <2>3. CASE i \in 1..Len(q) /\ j = Len(q) + 1
    BY <1>1, <1>6, <2>1, <2>3 DEF Elements
  <2>4. CASE j \in 1..Len(q) /\ i = Len(q) + 1
    BY <1>1, <1>6, <2>1, <2>4 DEF Elements
  <2>5. QED
    BY <1>2, <2>2, <2>3, <2>4
<1>7. QED
  BY <1>1, <1>3, <1>4, <1>5, <1>6 DEF Elements

(* A connection goes from the pool to a holder who had none, and back. *)
LEMMA SplitTake ==
  ASSUME NEW C, NEW q \in Seq(C), q # <<>>, NoConn \notin C,
         NEW a, NEW b, NEW r, Split(C, q, a, b, r)
  PROVE  /\ a = NoConn => Split(C, Tail(q), Head(q), b, r)
         /\ b = NoConn => Split(C, Tail(q), a, Head(q), r)
         /\ r = NoConn => Split(C, Tail(q), a, b, Head(q))
<1>1. /\ Head(q) \in Elements(q) /\ Distinct(Tail(q))
      /\ Elements(Tail(q)) = Elements(q) \ {Head(q)}
  BY TailElements DEF Split
<1>2. Elements(q) \subseteq C /\ Head(q) # NoConn /\ Head(q) \notin {a, b, r}
  BY <1>1 DEF Split
<1>3. QED
  BY <1>1, <1>2 DEF Split

LEMMA SplitGive ==
  ASSUME NEW C, NEW q \in Seq(C), NoConn \notin C,
         NEW a, NEW b, NEW r, Split(C, q, a, b, r)
  PROVE  /\ a # NoConn => Split(C, Append(q, a), NoConn, b, r)
         /\ b # NoConn => Split(C, Append(q, b), a, NoConn, r)
         /\ r # NoConn => Split(C, Append(q, r), a, b, NoConn)
<1>1. ASSUME NEW c \in {a, b, r}, c # NoConn
      PROVE  /\ Elements(Append(q, c)) = Elements(q) \union {c}
             /\ Distinct(Append(q, c))
  <2>1. c \in C /\ c \notin Elements(q) /\ Distinct(q)
    BY <1>1 DEF Split
  <2>2. QED
    BY <2>1, AppendElements
<1>2. a # NoConn => Split(C, Append(q, a), NoConn, b, r)
  BY <1>1 DEF Split
<1>3. b # NoConn => Split(C, Append(q, b), a, NoConn, r)
  BY <1>1 DEF Split
<1>4. r # NoConn => Split(C, Append(q, r), a, b, NoConn)
  BY <1>1 DEF Split
<1>5. QED
  BY <1>2, <1>3, <1>4

LEMMA SplitFresh ==
  ASSUME NEW s \in Servers
  PROVE  Split(ConnsOf(s), FreshPool(s), NoConn, NoConn, NoConn)
<1>1. DOMAIN FreshPool(s) = 1..PoolSize /\ \A i \in 1..PoolSize : FreshPool(s)[i] = <<s, i>>
  BY DEF FreshPool
<1>2. Elements(FreshPool(s)) = ConnsOf(s)
  <2>1. \A c : c \in Elements(FreshPool(s)) <=> \E i \in 1..PoolSize : c = FreshPool(s)[i]
    BY <1>1 DEF Elements
  <2>2. \A c : c \in ConnsOf(s) <=> \E i \in 1..PoolSize : c = <<s, i>>
    BY DEF ConnsOf
  <2>3. QED
    BY <1>1, <2>1, <2>2
<1>3. Distinct(FreshPool(s))
  <2>1. SUFFICES ASSUME NEW i \in 1..PoolSize, NEW j \in 1..PoolSize,
                        FreshPool(s)[i] = FreshPool(s)[j]
                 PROVE  i = j
    BY <1>1 DEF Distinct
  <2>2. <<s, i>> = <<s, j>>
    BY <1>1, <2>1
  <2>3. QED
    BY <2>2
<1>4. QED
  BY <1>2, <1>3 DEF Split

-----------------------------------------------------------------------------
LEMMA PlaceStep ==
  ASSUME PlaceInv, NEW s \in Servers,
         \A t \in Servers \ {s} :
            pool'[t] = pool[t] /\ logic'[t] = logic[t] /\ reader'[t] = reader[t],
         Split(ConnsOf(s), pool'[s], logic'[s].con, logic'[s].con2, reader'[s]),
         logic'[s].at \in {"idle", "get"} => logic'[s].con = NoConn,
         logic'[s].at # "user" => logic'[s].con2 = NoConn
  PROVE  PlaceInv'
BY Zenon DEF PlaceInv

(* A statement leaves the connections where they are. *)
LEMMA PlaceStatement ==
  ASSUME IInv, PlaceInv, NEW s \in Servers,
         \/ AddFriendApply(s) \/ AuthFriendApply(s) \/ SetAutoCommit(s)
         \/ InsertFriend(s) \/ InsertFriendBack(s) \/ Commit(s) \/ CommitFails(s)
         \/ Rollback(s) \/ StatementFails(s) \/ GetApplyList(s) \/ GetFriendList(s)
  PROVE  PlaceInv'
<1>1. logic \in [Servers -> LogicStates] /\ pool' = pool /\ reader' = reader
  BY DEF AddFriendApply, AuthFriendApply, SetAutoCommit, InsertFriend, InsertFriendBack,
         Commit, CommitFails, Rollback, StatementFails, GetApplyList, GetFriendList,
         IInv, TypeOK
<1>2. /\ logic[s].at \notin {"idle", "get", "user"}
      /\ \A t \in Servers \ {s} : logic'[t] = logic[t]
      /\ logic'[s].con = logic[s].con /\ logic'[s].con2 = logic[s].con2
      /\ logic'[s].at \notin {"idle", "get", "user"}
  <2>1. CASE AddFriendApply(s) \/ AuthFriendApply(s) \/ Commit(s)
    BY <1>1, <2>1 DEF AddFriendApply, AuthFriendApply, Commit, At, Wrote, LogicStates
  <2>2. CASE SetAutoCommit(s) \/ InsertFriend(s) \/ InsertFriendBack(s) \/ CommitFails(s)
             \/ Rollback(s)
    BY <1>1, <2>2 DEF SetAutoCommit, InsertFriend, InsertFriendBack, CommitFails, Rollback,
                      At, Goes, LogicStates
  <2>3. CASE StatementFails(s)
    BY <1>1, <2>3 DEF StatementFails, AfterException, LogicStates
  <2>4. CASE GetApplyList(s) \/ GetFriendList(s)
    BY <1>1, <2>4 DEF GetApplyList, GetFriendList, At, LogicStates
  <2>5. QED
    BY <2>1, <2>2, <2>3, <2>4
<1>3. /\ Split(ConnsOf(s), pool[s], logic[s].con, logic[s].con2, reader[s])
      /\ logic[s].con2 = NoConn
  BY <1>2 DEF PlaceInv
<1>4. QED
  BY <1>1, <1>2, <1>3, PlaceStep

LEMMA PlaceTake ==
  ASSUME IInv, PlaceInv, NEW s \in Servers,
         GetConnection(s) \/ GetUserTakes(s) \/ ReaderTakes(s)
  PROVE  PlaceInv'
<1>1. /\ pool[s] \in Seq(ConnsOf(s)) /\ pool[s] # <<>> /\ NoConn \notin ConnsOf(s)
      /\ logic[s] \in LogicStates /\ logic \in [Servers -> LogicStates]
      /\ pool \in [Servers -> Seq(Conns)] /\ reader \in [Servers -> Conns \union {NoConn}]
  BY OwnConns, SqlDaoAssumption DEF GetConnection, GetUserTakes, ReaderTakes, IInv, OwnInv, TypeOK
<1>2. Split(ConnsOf(s), pool[s], logic[s].con, logic[s].con2, reader[s])
  BY DEF PlaceInv
<1>3. pool'[s] = Tail(pool[s]) /\ \A t \in Servers \ {s} : pool'[t] = pool[t]
  BY <1>1 DEF GetConnection, GetUserTakes, ReaderTakes
<1>4. CASE GetConnection(s)
  <2>1. /\ logic[s].at = "get" /\ logic[s].con = NoConn /\ logic[s].con2 = NoConn
        /\ logic'[s].at = "run" /\ logic'[s].con = Head(pool[s])
        /\ logic'[s].con2 = logic[s].con2 /\ reader' = reader
        /\ \A t \in Servers \ {s} : logic'[t] = logic[t]
    BY <1>1, <1>4 DEF GetConnection, PlaceInv, LogicStates
  <2>2. Split(ConnsOf(s), Tail(pool[s]), Head(pool[s]), logic[s].con2, reader[s])
    BY <1>1, <1>2, <2>1, SplitTake
  <2>3. QED
    BY <1>3, <2>1, <2>2, PlaceStep
<1>5. CASE GetUserTakes(s)
  <2>1. /\ logic[s].at = "getuser" /\ logic[s].con2 = NoConn
        /\ logic'[s].at = "user" /\ logic'[s].con2 = Head(pool[s])
        /\ logic'[s].con = logic[s].con /\ reader' = reader
        /\ \A t \in Servers \ {s} : logic'[t] = logic[t]
    BY <1>1, <1>5 DEF GetUserTakes, PlaceInv, LogicStates
  <2>2. Split(ConnsOf(s), Tail(pool[s]), logic[s].con, Head(pool[s]), reader[s])
    BY <1>1, <1>2, <2>1, SplitTake
  <2>3. QED
    BY <1>3, <2>1, <2>2, PlaceStep
<1>6. CASE ReaderTakes(s)
  <2>1. /\ reader[s] = NoConn /\ reader'[s] = Head(pool[s]) /\ logic' = logic
        /\ \A t \in Servers \ {s} : reader'[t] = reader[t]
    BY <1>1, <1>6 DEF ReaderTakes
  <2>2. Split(ConnsOf(s), Tail(pool[s]), logic[s].con, logic[s].con2, Head(pool[s]))
    BY <1>1, <1>2, <2>1, SplitTake
  <2>3. /\ logic[s].at \in {"idle", "get"} => logic[s].con = NoConn
        /\ logic[s].at # "user" => logic[s].con2 = NoConn
    BY DEF PlaceInv
  <2>4. QED
    BY <1>3, <2>1, <2>2, <2>3, PlaceStep
<1>7. QED
  BY <1>4, <1>5, <1>6

LEMMA PlaceGive ==
  ASSUME IInv, PlaceInv, NEW s \in Servers,
         ReturnConnection(s) \/ GetUserReturns(s) \/ ReaderReturns(s)
  PROVE  PlaceInv'
<1>1. /\ pool[s] \in Seq(ConnsOf(s)) /\ NoConn \notin ConnsOf(s)
      /\ logic[s] \in LogicStates /\ logic \in [Servers -> LogicStates]
      /\ pool \in [Servers -> Seq(Conns)] /\ reader \in [Servers -> Conns \union {NoConn}]
      /\ logic[s].at \notin {"idle", "get"} => logic[s].con # NoConn
      /\ logic[s].at = "user" => logic[s].con2 # NoConn
  BY OwnConns, SqlDaoAssumption DEF IInv, OwnInv, TypeOK
<1>2. /\ Split(ConnsOf(s), pool[s], logic[s].con, logic[s].con2, reader[s])
      /\ logic[s].at \in {"idle", "get"} => logic[s].con = NoConn
      /\ logic[s].at # "user" => logic[s].con2 = NoConn
  BY DEF PlaceInv
<1>3. CASE ReturnConnection(s)
  <2>1. /\ logic[s].at = "return" /\ logic[s].con # NoConn /\ logic[s].con2 = NoConn
        /\ pool'[s] = Append(pool[s], logic[s].con) /\ reader' = reader
        /\ \A t \in Servers \ {s} : pool'[t] = pool[t] /\ logic'[t] = logic[t]
    BY <1>1, <1>2, <1>3 DEF ReturnConnection
  <2>2. logic'[s].con = NoConn /\ logic'[s].con2 = NoConn
    BY <1>1, <1>3, <2>1 DEF ReturnConnection, Idle, LogicStates
  <2>3. Split(ConnsOf(s), Append(pool[s], logic[s].con), NoConn, logic[s].con2, reader[s])
    BY <1>1, <1>2, <2>1, SplitGive
  <2>4. QED
    BY <2>1, <2>2, <2>3, PlaceStep
<1>4. CASE GetUserReturns(s)
  <2>1. /\ logic[s].at = "user" /\ logic[s].con2 # NoConn
        /\ pool'[s] = Append(pool[s], logic[s].con2) /\ reader' = reader
        /\ \A t \in Servers \ {s} : pool'[t] = pool[t] /\ logic'[t] = logic[t]
    BY <1>1, <1>4 DEF GetUserReturns
  <2>2. /\ logic'[s].con = logic[s].con /\ logic'[s].con2 = NoConn
        /\ logic'[s].at \in {"return", "getuser"}
    <3>1. PICK v \in logic[s].left, to \in {"return", "getuser"} :
             logic' = [logic EXCEPT ![s].left = @ \ {v}, ![s].con2 = NoConn, ![s].at = to]
      BY <1>4 DEF GetUserReturns
    <3>2. QED
      BY <1>1, <3>1 DEF LogicStates
  <2>3. Split(ConnsOf(s), Append(pool[s], logic[s].con2), logic[s].con, NoConn, reader[s])
    BY <1>1, <1>2, <2>1, SplitGive
  <2>4. QED
    BY <2>1, <2>2, <2>3, PlaceStep
<1>5. CASE ReaderReturns(s)
  <2>1. /\ reader[s] # NoConn /\ reader'[s] = NoConn /\ logic' = logic
        /\ pool'[s] = Append(pool[s], reader[s])
        /\ \A t \in Servers \ {s} : pool'[t] = pool[t] /\ reader'[t] = reader[t]
    BY <1>1, <1>5 DEF ReaderReturns
  <2>2. Split(ConnsOf(s), Append(pool[s], reader[s]), logic[s].con, logic[s].con2, NoConn)
    BY <1>1, <1>2, <2>1, SplitGive
  <2>3. QED
    BY <1>2, <2>1, <2>2, PlaceStep
<1>6. QED
  BY <1>3, <1>4, <1>5

(* The steps that begin a request, break or replace connections, or start  *)
(* the process again.                                                      *)
LEMMA PlaceRest ==
  ASSUME IInv, PlaceInv, NEW s \in Servers,
         \/ \E r \in Requests : Begin(s, r)
         \/ CheckConnection(s) \/ Crash(s) \/ Terminates(s)
  PROVE  PlaceInv'
<1>1. /\ logic \in [Servers -> LogicStates] /\ pool \in [Servers -> Seq(Conns)]
      /\ reader \in [Servers -> Conns \union {NoConn}]
  BY DEF IInv, TypeOK
<1>2. CASE \E r \in Requests : Begin(s, r)
  <2>1. /\ pool' = pool /\ reader' = reader /\ logic[s] = Idle
        /\ \A t \in Servers \ {s} : logic'[t] = logic[t]
        /\ logic'[s].at = "get" /\ logic'[s].con = NoConn /\ logic'[s].con2 = NoConn
    <3>1. PICK r \in Requests : Begin(s, r)
      BY <1>2
    <3> DEFINE l == [Idle EXCEPT !.at = "get", !.req = r, !.call = FirstCall[Kind[r]]]
    <3>2. l.at = "get" /\ l.con = NoConn /\ l.con2 = NoConn
      BY DEF Idle
    <3>3. pool' = pool /\ reader' = reader /\ logic[s] = Idle /\ logic' = [logic EXCEPT ![s] = l]
      BY <3>1 DEF Begin
    <3> HIDE DEF l
    <3>4. QED
      BY <1>1, <3>2, <3>3
  <2>2. Split(ConnsOf(s), pool[s], NoConn, NoConn, reader[s])
    BY <2>1, IdleFacts DEF PlaceInv
  <2>3. QED
    BY <2>1, <2>2, PlaceStep
<1>3. CASE CheckConnection(s)
  BY <1>3 DEF CheckConnection, PlaceInv
<1>4. CASE Crash(s) \/ Terminates(s)
  <2>1. Restart(s)
    BY <1>4 DEF Crash, Terminates
  <2>2. /\ pool'[s] = FreshPool(s) /\ logic'[s] = Idle /\ reader'[s] = NoConn
        /\ \A t \in Servers \ {s} :
              pool'[t] = pool[t] /\ logic'[t] = logic[t] /\ reader'[t] = reader[t]
    BY <1>1, <2>1 DEF Restart
  <2>3. QED
    BY <2>2, IdleFacts, SplitFresh, PlaceStep
<1>5. QED
  BY <1>2, <1>3, <1>4

LEMMA PlaceInit == Init => PlaceInv
BY SplitFresh, IdleFacts DEF Init, PlaceInv

LEMMA PlaceNext == IInv /\ PlaceInv /\ [Next]_vars => PlaceInv'
<1> SUFFICES ASSUME IInv, PlaceInv, [Next]_vars PROVE PlaceInv'
  OBVIOUS
<1>1. CASE UNCHANGED vars
  BY <1>1 DEF vars, PlaceInv
<1>2. CASE \E c \in Conns : Breaks(c)
  BY <1>2 DEF Breaks, PlaceInv
<1>3. ASSUME NEW s \in Servers,
             \/ \E r \in Requests : Begin(s, r)
             \/ Gets(s) \/ Statement(s) \/ ReturnConnection(s)
             \/ ReaderTakes(s) \/ ReaderReturns(s)
             \/ CheckConnection(s) \/ Crash(s) \/ Terminates(s)
      PROVE  PlaceInv'
  <2>1. CASE Statement(s)
    BY <2>1, PlaceStatement, PlaceGive DEF Statement
  <2>2. CASE Gets(s) \/ ReaderTakes(s)
    BY <2>2, PlaceTake DEF Gets
  <2>3. CASE ReturnConnection(s) \/ ReaderReturns(s)
    BY <2>3, PlaceGive
  <2>4. QED
    BY <1>3, <2>1, <2>2, <2>3, PlaceRest
<1>4. QED
  BY <1>1, <1>2, <1>3 DEF Next

LEMMA PlacesConserved == PlaceInv => ConnectionsConserved
<1> SUFFICES ASSUME PlaceInv, NEW s \in Servers
             PROVE  /\ InPool(s) \union Holders(s) = ConnsOf(s)
                    /\ InPool(s) \intersect Holders(s) = {}
                    /\ \A i, j \in DOMAIN pool[s] : pool[s][i] = pool[s][j] => i = j
                    /\ logic[s].con # NoConn => logic[s].con \notin {logic[s].con2, reader[s]}
                    /\ logic[s].con2 # NoConn => logic[s].con2 # reader[s]
  BY DEF ConnectionsConserved
<1>1. Split(ConnsOf(s), pool[s], logic[s].con, logic[s].con2, reader[s])
  BY DEF PlaceInv
<1>2. InPool(s) = Elements(pool[s])
  BY DEF InPool, Elements
<1>3. QED
  BY <1>1, <1>2 DEF Split, Holders, Distinct

(* No path of the DAO, failing or not, loses a connection, returns it      *)
(* twice, or gives it to two threads.                                      *)
THEOREM ConservedCorrect == Spec => []ConnectionsConserved
BY InitInv, NextInv, PlaceInit, PlaceNext, PlacesConserved, PTL DEF Spec

-----------------------------------------------------------------------------
(* Friendship is mutual.                                                   *)

Friends(F) == {f \in F : f[1] = "friend"}
Both(r) == {Friend(r), FriendBack(r)}
Mutual(F) == \A u, v \in Users : <<"friend", u, v>> \in F => <<"friend", v, u>> \in F

(* Only between the two inserts and the end of the transaction does a      *)
(* connection have half a friendship, the one its request asks for; what   *)
(* is in the tables already is not written again.                          *)
HalfInv(s) == LET c == logic[s].con  r == logic[s].req IN
    /\ logic[s].at \in {"insert", "insert2", "commit"} =>
          logic[s].call = "AddFriend" /\ auto[c] = FALSE
    /\ logic[s].at = "insert2" =>
          /\ Friends(pending[c]) \subseteq {Friend(r)}
          /\ c \in broken \/ Friend(r) \in committed \union pending[c]
    /\ logic[s].at = "commit" =>
          /\ Friends(pending[c]) \subseteq Both(r)
          /\ c \in broken \/ Both(r) \subseteq committed \union pending[c]

Befriends(s, c) == logic[s].con = c /\ logic[s].at \in {"insert2", "commit", "rollback"}

FriendInv ==
    /\ Mutual(committed)
    /\ \A c \in broken : Friends(pending[c]) = {}
    /\ \A c \in Conns : Friends(pending[c]) # {} => \E s \in Servers : Befriends(s, c)
    /\ \A s \in Servers : HalfInv(s)

LEMMA ConnsApart ==
  ASSUME NEW s \in Servers, NEW t \in Servers, s # t
  PROVE  ConnsOf(s) \intersect ConnsOf(t) = {}
BY DEF ConnsOf

LEMMA MutualBoth ==
  ASSUME NEW r \in Requests, NEW F \in SUBSET Facts, NEW G \in SUBSET Facts, Mutual(F),
         Friends(G) \subseteq Both(r), Both(r) \subseteq F \union G
  PROVE  Mutual(F \union G)
<1> SUFFICES ASSUME NEW u \in Users, NEW v \in Users, <<"friend", u, v>> \in F \union G
             PROVE  <<"friend", v, u>> \in F \union G
  BY DEF Mutual
<1>1. CASE <<"friend", u, v>> \in F
  BY <1>1 DEF Mutual
<1>2. CASE <<"friend", u, v>> \in G
  <2>1. <<"friend", u, v>> \in Both(r)
    BY <1>2 DEF Friends
  <2>2. \/ u = From[r] /\ v = To[r]
        \/ u = To[r] /\ v = From[r]
    BY <2>1 DEF Both, Friend, FriendBack
  <2>3. <<"friend", v, u>> \in Both(r)
    BY <2>2 DEF Both, Friend, FriendBack
  <2>4. QED
    BY <2>3
<1>3. QED
  BY <1>1, <1>2

(* Steps that do not touch friends leave the transactions of the others. *)
LEMMA QuietFriends ==
  ASSUME IInv, FriendInv, NEW s \in Servers,
         \A t \in Servers \ {s} : logic'[t] = logic[t],
         logic[s].at \notin {"insert", "insert2", "commit", "rollback"},
         logic'[s].at \notin {"insert", "insert2", "commit", "rollback"},
         committed \subseteq committed', Friends(committed') = Friends(committed),
         \A c \in Conns : /\ pending[c] \subseteq pending'[c]
                          /\ Friends(pending'[c]) = Friends(pending[c]),
         auto' = auto, broken' = broken
  PROVE  FriendInv'
<1>1. Mutual(committed')
  <2>1. \A u, v \in Users : <<"friend", u, v>> \in committed' <=> <<"friend", u, v>> \in committed
    BY DEF Friends
  <2>2. QED
    BY <2>1 DEF FriendInv, Mutual
<1>2. \A c \in broken' : Friends(pending'[c]) = {}
  BY DEF FriendInv, IInv, TypeOK
<1>3. ASSUME NEW c \in Conns, Friends(pending'[c]) # {}
      PROVE  \E t \in Servers : Befriends(t, c)'
  <2>1. PICK t \in Servers : Befriends(t, c)
    BY <1>3 DEF FriendInv
  <2>2. t # s /\ Befriends(t, c)'
    BY <2>1 DEF Befriends
  <2>3. QED
    BY <2>2
<1>4. ASSUME NEW t \in Servers
      PROVE  HalfInv(t)'
  <2>1. CASE t = s
    BY <2>1 DEF HalfInv
  <2>2. CASE t # s
    <3>1. /\ logic'[t] = logic[t] /\ HalfInv(t)
          /\ logic[t].at \notin {"idle", "get"} => logic[t].con \in Conns
      BY <2>2, OwnConns DEF FriendInv, IInv, OwnInv
    <3>2. QED
      BY <3>1 DEF HalfInv
  <2>3. QED
    BY <2>1, <2>2
<1>5. QED
  BY <1>1, <1>2, <1>3, <1>4 DEF FriendInv

(* A step of a server's thread on its connection leaves the others'. *)
LEMMA FriendStep ==
  ASSUME IInv, FriendInv, NEW s \in Servers, NEW c \in Conns, c = logic[s].con,
         logic'[s].con = c,
         \A t \in Servers \ {s} : logic'[t] = logic[t],
         \A d \in Conns \ {c} : /\ pending'[d] = pending[d] /\ auto'[d] = auto[d]
                                /\ d \in broken' <=> d \in broken,
         broken' \subseteq Conns, committed \subseteq committed', Mutual(committed'),
         HalfInv(s)',
         c \in broken' => Friends(pending'[c]) = {},
         Friends(pending'[c]) # {} => logic'[s].at \in {"insert2", "commit", "rollback"}
  PROVE  FriendInv'
<1>1. \A d \in broken' : Friends(pending'[d]) = {}
  BY DEF FriendInv
<1>2. ASSUME NEW d \in Conns, Friends(pending'[d]) # {}
      PROVE  \E t \in Servers : Befriends(t, d)'
  <2>1. CASE d = c
    BY <1>2, <2>1 DEF Befriends
  <2>2. CASE d # c
    <3>1. PICK t \in Servers : Befriends(t, d)
      BY <1>2, <2>2 DEF FriendInv
    <3>2. t # s /\ Befriends(t, d)'
      BY <2>2, <3>1 DEF Befriends
    <3>3. QED
      BY <3>2
  <2>3. QED
    BY <2>1, <2>2
<1>3. ASSUME NEW t \in Servers, t # s
      PROVE  HalfInv(t)'
  <2>1. HalfInv(t) /\ logic'[t] = logic[t]
    BY <1>3 DEF FriendInv
  <2>2. logic[t].at \notin {"idle", "get"} => logic[t].con \in Conns \ {c}
    BY <1>3, ConnsApart, OwnConns, SqlDaoAssumption DEF IInv, OwnInv
  <2>3. QED
    BY <2>1, <2>2 DEF HalfInv
<1>4. QED
  BY <1>1, <1>2, <1>3 DEF FriendInv

-----------------------------------------------------------------------------
(* A write to a connection without auto-commit goes to its transaction. *)
LEMMA FriendInsert ==
  ASSUME IInv, FriendInv, NEW s \in Servers, InsertFriend(s) \/ InsertFriendBack(s)
  PROVE  FriendInv'
<1> DEFINE c == logic[s].con  r == logic[s].req
<1>1. /\ c \in Conns /\ r \in Requests /\ logic \in [Servers -> LogicStates]
      /\ logic[s].at \in {"insert", "insert2"} /\ c \notin broken
  BY OwnConns DEF InsertFriend, InsertFriendBack, Goes, Write, IInv, OwnInv, TypeOK, LogicStates
<1>2. /\ auto[c] = FALSE /\ logic[s].call = "AddFriend" /\ HalfInv(s)
      /\ pending \in [Conns -> SUBSET Facts] /\ committed \subseteq Facts /\ broken \subseteq Conns
  BY <1>1 DEF FriendInv, HalfInv, IInv, TypeOK
<1>3. PICK f \in {Friend(r), FriendBack(r)}, to \in {"insert2", "commit"} :
         /\ Write(c, {f}) /\ logic' = [logic EXCEPT ![s].at = to]
         /\ to = "insert2" => f = Friend(r) /\ logic[s].at = "insert"
         /\ to = "commit" => f = FriendBack(r) /\ logic[s].at = "insert2"
  BY DEF InsertFriend, InsertFriendBack, Goes
<1>4. /\ committed' = committed
      /\ pending' = [pending EXCEPT ![c] = @ \union ({f} \ committed)]
      /\ UNCHANGED <<auto, broken>>
  BY <1>2, <1>3 DEF Write, InsertFriend, InsertFriendBack, state
<1>5. /\ logic'[s].at = to /\ logic'[s].con = c /\ logic'[s].req = r
      /\ logic'[s].call = "AddFriend"
      /\ \A t \in Servers \ {s} : logic'[t] = logic[t]
  BY <1>1, <1>2, <1>3 DEF LogicStates
<1>6. /\ pending'[c] = pending[c] \union ({f} \ committed)
      /\ \A d \in Conns \ {c} : pending'[d] = pending[d]
  BY <1>1, <1>2, <1>4
<1>7. Friends(pending'[c]) \subseteq Friends(pending[c]) \union {f}
  BY <1>6 DEF Friends
<1>8. CASE to = "insert2"
  <2>1. Friends(pending[c]) = {}
    <3>1. SUFFICES ASSUME Friends(pending[c]) # {} PROVE FALSE
      OBVIOUS
    <3>2. PICK t \in Servers : Befriends(t, c)
      BY <1>1, <3>1 DEF FriendInv
    <3>3. t # s
      BY <1>3, <1>8, <3>2 DEF Befriends
    <3>4. logic[t].con \in ConnsOf(t) /\ c \in ConnsOf(s)
      BY <1>1, <3>2 DEF Befriends, IInv, OwnInv
    <3>5. QED
      BY <3>2, <3>3, <3>4, ConnsApart DEF Befriends
  <2>2. HalfInv(s)'
    BY <1>2, <1>3, <1>4, <1>5, <1>6, <1>7, <1>8, <2>1 DEF HalfInv
  <2>3. QED
    BY <1>1, <1>2, <1>4, <1>5, <1>6, <1>8, <2>2, FriendStep DEF FriendInv
<1>9. CASE to = "commit"
  <2>1. Friends(pending[c]) \subseteq {Friend(r)} /\ Friend(r) \in committed \union pending[c]
    BY <1>1, <1>2, <1>3, <1>9 DEF HalfInv
  <2>2. /\ Friends(pending'[c]) \subseteq {Friend(r), FriendBack(r)}
        /\ {Friend(r), FriendBack(r)} \subseteq committed' \union pending'[c]
    BY <1>3, <1>4, <1>6, <1>7, <1>9, <2>1
  <2>3. HalfInv(s)'
    <3>1. auto'[c] = FALSE
      BY <1>2, <1>4
    <3>2. QED
      BY <1>5, <1>9, <2>2, <3>1 DEF HalfInv, Both, Friend, FriendBack
  <2>4. QED
    BY <1>1, <1>2, <1>4, <1>5, <1>6, <1>9, <2>3, FriendStep DEF FriendInv
<1>10. QED
  BY <1>8, <1>9

(* The transaction ends, with both rows or with none. *)
LEMMA FriendEnd ==
  ASSUME IInv, FriendInv, NEW s \in Servers, Commit(s) \/ CommitFails(s) \/ Rollback(s)
  PROVE  FriendInv'
<1> DEFINE c == logic[s].con  r == logic[s].req
<1>1. /\ c \in Conns /\ r \in Requests /\ logic \in [Servers -> LogicStates]
      /\ pending \in [Conns -> SUBSET Facts] /\ committed \subseteq Facts /\ broken \subseteq Conns
      /\ logic[s].at \in {"commit", "rollback"}
  BY OwnConns DEF Commit, CommitFails, Rollback, Goes, IInv, OwnInv, TypeOK, LogicStates
<1>2. /\ logic'[s].at \in {"return", "rollback"} /\ logic'[s].con = c
      /\ \A t \in Servers \ {s} : logic'[t] = logic[t]
  BY <1>1 DEF Commit, CommitFails, Rollback, Goes, Wrote, LogicStates
<1>3. pending'[c] = {} /\ \A d \in Conns \ {c} : pending'[d] = pending[d]
  BY <1>1 DEF Commit, CommitFails, Rollback, EndTransactions
<1>4. auto' = auto /\ broken' \in {broken, broken \union {c}}
  BY DEF Commit, CommitFails, Rollback, state
<1>5. committed' = committed \/ (committed' = committed \union pending[c] /\ logic[s].at = "commit")
  BY DEF Commit, CommitFails, Rollback, Goes
<1>6. Mutual(committed')
  <2>1. CASE committed' = committed
    BY <2>1 DEF FriendInv
  <2>2. CASE committed' = committed \union pending[c] /\ logic[s].at = "commit"
    <3>1. Mutual(committed) /\ HalfInv(s) /\ (c \in broken => Friends(pending[c]) = {})
      BY DEF FriendInv
    <3>2. CASE c \in broken
      BY <2>2, <3>1, <3>2 DEF Mutual, Friends
    <3>3. CASE c \notin broken
      <4>1. Friends(pending[c]) \subseteq Both(r) /\ Both(r) \subseteq committed \union pending[c]
        BY <2>2, <3>1, <3>3 DEF HalfInv
      <4>2. QED
        BY <1>1, <2>2, <3>1, <4>1, MutualBoth
    <3>4. QED
      BY <3>2, <3>3
  <2>3. QED
    BY <1>5, <2>1, <2>2
<1>7. HalfInv(s)' /\ Friends(pending'[c]) = {}
  BY <1>2, <1>3 DEF HalfInv, Friends
<1>8. QED
  BY <1>1, <1>2, <1>3, <1>4, <1>5, <1>6, <1>7, FriendStep

(* A statement of AddFriend that throws is followed by the rollback; one of *)
(* the other functions has no friends in its transaction.                  *)
LEMMA FriendFails ==
  ASSUME IInv, FriendInv, NEW s \in Servers, StatementFails(s)
  PROVE  FriendInv'
<1> DEFINE c == logic[s].con
<1>1. /\ c \in Conns /\ c \in ConnsOf(s) /\ logic \in [Servers -> LogicStates]
      /\ pending \in [Conns -> SUBSET Facts] /\ broken \subseteq Conns
      /\ logic[s].at \in {"run", "insert", "insert2"}
  BY OwnConns DEF StatementFails, IInv, OwnInv, TypeOK
<1>2. /\ logic'[s].at = AfterException(s) /\ logic'[s].con = c
      /\ \A t \in Servers \ {s} : logic'[t] = logic[t]
  BY <1>1 DEF StatementFails, LogicStates
<1>3. /\ pending'[c] \in {pending[c], {}} /\ \A d \in Conns \ {c} : pending'[d] = pending[d]
      /\ UNCHANGED <<committed, auto, broken>>
  BY <1>1 DEF StatementFails, EndTransactions, state
<1>4. Friends(pending'[c]) # {} => logic[s].at = "insert2" /\ Friends(pending[c]) # {}
  <2>1. SUFFICES ASSUME Friends(pending'[c]) # {}
                 PROVE  logic[s].at = "insert2" /\ Friends(pending[c]) # {}
    OBVIOUS
  <2>2. Friends(pending[c]) # {}
    BY <1>3, <2>1 DEF Friends
  <2>3. PICK t \in Servers : Befriends(t, c)
    BY <1>1, <2>2 DEF FriendInv
  <2>4. logic[t].con \in ConnsOf(t)
    BY <2>3 DEF Befriends, IInv, OwnInv
  <2>5. t = s
    BY <1>1, <2>3, <2>4, ConnsApart DEF Befriends
  <2>6. QED
    BY <1>1, <2>2, <2>3, <2>5 DEF Befriends
<1>5. Friends(pending'[c]) # {} => logic'[s].at = "rollback"
  BY <1>2, <1>4 DEF AfterException, FriendInv, HalfInv
<1>6. HalfInv(s)'
  BY <1>2 DEF HalfInv, AfterException
<1>7. c \in broken => Friends(pending'[c]) = {}
  BY <1>4 DEF FriendInv
<1>8. Mutual(committed')
  BY <1>3 DEF FriendInv
<1>9. QED
  BY <1>1, <1>2, <1>3, <1>5, <1>6, <1>7, <1>8, FriendStep

LEMMA FriendSetAuto ==
  ASSUME IInv, FriendInv, NEW s \in Servers, SetAutoCommit(s)
  PROVE  FriendInv'
<1> DEFINE c == logic[s].con
<1>1. /\ c \in Conns /\ c \in ConnsOf(s) /\ logic \in [Servers -> LogicStates]
      /\ auto \in [Conns -> BOOLEAN] /\ broken \subseteq Conns /\ logic[s].at = "run"
      /\ logic[s].call = "AddFriend"
  BY OwnConns DEF SetAutoCommit, At, IInv, OwnInv, TypeOK
<1>2. /\ logic'[s].at = "insert" /\ logic'[s].con = c /\ logic'[s].call = "AddFriend"
      /\ \A t \in Servers \ {s} : logic'[t] = logic[t]
  BY <1>1 DEF SetAutoCommit, Goes, LogicStates
<1>3. /\ UNCHANGED <<committed, pending, broken>>
      /\ auto'[c] = FALSE /\ \A d \in Conns \ {c} : auto'[d] = auto[d]
  BY <1>1 DEF SetAutoCommit, tables
<1>4. Friends(pending[c]) = {}
  <2>1. SUFFICES ASSUME Friends(pending[c]) # {} PROVE FALSE
    OBVIOUS
  <2>2. PICK t \in Servers : Befriends(t, c)
    BY <1>1, <2>1 DEF FriendInv
  <2>3. t # s /\ logic[t].con \in ConnsOf(t)
    BY <1>1, <2>2 DEF Befriends, IInv, OwnInv
  <2>4. QED
    BY <1>1, <2>2, <2>3, ConnsApart DEF Befriends
<1>5. HalfInv(s)'
  BY <1>2, <1>3 DEF HalfInv
<1>6. QED
  BY <1>1, <1>2, <1>3, <1>4, <1>5, FriendStep DEF FriendInv

(* All steps that write no friends and leave transactions open. *)
LEMMA FriendQuiet ==
  ASSUME IInv, FriendInv, NEW s \in Servers,
         \/ \E r \in Requests : Begin(s, r)
         \/ GetConnection(s) \/ ReturnConnection(s) \/ AddFriendApply(s) \/ AuthFriendApply(s)
         \/ GetApplyList(s) \/ GetFriendList(s) \/ GetUserTakes(s) \/ GetUserReturns(s)
         \/ ReaderTakes(s) \/ ReaderReturns(s)
  PROVE  FriendInv'
<1>1. logic \in [Servers -> LogicStates] /\ pending \in [Conns -> SUBSET Facts]
  BY DEF IInv, TypeOK
<1>2. CASE ReaderTakes(s) \/ ReaderReturns(s)
  <2>1. UNCHANGED <<logic, committed, pending, auto, broken>>
    BY <1>2 DEF ReaderTakes, ReaderReturns, tables, state
  <2>2. QED
    BY <2>1 DEF FriendInv, HalfInv, Befriends
<1>3. CASE \/ \E r \in Requests : Begin(s, r)
           \/ GetConnection(s) \/ ReturnConnection(s)
           \/ GetApplyList(s) \/ GetFriendList(s) \/ GetUserTakes(s) \/ GetUserReturns(s)
  <2>1. UNCHANGED <<committed, pending, auto, broken>>
    BY <1>3 DEF Begin, GetConnection, ReturnConnection, GetApplyList, GetFriendList,
                GetUserTakes, GetUserReturns, tables, state
  <2>2. /\ logic[s].at \notin {"insert", "insert2", "commit", "rollback"}
        /\ \A t \in Servers \ {s} : logic'[t] = logic[t]
    BY <1>1, <1>3, IdleFacts DEF Begin, GetConnection, ReturnConnection, GetApplyList,
                GetFriendList, GetUserTakes, GetUserReturns, At
  <2>3. logic'[s].at \notin {"insert", "insert2", "commit", "rollback"}
    <3>1. CASE \E r \in Requests : Begin(s, r)
      <4>1. PICK r \in Requests : Begin(s, r)
        BY <3>1
      <4>2. logic'[s] = [Idle EXCEPT !.at = "get", !.req = r, !.call = FirstCall[Kind[r]]]
        BY <1>1, <4>1 DEF Begin
      <4>3. QED
        BY <4>2 DEF Idle
    <3>2. CASE ReturnConnection(s)
      BY <1>1, <3>2, IdleFacts DEF ReturnConnection, LogicStates
    <3>3. CASE GetConnection(s) \/ GetUserTakes(s)
      BY <1>1, <3>3 DEF GetConnection, GetUserTakes, LogicStates
    <3>4. CASE GetApplyList(s) \/ GetFriendList(s)
      BY <1>1, <3>4 DEF GetApplyList, GetFriendList, LogicStates
    <3>5. CASE GetUserReturns(s)
      <4>1. PICK v \in logic[s].left, to \in {"return", "getuser"} :
               logic' = [logic EXCEPT ![s].left = @ \ {v}, ![s].con2 = NoConn, ![s].at = to]
        BY <3>5 DEF GetUserReturns
      <4>2. QED
        BY <1>1, <4>1 DEF LogicStates
    <3>6. QED
      BY <1>3, <3>1, <3>2, <3>3, <3>4, <3>5
  <2>4. QED
    BY <2>1, <2>2, <2>3, QuietFriends
<1>4. CASE AddFriendApply(s) \/ AuthFriendApply(s)
  <2> DEFINE c == logic[s].con  r == logic[s].req
  <2>1. c \in Conns /\ logic[s].at = "run"
    BY <1>4, OwnConns DEF AddFriendApply, AuthFriendApply, At, IInv, OwnInv
  <2>2. PICK F : Write(c, F) /\ Friends(F) = {}
    <3>1. Friends({Applied(r)}) = {} /\ Friends({Authed(r)}) = {} /\ Friends({}) = {}
      BY DEF Friends, Applied, Authed
    <3>2. CASE AddFriendApply(s)
      BY <3>1, <3>2 DEF AddFriendApply
    <3>3. CASE AuthFriendApply(s)
      BY <3>1, <3>3 DEF AuthFriendApply
    <3>4. QED
      BY <1>4, <3>2, <3>3
  <2>3. /\ committed' \in {committed, committed \union F}
        /\ pending' \in {pending, [pending EXCEPT ![c] = @ \union (F \ committed)]}
    BY <2>2 DEF Write
  <2>4. Friends(committed') = Friends(committed) /\ committed \subseteq committed'
    BY <2>2, <2>3 DEF Friends
  <2>5. \A d \in Conns : /\ pending[d] \subseteq pending'[d]
                         /\ Friends(pending'[d]) = Friends(pending[d])
    BY <1>1, <2>2, <2>3 DEF Friends
  <2>6. /\ UNCHANGED <<auto, broken>> /\ logic'[s].at = "return"
        /\ \A t \in Servers \ {s} : logic'[t] = logic[t]
    BY <1>1, <1>4 DEF AddFriendApply, AuthFriendApply, Wrote, state, LogicStates
  <2>7. QED
    BY <2>1, <2>4, <2>5, <2>6, QuietFriends
<1>5. QED
  BY <1>2, <1>3, <1>4

LEMMA FriendBreaks ==
  ASSUME IInv, FriendInv, NEW c \in Conns, Breaks(c)
  PROVE  FriendInv'
<1>1. /\ UNCHANGED <<committed, auto, logic>> /\ broken' = broken \union {c}
      /\ pending \in [Conns -> SUBSET Facts] /\ broken \subseteq Conns
  BY DEF Breaks, IInv, TypeOK
<1>2. pending'[c] = {} /\ \A d \in Conns \ {c} : pending'[d] = pending[d]
  BY DEF Breaks, EndTransactions
<1>3. Friends(pending'[c]) = {}
  BY <1>2 DEF Friends
<1>4. ASSUME NEW s \in Servers
      PROVE  HalfInv(s)'
  <2>1. HalfInv(s) /\ (logic[s].at \notin {"idle", "get"} => logic[s].con \in Conns)
    BY OwnConns DEF FriendInv, IInv, OwnInv
  <2>2. CASE logic[s].con = c
    BY <1>1, <1>3, <2>1, <2>2 DEF HalfInv
  <2>3. CASE logic[s].con # c
    BY <1>1, <1>2, <2>1, <2>3 DEF HalfInv
  <2>4. QED
    BY <2>2, <2>3
<1>5. Mutual(committed') /\ \A d \in broken' : Friends(pending'[d]) = {}
  BY <1>1, <1>2, <1>3 DEF FriendInv
<1>6. \A d \in Conns : Friends(pending'[d]) # {} => \E s \in Servers : Befriends(s, d)'
  BY <1>1, <1>2, <1>3 DEF FriendInv, Befriends
<1>7. QED
  BY <1>4, <1>5, <1>6 DEF FriendInv

(* What CheckConnection replaces is in the pool, so no request is on it.   *)
LEMMA FriendCheck ==
  ASSUME IInv, PlaceInv, FriendInv, NEW s \in Servers, CheckConnection(s)
  PROVE  FriendInv'
<1>1. /\ UNCHANGED <<committed, pending, logic>> /\ broken' = broken \ InPool(s)
      /\ \A c \in Conns : c \notin InPool(s) => auto'[c] = auto[c]
      /\ auto \in [Conns -> BOOLEAN]
  BY DEF CheckConnection, tables, IInv, TypeOK
<1>2. InPool(s) \subseteq ConnsOf(s) /\ logic[s].con \notin InPool(s)
  <2>1. Split(ConnsOf(s), pool[s], logic[s].con, logic[s].con2, reader[s])
    BY DEF PlaceInv
  <2>2. InPool(s) = Elements(pool[s]) /\ NoConn \notin ConnsOf(s)
    BY OwnConns, SqlDaoAssumption DEF InPool, Elements
  <2>3. QED
    BY <2>1, <2>2 DEF Split
<1>3. ASSUME NEW t \in Servers
      PROVE  HalfInv(t)'
  <2>1. HalfInv(t)
    BY DEF FriendInv
  <2>2. logic[t].at \notin {"idle", "get"} => logic[t].con \in Conns \ InPool(s)
    <3>1. logic[t].at \notin {"idle", "get"} => logic[t].con \in ConnsOf(t)
      BY DEF IInv, OwnInv
    <3>2. QED
      BY <1>2, <3>1, ConnsApart, OwnConns
  <2>3. QED
    BY <1>1, <2>1, <2>2 DEF HalfInv
<1>4. QED
  BY <1>1, <1>3 DEF FriendInv, Befriends

LEMMA FriendRestart ==
  ASSUME IInv, FriendInv, NEW s \in Servers, Crash(s) \/ Terminates(s)
  PROVE  FriendInv'
<1>1. Restart(s)
  BY DEF Crash, Terminates
<1>2. /\ committed' = committed /\ broken' = broken \ ConnsOf(s) /\ logic'[s] = Idle
      /\ \A t \in Servers \ {s} : logic'[t] = logic[t]
      /\ \A c \in Conns : /\ c \in ConnsOf(s) => pending'[c] = {}
                          /\ c \notin ConnsOf(s) => pending'[c] = pending[c] /\ auto'[c] = auto[c]
      /\ broken \subseteq Conns
  BY <1>1 DEF Restart, EndTransactions, IInv, TypeOK
<1>3. Mutual(committed') /\ \A c \in broken' : Friends(pending'[c]) = {}
  BY <1>2 DEF FriendInv
<1>4. ASSUME NEW c \in Conns, Friends(pending'[c]) # {}
      PROVE  \E t \in Servers : Befriends(t, c)'
  <2>1. c \notin ConnsOf(s)
    BY <1>2, <1>4 DEF Friends
  <2>2. PICK t \in Servers : Befriends(t, c)
    BY <1>2, <1>4, <2>1 DEF FriendInv
  <2>3. t # s
    BY <2>1, <2>2 DEF Befriends, IInv, OwnInv
  <2>4. QED
    BY <1>2, <2>2, <2>3 DEF Befriends
<1>5. ASSUME NEW t \in Servers
      PROVE  HalfInv(t)'
  <2>1. CASE t = s
    BY <1>2, <2>1, IdleFacts DEF HalfInv
  <2>2. CASE t # s
    <3>1. HalfInv(t) /\ logic'[t] = logic[t]
      BY <1>2, <2>2 DEF FriendInv
    <3>2. logic[t].at \notin {"idle", "get"} => logic[t].con \in Conns \ ConnsOf(s)
      BY <2>2, ConnsApart, OwnConns DEF IInv, OwnInv
    <3>3. QED
      BY <1>2, <3>1, <3>2 DEF HalfInv
  <2>3. QED
    BY <2>1, <2>2
<1>6. QED
  BY <1>3, <1>4, <1>5 DEF FriendInv

LEMMA FriendInit == Init => FriendInv
<1> SUFFICES ASSUME Init PROVE FriendInv
  OBVIOUS
<1>1. Mutual(committed) /\ \A c \in Conns : Friends(pending[c]) = {}
  <2>1. \A u, v \in Users : <<"friend", u, v>> \notin committed
    BY SqlDaoAssumption DEF Init
  <2>2. QED
    BY <2>1 DEF Init, Mutual, Friends
<1>2. broken = {} /\ \A s \in Servers : HalfInv(s)
  BY IdleFacts DEF Init, HalfInv
<1>3. QED
  BY <1>1, <1>2 DEF FriendInv

LEMMA FriendNext == IInv /\ PlaceInv /\ FriendInv /\ [Next]_vars => FriendInv'
<1> SUFFICES ASSUME IInv, PlaceInv, FriendInv, [Next]_vars PROVE FriendInv'
  OBVIOUS
<1>1. CASE UNCHANGED vars
  <2>1. UNCHANGED <<committed, pending, auto, broken, logic>>
    BY <1>1 DEF vars, tables, state
  <2>2. QED
    BY <2>1 DEF FriendInv, HalfInv, Befriends
<1>2. CASE \E c \in Conns : Breaks(c)
  BY <1>2, FriendBreaks
<1>3. ASSUME NEW s \in Servers,
             \/ \E r \in Requests : Begin(s, r)
             \/ Gets(s) \/ Statement(s) \/ ReturnConnection(s)
             \/ ReaderTakes(s) \/ ReaderReturns(s)
             \/ CheckConnection(s) \/ Crash(s) \/ Terminates(s)
      PROVE  FriendInv'
  <2>1. CASE Statement(s)
    BY <2>1, FriendQuiet, FriendSetAuto, FriendInsert, FriendEnd, FriendFails DEF Statement
  <2>2. CASE \/ \E r \in Requests : Begin(s, r)
             \/ Gets(s) \/ ReturnConnection(s) \/ ReaderTakes(s) \/ ReaderReturns(s)
    BY <2>2, FriendQuiet DEF Gets
  <2>3. QED
    BY <1>3, <2>1, <2>2, FriendCheck, FriendRestart
<1>4. QED
  BY <1>1, <1>2, <1>3 DEF Next

LEMMA FriendsMutual == IInv /\ PlaceInv /\ FriendInv => FriendsBothWays
<1> SUFFICES ASSUME IInv, PlaceInv, FriendInv PROVE FriendsBothWays
  OBVIOUS
<1>1. ASSUME NEW s \in Servers, NEW c \in InPool(s), NEW u \in Users, NEW v \in Users,
             <<"friend", u, v>> \in pending[c]
      PROVE  FALSE
  <2>1. Split(ConnsOf(s), pool[s], logic[s].con, logic[s].con2, reader[s])
    BY DEF PlaceInv
  <2>2. InPool(s) = Elements(pool[s])
    BY DEF InPool, Elements
  <2>3. c \in ConnsOf(s) /\ c \in Conns /\ c # NoConn /\ logic[s].con # c
    BY <2>1, <2>2, OwnConns, SqlDaoAssumption DEF Split
  <2>4. Friends(pending[c]) # {}
    BY <1>1 DEF Friends
  <2>5. PICK t \in Servers : Befriends(t, c)
    BY <2>3, <2>4 DEF FriendInv
  <2>6. t # s /\ c \in ConnsOf(t)
    BY <2>3, <2>5 DEF Befriends, IInv, OwnInv
  <2>7. QED
    BY <2>3, <2>6, ConnsApart
<1>2. QED
  BY <1>1 DEF FriendInv, Mutual, FriendsBothWays

(* Whatever fails between the two inserts, and however many servers        *)
(* confirm the same users at once, the tables have a friendship both ways, *)
(* and no half of one is left on a connection in the pool.                 *)
THEOREM FriendsCorrect == Spec => []FriendsBothWays
BY InitInv, NextInv, PlaceInit, PlaceNext, FriendInit, FriendNext, FriendsMutual, PTL DEF Spec

-----------------------------------------------------------------------------
(* A handler waits for a connection only while the other thread has one.   *)
WaitsForReader == \A s \in Servers :
    logic[s].at \in {"get", "getuser"} /\ pool[s] = <<>> => reader[s] # NoConn

LEMMA WaitsHolds == PoolSize > 1 /\ PlaceInv => WaitsForReader
<1> SUFFICES ASSUME PoolSize > 1, PlaceInv, NEW s \in Servers,
                    logic[s].at \in {"get", "getuser"}, pool[s] = <<>>, reader[s] = NoConn
             PROVE  FALSE
  BY DEF WaitsForReader
<1>1. /\ Split(ConnsOf(s), pool[s], logic[s].con, logic[s].con2, reader[s])
      /\ logic[s].con2 = NoConn
  BY DEF PlaceInv
<1>2. Elements(pool[s]) = {}
  BY DEF Elements
<1>3. ConnsOf(s) \subseteq {logic[s].con}
  BY <1>1, <1>2 DEF Split
<1>4. <<s, 1>> \in ConnsOf(s) /\ <<s, 2>> \in ConnsOf(s)
  BY SqlDaoAssumption DEF ConnsOf
<1>5. <<s, 1>> # <<s, 2>>
  OBVIOUS
<1>6. QED
  BY <1>3, <1>4, <1>5

(* GetFriendList asks for a second connection while it keeps its first.    *)
(* With two or more in the pool no handler waits for one that only itself  *)
(* could return, whatever has failed before: none has been lost.           *)
THEOREM WaitsCorrect ==
  ASSUME PoolSize > 1
  PROVE  Spec => []WaitsForReader
<1>1. PlaceInv => WaitsForReader
  BY WaitsHolds
<1>2. QED
  BY <1>1, InitInv, NextInv, PlaceInit, PlaceNext, PTL DEF Spec

-----------------------------------------------------------------------------
(* Every step of a handler takes it nearer to its end: to a later          *)
(* function, to a later step of the function, or to fewer friends to look  *)
(* up over the second connection.                                          *)
CallsLeft == [AddFriendApply |-> 0, AuthFriendApply |-> 1, AddFriend |-> 0,
              GetApplyList |-> 1, GetFriendList |-> 0]
PlaceLeft == [get |-> 8, run |-> 7, insert |-> 6, insert2 |-> 5, commit |-> 4,
              getuser |-> 3, user |-> 3, rollback |-> 2, return |-> 1]

Further(l, m) ==
    \/ PlaceLeft[m.at] < PlaceLeft[l.at]
    \/ l.at = "getuser" /\ m.at = "user" /\ m.left = l.left
    \/ l.at = "user" /\ m.at = "getuser" /\ m.left \subseteq l.left /\ m.left # l.left

Nearer(l, m) ==
    \/ m = Idle
    \/ /\ m.at # "idle" /\ m.req = l.req
       /\ \/ CallsLeft[m.call] < CallsLeft[l.call]
          \/ m.call = l.call /\ Further(l, m)

(* A handler is at a step of the function it is in, with a friend to look  *)
(* up if it looks one up.                                                  *)
InCall(l) ==
    /\ l.at # "idle" => l.call # "none"
    /\ l.at \in {"insert", "insert2", "commit", "rollback"} => l.call = "AddFriend"
    /\ l.at \in {"getuser", "user"} => l.call = "GetFriendList" /\ l.left # {}

CallInv == \A s \in Servers : InCall(logic[s])

Serves(s) == Gets(s) \/ Statement(s) \/ ReturnConnection(s)

LEMMA ServesNearer ==
  ASSUME IInv, NEW s \in Servers, InCall(logic[s]), Serves(s), logic' \in [Servers -> LogicStates]
  PROVE  Nearer(logic[s], logic'[s]) /\ InCall(logic'[s])
<1> DEFINE l == logic[s]  m == logic'[s]
<1>1. l \in LogicStates /\ m \in LogicStates /\ logic \in [Servers -> LogicStates]
  BY DEF IInv, TypeOK
<1>2. SUFFICES \/ m = Idle
               \/ /\ m.at # "idle" /\ m.req = l.req /\ InCall(m)
                  /\ \/ CallsLeft[m.call] < CallsLeft[l.call]
                     \/ m.call = l.call /\ Further(l, m)
  BY DEF Nearer, Idle, InCall
<1>3. CASE GetConnection(s)
  BY <1>1, <1>3 DEF GetConnection, LogicStates, InCall, Further, PlaceLeft
<1>4. CASE GetUserTakes(s)
  BY <1>1, <1>4 DEF GetUserTakes, LogicStates, InCall, Further
<1>5. CASE AddFriendApply(s) \/ AuthFriendApply(s)
  <2>1. /\ l.at = "run" /\ m.at = "return" /\ m.call = l.call /\ m.req = l.req
    BY <1>1, <1>5 DEF AddFriendApply, AuthFriendApply, At, Wrote, LogicStates
  <2>2. QED
    BY <1>1, <2>1 DEF InCall, Further, PlaceLeft
<1>6. CASE SetAutoCommit(s)
  BY <1>1, <1>6 DEF SetAutoCommit, At, Goes, LogicStates, InCall, Further, PlaceLeft
<1>7. CASE InsertFriend(s)
  BY <1>1, <1>7 DEF InsertFriend, Goes, LogicStates, InCall, Further, PlaceLeft
<1>8. CASE InsertFriendBack(s)
  BY <1>1, <1>8 DEF InsertFriendBack, Goes, LogicStates, InCall, Further, PlaceLeft
<1>9. CASE Commit(s)
  BY <1>1, <1>9 DEF Commit, Wrote, LogicStates, InCall, Further, PlaceLeft
<1>10. CASE CommitFails(s)
  BY <1>1, <1>10 DEF CommitFails, Goes, LogicStates, InCall, Further, PlaceLeft
<1>11. CASE Rollback(s)
  BY <1>1, <1>11 DEF Rollback, Goes, LogicStates, InCall, Further, PlaceLeft
<1>12. CASE StatementFails(s)
  <2>1. /\ l.at \in {"run", "insert", "insert2"} /\ m.call = l.call /\ m.req = l.req
        /\ m.at = IF l.call = "AddFriend" THEN "rollback" ELSE "return"
    BY <1>1, <1>12 DEF StatementFails, AfterException, LogicStates
  <2>2. CASE l.call = "AddFriend"
    BY <1>1, <2>1, <2>2 DEF InCall, Further, PlaceLeft
  <2>3. CASE l.call # "AddFriend"
    <3>1. l.at = "run" /\ m.at = "return" /\ l.call # "none"
      BY <2>1, <2>3 DEF InCall
    <3>2. QED
      BY <1>1, <2>1, <3>1 DEF InCall, Further, PlaceLeft
  <2>4. QED
    BY <2>2, <2>3
<1>13. CASE GetApplyList(s)
  <2>1. l.at = "run" /\ m.at = "return" /\ m.call = l.call /\ m.req = l.req /\ l.call = "GetApplyList"
    BY <1>1, <1>13 DEF GetApplyList, At, LogicStates
  <2>2. QED
    BY <1>1, <2>1 DEF InCall, Further, PlaceLeft
<1>14. CASE GetFriendList(s)
  <2>1. /\ l.at = "run" /\ l.call = "GetFriendList" /\ m.call = l.call /\ m.req = l.req
        /\ m.at = IF m.left = {} THEN "return" ELSE "getuser"
    BY <1>1, <1>14 DEF GetFriendList, At, LogicStates
  <2>2. QED
    BY <1>1, <2>1 DEF InCall, Further, PlaceLeft
<1>15. CASE GetUserReturns(s)
  <2>1. PICK v \in l.left :
           logic' = [logic EXCEPT ![s].left = @ \ {v}, ![s].con2 = NoConn,
                                  ![s].at = IF l.left = {v} THEN "return" ELSE "getuser"]
    BY <1>15 DEF GetUserReturns
  <2>2. /\ l.at = "user" /\ m.call = l.call /\ m.req = l.req /\ m.left = l.left \ {v}
        /\ m.at = IF l.left = {v} THEN "return" ELSE "getuser"
    BY <1>1, <1>15, <2>1 DEF GetUserReturns, LogicStates
  <2>3. CASE l.left = {v}
    BY <1>1, <2>2, <2>3 DEF InCall, Further, PlaceLeft
  <2>4. CASE l.left # {v}
    <3>1. m.left # {} /\ m.left \subseteq l.left /\ m.left # l.left
      BY <2>1, <2>2, <2>4
    <3>2. QED
      BY <1>1, <2>2, <2>4, <3>1 DEF InCall, Further
  <2>5. QED
    BY <2>3, <2>4
<1>16. CASE ReturnConnection(s)
  <2>1. CASE NextCall(l.call) = "none"
    BY <1>1, <1>16, <2>1 DEF ReturnConnection
  <2>2. CASE NextCall(l.call) # "none"
    <3>1. /\ l.at = "return" /\ m.at = "get" /\ m.call = NextCall(l.call) /\ m.req = l.req
      BY <1>1, <1>16, <2>2 DEF ReturnConnection, LogicStates
    <3>2. l.call \in {"AuthFriendApply", "GetApplyList"} /\ m.call \in {"AddFriend", "GetFriendList"}
      BY <2>2, <3>1 DEF NextCall
    <3>3. CallsLeft[m.call] < CallsLeft[l.call]
      BY <3>2 DEF CallsLeft
    <3>4. QED
      BY <3>1, <3>2, <3>3 DEF InCall
  <2>3. QED
    BY <2>1, <2>2
<1>17. QED
  BY <1>3, <1>4, <1>5, <1>6, <1>7, <1>8, <1>9, <1>10, <1>11, <1>12, <1>13, <1>14, <1>15, <1>16
     DEF Serves, Gets, Statement

(* What else happens to a handler: it begins, or its process ends.         *)
LEMMA OthersLeave ==
  ASSUME IInv, [Next]_vars, NEW s \in Servers, ~Serves(s)
  PROVE  \/ logic'[s] = logic[s] \/ logic'[s] = Idle
         \/ \E r \in Requests : logic[s] = Idle /\ Begin(s, r)
<1>1. logic \in [Servers -> LogicStates]
  BY DEF IInv, TypeOK
<1>2. CASE UNCHANGED vars
  BY <1>2 DEF vars
<1>3. CASE \E c \in Conns : Breaks(c)
  BY <1>3 DEF Breaks
<1>4. ASSUME NEW t \in Servers, Serves(t)
      PROVE  logic'[s] = logic[s]
  <2>1. t # s
    BY <1>4
  <2>2. CASE GetConnection(t) \/ GetUserTakes(t) \/ ReturnConnection(t)
    BY <1>1, <2>1, <2>2 DEF GetConnection, GetUserTakes, ReturnConnection
  <2>3. CASE AddFriendApply(t) \/ AuthFriendApply(t) \/ Commit(t)
    BY <1>1, <2>1, <2>3 DEF AddFriendApply, AuthFriendApply, Commit, Wrote
  <2>4. CASE \/ SetAutoCommit(t) \/ InsertFriend(t) \/ InsertFriendBack(t)
             \/ CommitFails(t) \/ Rollback(t)
    BY <1>1, <2>1, <2>4 DEF SetAutoCommit, InsertFriend, InsertFriendBack, CommitFails, Rollback, Goes
  <2>5. CASE \/ GetApplyList(t) \/ GetFriendList(t) \/ GetUserReturns(t) \/ StatementFails(t)
    BY <1>1, <2>1, <2>5 DEF GetApplyList, GetFriendList, GetUserReturns, StatementFails
  <2>6. QED
    BY <1>4, <2>2, <2>3, <2>4, <2>5 DEF Serves, Gets, Statement
<1>5. ASSUME NEW t \in Servers, NEW r \in Requests, Begin(t, r)
      PROVE  logic'[s] = logic[s] \/ (logic[s] = Idle /\ Begin(s, r))
  BY <1>1, <1>5 DEF Begin
<1>6. ASSUME NEW t \in Servers,
             \/ ReaderTakes(t) \/ ReaderReturns(t)
             \/ CheckConnection(t) \/ Crash(t) \/ Terminates(t)
      PROVE  logic'[s] = logic[s] \/ logic'[s] = Idle
  BY <1>1, <1>6 DEF ReaderTakes, ReaderReturns, CheckConnection, Crash, Terminates, Restart
<1>7. CASE \E t \in Servers : Serves(t)
  BY <1>4, <1>7
<1>8. CASE \E t \in Servers, r \in Requests : Begin(t, r)
  BY <1>5, <1>8
<1>9. CASE \E t \in Servers : \/ ReaderTakes(t) \/ ReaderReturns(t)
                             \/ CheckConnection(t) \/ Crash(t) \/ Terminates(t)
  BY <1>6, <1>9
<1>10. QED
  BY <1>2, <1>3, <1>7, <1>8, <1>9 DEF Next, Serves

LEMMA CallInit == Init => CallInv
<1>1. InCall(Idle)
  BY DEF InCall, Idle
<1>2. Init => \A s \in Servers : logic[s] = Idle
  BY DEF Init
<1>3. QED
  BY <1>1, <1>2 DEF CallInv

LEMMA CallNext == IInv /\ CallInv /\ [Next]_vars => CallInv'
<1> SUFFICES ASSUME IInv, CallInv, [Next]_vars, NEW s \in Servers
             PROVE  InCall(logic'[s])
  BY DEF CallInv, InCall
<1>1. InCall(logic[s])
  BY DEF CallInv
<1>2. logic' \in [Servers -> LogicStates]
  BY NextInv DEF IInv, TypeOK
<1>3. CASE Serves(s)
  BY <1>1, <1>2, <1>3, ServesNearer
<1>4. ASSUME NEW r \in Requests, Begin(s, r)
      PROVE  InCall(logic'[s])
  <2>1. logic'[s].at = "get" /\ logic'[s].call = FirstCall[Kind[r]]
    BY <1>4 DEF Begin, Idle, IInv, TypeOK
  <2>2. Kind[r] \in {"apply", "auth", "login"}
    BY SqlDaoAssumption
  <2>3. FirstCall[Kind[r]] # "none"
    BY <2>2 DEF FirstCall
  <2>4. QED
    BY <2>1, <2>3 DEF InCall
<1>5. InCall(Idle)
  BY DEF InCall, Idle
<1>6. QED
  BY <1>1, <1>3, <1>4, <1>5, OthersLeave

(* No handler is in the middle of a function without being in one, and     *)
(* none asks for a second connection without a friend to look up.          *)
THEOREM CallCorrect == Spec => []CallInv
BY InitInv, NextInv, CallInit, CallNext, PTL DEF Spec

Advances(s) == logic[s].at # "idle" =>
    \/ Serves(s) /\ Nearer(logic[s], logic'[s])
    \/ logic'[s] \in {logic[s], Idle}

(* Every step of a request's thread takes it nearer to its end, and nobody *)
(* else's takes it back: no exception, rollback or retry puts a handler    *)
(* where it has been.  With finitely many friends a request has finitely   *)
(* many steps; RequestsEnd has to add only that each of them is taken.     *)
THEOREM RequestsAdvance == Spec => [][\A s \in Servers : Advances(s)]_vars
<1>1. IInv /\ CallInv /\ [Next]_vars => [\A s \in Servers : Advances(s)]_vars
  <2> SUFFICES ASSUME IInv, CallInv, [Next]_vars, NEW s \in Servers, logic[s].at # "idle"
               PROVE  \/ Serves(s) /\ Nearer(logic[s], logic'[s])
                      \/ logic'[s] \in {logic[s], Idle}
    BY DEF Advances
  <2>1. InCall(logic[s])
    BY DEF CallInv
  <2>2. logic' \in [Servers -> LogicStates]
    BY NextInv DEF IInv, TypeOK
  <2>3. logic[s] # Idle
    BY DEF Idle
  <2>4. CASE Serves(s)
    BY <2>1, <2>2, <2>4, ServesNearer
  <2>5. QED
    BY <2>3, <2>4, OthersLeave
<1>2. QED
  BY <1>1, InitInv, NextInv, CallInit, CallNext, PTL DEF Spec
=============================================================================
