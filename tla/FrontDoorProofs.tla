-------------------------- MODULE FrontDoorProofs ---------------------------
(***************************************************************************)
(* Proofs about FrontDoor and the GateServer it extends, for any devices,  *)
(* names, pools, threads and chat servers: types, codes and passwords,     *)
(* connections, tokens, counters and their balance, and that requests go   *)
(* on, never back, and do not all wait for one another.                    *)
(***************************************************************************)
EXTENDS FrontDoor, FiniteSetTheorems, TLAPS

-----------------------------------------------------------------------------
(* Types.  A request on its way to the status server has a row of the user *)
(* table for its address: rows are never removed.                          *)
HasRow(a) == \E n \in Names : table[n] # NoRow /\ table[n].email = a.email
KnownInv == \A d \in Devices : stage[d] \in {"choose", "poll"} => HasRow(ask[d])
TypeInv == TypeOK /\ KnownInv

StageType == stage \in [Devices -> Stages] /\ ask \in [Devices -> Asks \cup {NoAsk}]
             /\ thread \in [Devices -> Threads \cup {NoThread}]
             /\ \A d \in Devices : InGate(d) \/ stage[d] = "queued" => ask[d] # NoAsk

LEMMA AwayStage == "away" \in Stages /\ "away" \notin GateStages /\ "away" # "queued"
BY DEF Stages, GateStages, NodeStages, Holding, Waiting

LEMMA GoType ==
    ASSUME StageType, NEW d \in Devices, NEW from, NEW to \in Stages, NEW a \in Asks \cup {NoAsk},
           to \in GateStages \cup {"queued"} => a # NoAsk, GoWith(d, from, to, a)
    PROVE  StageType'
<1>1. stage' \in [Devices -> Stages] /\ ask' \in [Devices -> Asks \cup {NoAsk}]
      /\ thread' \in [Devices -> Threads \cup {NoThread}]
  BY DEF StageType, GoWith
<1>2. ASSUME NEW e \in Devices, InGate(e)' \/ stage'[e] = "queued" PROVE ask'[e] # NoAsk
  <2>1. CASE e = d
    BY <1>2, <2>1, AwayStage DEF StageType, GoWith, InGate
  <2>2. CASE e # d
    BY <1>2, <2>2 DEF StageType, GoWith, InGate
  <2>3. QED
    BY <2>1, <2>2
<1>3. QED
  BY <1>1, <1>2 DEF StageType

LEMMA AwayType ==
    ASSUME StageType, NEW D, AllAnswered(D)
    PROVE  StageType'
<1>1. stage' \in [Devices -> Stages] /\ ask' \in [Devices -> Asks \cup {NoAsk}]
      /\ thread' \in [Devices -> Threads \cup {NoThread}]
  BY AwayStage DEF StageType, AllAnswered
<1>2. ASSUME NEW e \in Devices, InGate(e)' \/ stage'[e] = "queued" PROVE ask'[e] # NoAsk
  BY <1>2, AwayStage DEF StageType, AllAnswered, InGate
<1>3. QED
  BY <1>1, <1>2 DEF StageType

LEMMA SpendType ==
    ASSUME budget \in [Bounds -> Nat], NEW b \in Bounds, Spend(b)
    PROVE  budget' \in [Bounds -> Nat]
BY DEF Spend

GateData ==
    /\ table \in [Names -> Rows \cup {NoRow}]
    /\ idle \in Nat /\ redis \in Nat /\ lost \in Nat
    /\ store \in [Emails -> Nat] /\ expires \in [Emails -> BOOLEAN]
    /\ nodeRedis \in BOOLEAN
    /\ budget \in [Bounds -> Nat]
    /\ issued \in Seq(Emails) /\ seen \in [Devices -> Nat]
    /\ mails \in SUBSET (Emails \X Nat) /\ unfinished \in SUBSET Emails

LEMMA GateTypes == GateTypeOK <=> StageType /\ GateData
BY DEF GateTypeOK, StageType, GateData

(* The fields of a request that is being handled.                          *)
LEMMA AskFields ==
    ASSUME StageType, NEW d \in Devices, InGate(d) \/ stage[d] = "queued"
    PROVE  /\ ask[d] \in Asks /\ ask[d].kind \in Kinds /\ ask[d].name \in Names
           /\ ask[d].email \in Emails /\ ask[d].code \in Nat /\ ask[d].pwd \in Passwords
BY DEF StageType, Asks

(* A sequence that grows by one address.                                   *)
LEMMA GrowsType ==
    ASSUME issued \in Seq(Emails), NEW e \in Emails
    PROVE  Append(issued, e) \in Seq(Emails) /\ Len(issued) + 1 \in Nat
OBVIOUS

LEMMA GetRedisType ==
    ASSUME StageType, GateData, NEW d \in Devices, GetRedis(d)
    PROVE  StageType' /\ GateData'
<1> DEFINE found == IF nodeRedis THEN store[ask[d].email] ELSE 0
           a == [ask[d] EXCEPT !.code = found]
           to == IF found = 0 THEN "set" ELSE "mail"
<1>1. InGate(d)
  BY DEF GetRedis, InGate, GateStages, NodeStages
<1>2. found \in Nat /\ a \in Asks
  BY <1>1, AskFields DEF GateData, Asks
<1>3. to \in Stages /\ a # NoAsk
  BY <1>2, GateAssumption DEF Stages, GateStages, NodeStages
<1>4. GoWith(d, "look", to, a)
  BY DEF GetRedis
<1>5. StageType'
  <2> HIDE DEF to, a
  <2> QED BY <1>2, <1>3, <1>4, GoType
<1>6. seen' \in [Devices -> Nat]
  BY DEF GetRedis, GateData
<1>7. QED
  BY <1>5, <1>6 DEF GetRedis, GateData, pools, codes

LEMMA SetCodeType ==
    ASSUME StageType, GateData, NEW d \in Devices, SetCode(d)
    PROVE  StageType' /\ GateData'
<1> DEFINE a == [ask[d] EXCEPT !.code = Len(issued) + 1]
<1>1. stage[d] = "set" /\ InGate(d)
  BY DEF SetCode, GoWith, InGate, GateStages, NodeStages
<1>2. a \in Asks /\ ask[d].email \in Emails /\ Append(issued, ask[d].email) \in Seq(Emails)
  BY <1>1, AskFields, GrowsType DEF GateData, Asks
<1>3. "expire" \in Stages /\ a # NoAsk
  BY <1>2, GateAssumption DEF Stages, GateStages, NodeStages
<1>4. GoWith(d, "set", "expire", a)
  BY DEF SetCode
<1>5. StageType'
  <2> HIDE DEF a
  <2> QED BY <1>2, <1>3, <1>4, GoType
<1>6. QED
  BY <1>2, <1>5 DEF SetCode, GateData, pools

(* A request that goes on with the same fields.                            *)
LEMMA GoSame ==
    ASSUME StageType, NEW d \in Devices, NEW from, NEW to \in Stages,
           InGate(d) \/ stage[d] = "queued", Go(d, from, to)
    PROVE  StageType'
<1>1. ask[d] \in Asks \cup {NoAsk} /\ ask[d] # NoAsk
  BY DEF StageType
<1>2. QED
  BY <1>1, GoType DEF Go

LEMMA GateStageNames ==
    /\ GateStages \subseteq Stages /\ "away" \in Stages /\ "queued" \in Stages
    /\ NodeStages \subseteq GateStages /\ Holding \subseteq GateStages
    /\ Waiting \subseteq GateStages
    /\ \A k \in Kinds : FirstStage[k] \in GateStages \ {"choose", "poll", "issue", "reply"}
    /\ \A w \in Waiting : Wanted[w] \in Holding
BY DEF Stages, GateStages, NodeStages, Holding, Waiting, Kinds, FirstStage, Wanted

LEMMA RequestsType == Requests \subseteq [kind : Kinds, name : Names, email : Emails, code : Nat, pwd : Passwords]
                      \/ ~GateData
<1> SUFFICES ASSUME GateData, NEW a \in Requests PROVE a \in [kind : Kinds, name : Names, email : Emails, code : Nat, pwd : Passwords]
  OBVIOUS
<1> DEFINE n == CHOOSE x \in Names : TRUE
           p == CHOOSE x \in Passwords : TRUE
           known == {0} \cup {m[2] : m \in mails}
<1>1. n \in Names /\ p \in Passwords
  BY GateAssumption
<1>2. known \subseteq Nat
  BY DEF GateData
<1>3. \/ a \in {[kind |-> "code", name |-> n, email |-> e, code |-> 0, pwd |-> p] : e \in Emails}
      \/ a \in [kind : {"register", "reset"}, name : Names, email : Emails, code : known,
                pwd : Passwords]
      \/ a \in [kind : {"login"}, name : {n}, email : Emails, code : {0}, pwd : Passwords]
  BY DEF Requests
<1> HIDE DEF n, p, known
<1>4. CASE a \in {[kind |-> "code", name |-> n, email |-> e, code |-> 0, pwd |-> p] : e \in Emails}
  BY <1>1, <1>4 DEF Kinds
<1>5. CASE a \in [kind : {"register", "reset"}, name : Names, email : Emails, code : known,
                 pwd : Passwords]
  BY <1>2, <1>5 DEF Kinds
<1>6. CASE a \in [kind : {"login"}, name : {n}, email : Emails, code : {0}, pwd : Passwords]
  BY <1>1, <1>6 DEF Kinds
<1>7. QED
  BY <1>3, <1>4, <1>5, <1>6

LEMMA AcceptType ==
    ASSUME StageType, GateData, NEW d \in Devices, NEW a \in Requests, NEW t \in Threads,
           Accept(d, a, t)
    PROVE  StageType' /\ GateData'
<1>1. a \in Asks /\ a # NoAsk /\ a.kind \in Bounds
  BY RequestsType, GateAssumption DEF Asks, Bounds
<1>2. budget' \in [Bounds -> Nat]
  BY <1>1, SpendType DEF Accept, GateData
<1>3. stage' \in [Devices -> Stages] /\ ask' \in [Devices -> Asks \cup {NoAsk}]
      /\ thread' \in [Devices -> Threads \cup {NoThread}]
  BY <1>1, GateStageNames DEF Accept, StageType
<1>4. ASSUME NEW e \in Devices, InGate(e)' \/ stage'[e] = "queued" PROVE ask'[e] # NoAsk
  BY <1>1, <1>4 DEF Accept, StageType, InGate
<1>5. QED
  BY <1>2, <1>3, <1>4 DEF StageType, GateData, Accept, pools, codes

(* The actions of the gate and of the verification server keep the types.  *)
LEMMA GateStepType ==
    ASSUME StageType, GateData, NEW d \in Devices, GateStep(d)
    PROVE  StageType' /\ GateData'
<1> USE DEF pools, codes
<1>1. CASE HandleReq(d)
  <2>1. ask[d].kind \in Kinds /\ stage[d] = "queued"
    BY <1>1, AskFields DEF HandleReq
  <2>2. FirstStage[ask[d].kind] \in Stages
    BY <2>1, GateStageNames
  <2>3. StageType'
    BY <1>1, <2>1, <2>2, GoSame DEF HandleReq
  <2>4. QED
    BY <1>1, <2>3 DEF HandleReq, GateData
<1>2. CASE GetRedis(d)
  BY <1>2, GetRedisType
<1>3. CASE SetCode(d)
  BY <1>3, SetCodeType
<1>4. CASE Expire(d)
  <2>1. stage[d] = "expire" /\ InGate(d) /\ "mail" \in Stages
    BY <1>4, GateStageNames DEF Expire, Go, GoWith, InGate, GateStages, NodeStages
  <2>2. StageType'
    BY <1>4, <2>1, GoSame DEF Expire
  <2>3. QED
    BY <1>4, <2>1, <2>2, AskFields DEF Expire, GateData
<1>5. CASE RedisErr(d)
  <2>1. InGate(d) /\ Answered \in Stages
    BY <1>5, GateStageNames DEF RedisErr, InGate, GateStages, NodeStages, Answered
  <2>2. StageType'
    BY <1>5, <2>1, GoSame DEF RedisErr
  <2>3. CutOff({d}) \in SUBSET Emails
    <3>1. ask[d].email \in Emails
      BY <2>1, AskFields
    <3>2. QED
      BY <3>1 DEF CutOff
  <2>4. QED
    BY <1>5, <2>2, <2>3 DEF RedisErr, GateData
<1>6. CASE SendMail(d)
  <2>1. stage[d] = "mail" /\ InGate(d) /\ Answered \in Stages
    BY <1>6, GateStageNames DEF SendMail, Go, GoWith, InGate, GateStages, NodeStages, Answered
  <2>2. StageType'
    BY <1>6, <2>1, GoSame DEF SendMail
  <2>3. ask[d].email \in Emails /\ ask[d].code \in Nat
    BY <2>1, AskFields
  <2>4. mails' \in SUBSET (Emails \X Nat)
    BY <1>6, <2>3 DEF SendMail, GateData
  <2>5. QED
    BY <1>6, <2>2, <2>4 DEF SendMail, GateData
<1>7. CASE CompareCode(d)
  <2>1. stage[d] = "compare" /\ InGate(d)
    BY <1>7 DEF CompareCode, InGate, GateStages
  <2>2. \A x \in {Answered, "wait insert", "wait email"} : x \in Stages
    BY GateStageNames DEF Answered, Waiting
  <2>3. StageType'
    BY <1>7, <2>1, <2>2, GoSame DEF CompareCode
  <2>4. ask[d].email \in Emails
    BY <2>1, AskFields
  <2>5. redis' \in Nat
    <3>1. redis' \in {redis, redis - 1} /\ redis > 0
      BY <1>7 DEF CompareCode
    <3>2. QED
      BY <3>1 DEF GateData
  <2>6. budget' \in [Bounds -> Nat]
    BY <1>7, SpendType DEF CompareCode, GateData, Bounds
  <2>7. QED
    BY <1>7, <2>3, <2>5, <2>6 DEF CompareCode, GateData
<1>8. CASE GetConnection(d)
  <2>1. stage[d] \in Waiting /\ InGate(d) /\ Wanted[stage[d]] \in Stages
    BY <1>8, GateStageNames DEF GetConnection, InGate
  <2>2. StageType'
    BY <1>8, <2>1, GoSame DEF GetConnection
  <2>3. QED
    BY <1>8, <2>2 DEF GetConnection, GateData
<1>9. CASE RegUser(d)
  <2>1. stage[d] = "insert" /\ InGate(d) /\ Answered \in Stages
    BY <1>9, GateStageNames DEF RegUser, ReturnConnection, Go, GoWith, InGate, Holding, Answered
  <2>2. StageType'
    BY <1>9, <2>1, GoSame DEF RegUser, ReturnConnection
  <2>3. ask[d].name \in Names /\ RowOf(ask[d]) \in Rows
    BY <2>1, AskFields DEF RowOf, Rows
  <2>4. budget' \in [Bounds -> Nat] /\ table' \in [Names -> Rows \cup {NoRow}]
    BY <1>9, <2>3, SpendType DEF RegUser, GateData, Bounds
  <2>5. QED
    BY <1>9, <2>2, <2>4 DEF RegUser, ReturnConnection, GateData
<1>10. CASE CheckEmail(d)
  <2>1. stage[d] = "email" /\ InGate(d) /\ Answered \in Stages /\ "wait update" \in Stages
    BY <1>10, GateStageNames DEF CheckEmail, InGate, Holding, Answered, Waiting
  <2>2. StageType'
    BY <1>10, <2>1, GoSame DEF CheckEmail, LosesConnection, ReturnConnection
  <2>3. budget' \in [Bounds -> Nat]
    BY <1>10, SpendType DEF CheckEmail, LosesConnection, GateData, Bounds
  <2>4. QED
    <3>1. idle' \in {idle, idle + 1} /\ lost' \in {lost, lost + 1}
      BY <1>10 DEF CheckEmail, LosesConnection, ReturnConnection
    <3>2. UNCHANGED <<table, redis, codes>>
      BY <1>10 DEF CheckEmail, LosesConnection, ReturnConnection
    <3>3. QED
      BY <2>2, <2>3, <3>1, <3>2 DEF GateData
<1>11. CASE UpdatePwd(d)
  <2>1. stage[d] = "update" /\ InGate(d) /\ Answered \in Stages
    BY <1>11, GateStageNames DEF UpdatePwd, ReturnConnection, Go, GoWith, InGate, Holding, Answered
  <2>2. StageType'
    BY <1>11, <2>1, GoSame DEF UpdatePwd, ReturnConnection
  <2>3. ask[d].name \in Names /\ ask[d].pwd \in Passwords /\ ask[d].code \in Nat
    BY <2>1, AskFields
  <2>4. budget' \in [Bounds -> Nat]
    BY <1>11, SpendType DEF UpdatePwd, GateData, Bounds
  <2>5. table' \in [Names -> Rows \cup {NoRow}]
    <3> DEFINE a == ask[d]
               row == table[a.name]
               new == IF row = NoRow THEN NoRow ELSE [row EXCEPT !.pwd = a.pwd, !.proof = a.code]
    <3>1. table' \in {table, [table EXCEPT ![a.name] = new]}
      BY <1>11 DEF UpdatePwd
    <3>2. row \in Rows \cup {NoRow}
      BY <2>3 DEF GateData
    <3>3. new \in Rows \cup {NoRow}
      BY <2>3, <3>2 DEF Rows
    <3> HIDE DEF new
    <3>4. QED
      BY <3>1, <3>3 DEF GateData
  <2>6. QED
    BY <1>11, <2>2, <2>4, <2>5 DEF UpdatePwd, ReturnConnection, GateData
<1>12. CASE CheckPwd(d)
  <2>1. stage[d] = "check" /\ InGate(d) /\ Answered \in Stages /\ "choose" \in Stages
    BY <1>12, GateStageNames DEF CheckPwd, InGate, Holding, Answered, GateStages
  <2>2. StageType'
    BY <1>12, <2>1, GoSame DEF CheckPwd, ReturnConnection
  <2>3. budget' \in [Bounds -> Nat]
    BY <1>12, SpendType DEF CheckPwd, GateData, Bounds
  <2>4. QED
    BY <1>12, <2>2, <2>3 DEF CheckPwd, ReturnConnection, GateData
<1>13. QED
  BY <1>1, <1>2, <1>3, <1>4, <1>5, <1>6, <1>7, <1>8, <1>9, <1>10, <1>11, <1>12 DEF GateStep

LEMMA GateEventType ==
    ASSUME StageType, GateData, GateEvent
    PROVE  StageType' /\ GateData'
<1> USE DEF pools, codes
<1>1. CASE \E d \in Devices, a \in Requests, t \in Threads : Accept(d, a, t)
  BY <1>1, AcceptType
<1>2. CASE \E e \in Emails : CodeExpires(e)
  BY <1>2 DEF CodeExpires, StageType, InGate, GateData
<1>3. CASE NodeLosesRedis
  <2>1. budget' \in [Bounds -> Nat]
    BY <1>3, SpendType DEF NodeLosesRedis, GateData, Bounds
  <2>2. QED
    BY <1>3, <2>1 DEF NodeLosesRedis, StageType, InGate, GateData
<1>4. CASE NodeRestarts
  <2>1. budget' \in [Bounds -> Nat]
    BY <1>4, SpendType DEF NodeRestarts, GateData, Bounds
  <2>2. CutOff(Devices) \in SUBSET Emails
    <3>1. \A d \in Devices : stage[d] = "expire" => ask[d].email \in Emails
      BY AskFields DEF InGate, GateStages, NodeStages
    <3>2. QED
      BY <3>1 DEF CutOff
  <2>3. StageType'
    BY <1>4, AwayType DEF NodeRestarts
  <2>4. QED
    BY <1>4, <2>1, <2>2, <2>3 DEF NodeRestarts, GateData
<1>5. QED
  BY <1>1, <1>2, <1>3, <1>4 DEF GateEvent

-----------------------------------------------------------------------------
(* The rest of the types: the status server's poll, tickets and counters.  *)
DoorData ==
    /\ token \in [Names -> Nat] /\ statusRedis \in Nat
    /\ count \in [Servers -> Nat \cup {NoCount}]
    /\ ticket \in [Devices -> Tickets \cup {NoTicket}]
    /\ own \in [Devices -> Nat] /\ up \in [Servers -> States]
    /\ tokens \in Nat /\ logins \in [Servers -> Nat]
    /\ steady \in BOOLEAN /\ miscounted \in SUBSET Servers /\ late \in SUBSET Servers
HaveTickets == \A d \in Devices : stage[d] \in Holders => ticket[d] # NoTicket

LEMMA TypeParts ==
    TypeInv <=> StageType /\ GateData /\ PollOK /\ DoorData /\ HaveTickets /\ KnownInv
BY GateTypes DEF TypeInv, TypeOK, DoorData, HaveTickets

(* What a step of the gate, or of the verification server, does to the     *)
(* stages and to the rows of the user table.                               *)
GateOnly == {"away", "queued"} \cup (GateStages \ {"choose", "poll", "issue", "reply"})
RowsKept == \A n \in Names : table[n] # NoRow =>
                table'[n] # NoRow /\ table'[n].email = table[n].email

LEMMA GateOnlyNames ==
    /\ GateOnly \subseteq Stages /\ GateOnly \intersect Holders = {}
    /\ "choose" \notin GateOnly \cup Holders /\ "poll" \notin GateOnly \cup Holders
    /\ NodeStages \subseteq GateOnly /\ Holding \subseteq GateOnly /\ Waiting \subseteq GateOnly
    /\ "compare" \in GateOnly /\ "away" \in GateOnly /\ "queued" \in GateOnly
    /\ \A k \in Kinds : FirstStage[k] \in GateOnly
<1> USE DEF GateOnly, GateStages, NodeStages, Holding, Waiting
<1>1. GateOnly \subseteq Stages
  BY DEF Stages
<1>2. GateOnly \intersect Holders = {}
  BY DEF Holders, Handling
<1>3. "choose" \notin GateOnly \cup Holders /\ "poll" \notin GateOnly \cup Holders
  BY DEF Holders, Handling
<1>4. NodeStages \subseteq GateOnly
  OBVIOUS
<1>5. Holding \subseteq GateOnly
  OBVIOUS
<1>6. Waiting \subseteq GateOnly
  OBVIOUS
<1>7. "compare" \in GateOnly /\ "away" \in GateOnly /\ "queued" \in GateOnly
  OBVIOUS
<1>8. \A k \in Kinds : FirstStage[k] \in GateOnly
  BY GateStageNames
<1> HIDE DEF GateOnly, GateStages, NodeStages, Holding, Waiting
<1>9. QED
  BY <1>1, <1>2, <1>3, <1>4, <1>5, <1>6, <1>7, <1>8

LEMMA GateStepStages ==
    ASSUME StageType, GateData, NEW d \in Devices, GateStep(d)
    PROVE  /\ stage[d] \in GateOnly /\ stage'[d] \in GateOnly \cup {"choose"}
           /\ \A e \in Devices : e # d => stage'[e] = stage[e] /\ ask'[e] = ask[e]
           /\ thread' \in {thread, [thread EXCEPT ![d] = NoThread]}
<1>1. CASE HandleReq(d)
  BY <1>1, AskFields, GateOnlyNames DEF HandleReq, Go, GoWith, StageType
<1>2. CASE GetRedis(d)
  BY <1>2, GateOnlyNames DEF GetRedis, Go, GoWith, StageType, NodeStages
<1>3. CASE SetCode(d)
  BY <1>3, GateOnlyNames DEF SetCode, Go, GoWith, StageType, NodeStages
<1>4. CASE Expire(d)
  BY <1>4, GateOnlyNames DEF Expire, Go, GoWith, StageType, NodeStages
<1>5. CASE RedisErr(d)
  BY <1>5, GateOnlyNames DEF RedisErr, Go, GoWith, StageType, NodeStages, Answered
<1>6. CASE SendMail(d)
  BY <1>6, GateOnlyNames DEF SendMail, Go, GoWith, StageType, NodeStages, Answered
<1>7. CASE CompareCode(d)
  BY <1>7, GateOnlyNames DEF CompareCode, Go, GoWith, StageType, Waiting, Answered
<1>8. CASE GetConnection(d)
  BY <1>8, GateOnlyNames, GateStageNames DEF GetConnection, Go, GoWith, StageType
<1>9. CASE RegUser(d)
  BY <1>9, GateOnlyNames DEF RegUser, ReturnConnection, Go, GoWith, StageType, Holding, Answered
<1>10. CASE CheckEmail(d)
  BY <1>10, GateOnlyNames DEF CheckEmail, LosesConnection, ReturnConnection, Go, GoWith, StageType,
     Holding, Waiting, Answered
<1>11. CASE UpdatePwd(d)
  BY <1>11, GateOnlyNames DEF UpdatePwd, ReturnConnection, Go, GoWith, StageType, Holding, Answered
<1>12. CASE CheckPwd(d)
  BY <1>12, GateOnlyNames DEF CheckPwd, ReturnConnection, Go, GoWith, StageType, Holding, Answered
<1>13. QED
  BY <1>1, <1>2, <1>3, <1>4, <1>5, <1>6, <1>7, <1>8, <1>9, <1>10, <1>11, <1>12 DEF GateStep

LEMMA GateStepRows ==
    ASSUME StageType, GateData, NEW d \in Devices, GateStep(d)
    PROVE  RowsKept /\ (stage'[d] = "choose" => HasRow(ask[d])')
<1>1. CASE RegUser(d)
  <2>1. stage[d] = "insert" /\ InGate(d)
    BY <1>1 DEF RegUser, ReturnConnection, Go, GoWith, InGate, GateStages, Holding
  <2>2. ask[d].name \in Names /\ RowOf(ask[d]) \in Rows
    BY <2>1, AskFields DEF RowOf, Rows
  <2>3. table' = table \/ /\ table[ask[d].name] = NoRow
                          /\ table' = [table EXCEPT ![ask[d].name] = RowOf(ask[d])]
    BY <1>1 DEF RegUser, Taken
  <2>4. stage'[d] = "away"
    BY <1>1 DEF RegUser, ReturnConnection, Go, GoWith, Answered, StageType
  <2>5. QED
    BY <2>2, <2>3, <2>4, GateAssumption DEF RowsKept, GateData
<1>2. CASE UpdatePwd(d)
  <2> DEFINE a == ask[d]
             row == table[a.name]
             new == [row EXCEPT !.pwd = a.pwd, !.proof = a.code]
  <2>1. stage[d] = "update" /\ InGate(d)
    BY <1>2 DEF UpdatePwd, ReturnConnection, Go, GoWith, InGate, GateStages, Holding
  <2>2. a.name \in Names /\ a.pwd \in Passwords /\ a.code \in Nat
    BY <2>1, AskFields
  <2>3. table' \in {table, [table EXCEPT ![a.name] = IF row = NoRow THEN NoRow ELSE new]}
    BY <1>2 DEF UpdatePwd
  <2>4. row # NoRow => new \in Rows /\ new.email = row.email
    BY <2>2 DEF GateData, Rows
  <2>5. stage'[d] = "away"
    BY <1>2 DEF UpdatePwd, ReturnConnection, Go, GoWith, Answered, StageType
  <2> HIDE DEF new
  <2>6. RowsKept
    BY <2>2, <2>3, <2>4, GateAssumption DEF RowsKept, GateData
  <2>7. QED
    BY <2>5, <2>6
<1>3. CASE CheckPwd(d)
  <2>1. stage'[d] = "choose" => PwdValid(ask[d]) /\ ask'[d] = ask[d]
    BY <1>3 DEF CheckPwd, ReturnConnection, Go, GoWith, Answered, StageType
  <2>2. table' = table
    BY <1>3 DEF CheckPwd
  <2>3. QED
    BY <2>1, <2>2 DEF RowsKept, HasRow, PwdValid
<1>4. CASE GateStep(d) /\ ~(RegUser(d) \/ UpdatePwd(d) \/ CheckPwd(d))
  <2>1. table' = table
    BY <1>4 DEF GateStep, HandleReq, GetRedis, SetCode, Expire, RedisErr, SendMail, CompareCode,
       GetConnection, CheckEmail, LosesConnection
  <2>2. stage'[d] # "choose"
    <3>1. "choose" \notin {"set", "mail", "expire", "away", "wait insert", "wait email", "wait update"}
          /\ "choose" \notin Holding
          /\ \A k \in Kinds : FirstStage[k] # "choose"
      BY DEF Holding, Kinds, FirstStage
    <3>2. CASE HandleReq(d)
      BY <3>1, <3>2, AskFields DEF HandleReq, Go, GoWith, StageType
    <3>3. CASE GetConnection(d)
      BY <3>1, <3>3, GateStageNames DEF GetConnection, Go, GoWith, StageType
    <3>4. QED
      BY <1>4, <3>1, <3>2, <3>3 DEF GateStep, GetRedis, SetCode, Expire, RedisErr, SendMail, CompareCode,
         CheckEmail, LosesConnection, ReturnConnection, Go, GoWith, Answered, StageType
  <2>3. QED
    BY <2>1, <2>2 DEF RowsKept
<1>5. QED
  BY <1>1, <1>2, <1>3, <1>4

LEMMA GateEventStages ==
    ASSUME StageType, GateData, GateEvent
    PROVE  /\ \A e \in Devices :
               \/ stage'[e] = stage[e] /\ ask'[e] = ask[e]
               \/ stage[e] \in GateOnly /\ stage'[e] \in {"queued", "away"}
           /\ table' = table
<1>1. CASE \E d \in Devices, a \in Requests, t \in Threads : Accept(d, a, t)
  BY <1>1, GateOnlyNames DEF Accept, StageType
<1>2. CASE \E f \in Emails : CodeExpires(f)
  BY <1>2 DEF CodeExpires
<1>3. CASE NodeLosesRedis
  BY <1>3 DEF NodeLosesRedis
<1>4. CASE NodeRestarts
  BY <1>4, GateOnlyNames DEF NodeRestarts, AllAnswered
<1>5. QED
  BY <1>1, <1>2, <1>3, <1>4 DEF GateEvent

(* So such a step leaves the polling device and the holders of tickets     *)
(* alone.                                                                  *)
LEMMA DoorUntouched ==
    ASSUME TypeInv, UNCHANGED doorVars, StageType', GateData', RowsKept,
           \A e \in Devices :
               \/ stage'[e] = stage[e] /\ ask'[e] = ask[e]
               \/ /\ stage[e] \in GateOnly /\ stage'[e] \in GateOnly \cup {"choose"}
                  /\ stage'[e] = "choose" => HasRow(ask[e])'
    PROVE  TypeInv'
<1>1. PollOK'
  BY TypeParts, GateOnlyNames DEF PollOK, doorVars
<1>2. DoorData'
  BY TypeParts DEF DoorData, doorVars
<1>3. HaveTickets'
  BY TypeParts, GateOnlyNames DEF HaveTickets, doorVars
<1>4. \A a : HasRow(a) => HasRow(a)'
  BY DEF HasRow, RowsKept
<1>5. KnownInv'
  <2> SUFFICES ASSUME NEW e \in Devices, stage'[e] \in {"choose", "poll"} PROVE HasRow(ask[e])'
    BY DEF KnownInv
  <2>1. CASE stage'[e] = stage[e] /\ ask'[e] = ask[e]
    <3>1. HasRow(ask[e])
      BY <2>1, TypeParts DEF KnownInv
    <3>2. QED
      BY <2>1, <3>1 DEF HasRow, RowsKept
  <2>2. CASE stage[e] \in GateOnly /\ stage'[e] \in GateOnly \cup {"choose"}
    BY <2>2, GateOnlyNames
  <2>3. QED
    BY <2>1, <2>2
<1>6. QED
  BY <1>1, <1>2, <1>3, <1>5, TypeParts DEF TypeInv, TypeOK, GateTypeOK, StageType, GateData, DoorData,
     HaveTickets

LEMMA GateKeepsTypes ==
    ASSUME TypeInv, UNCHANGED doorVars, (\E d \in Devices : GateStep(d)) \/ GateEvent
    PROVE  TypeInv'
<1>1. StageType /\ GateData
  BY TypeParts
<1>2. CASE \E d \in Devices : GateStep(d)
  <2>1. PICK d \in Devices : GateStep(d)
    BY <1>2
  <2>2. StageType' /\ GateData' /\ RowsKept /\ (stage'[d] = "choose" => HasRow(ask[d])')
    BY <1>1, <2>1, GateStepType, GateStepRows
  <2>3. QED
    BY <1>1, <2>1, <2>2, GateStepStages, DoorUntouched
<1>3. CASE GateEvent
  <2>1. StageType' /\ GateData'
    BY <1>1, <1>3, GateEventType
  <2>2. RowsKept
    BY <1>1, <1>3, GateEventStages DEF RowsKept
  <2>3. "queued" # "choose" /\ "away" # "choose"
    OBVIOUS
  <2>4. QED
    BY <1>1, <1>3, <2>1, <2>2, <2>3, GateEventStages, GateOnlyNames, DoorUntouched
<1>4. QED
  BY <1>2, <1>3

-----------------------------------------------------------------------------
(* The steps of the status server, the clients and the chat servers.       *)
LEMMA DoorNames ==
    /\ Holders \subseteq Stages /\ Holders \intersect {"queued", "choose", "poll", "away"} = {}
    /\ {"issue", "reply", "choose", "poll"} \subseteq GateStages
    /\ (Holders \ {"issue", "reply"}) \intersect GateStages = {}
    /\ Handling \subseteq Holders
BY DEF Holders, Handling, Stages, GateStages, NodeStages, Holding, Waiting

(* A step of d beyond the gate's own stages.                               *)
LEMMA GoDoor ==
    ASSUME StageType, NEW d \in Devices, NEW from, NEW to, Go(d, from, to),
           to \in {"away"} \cup (Holders \ {"issue", "reply"})
    PROVE  StageType'
<1>1. to \in Stages /\ to \notin GateStages \cup {"queued"}
  BY DoorNames, AwayStage
<1>2. ask[d] \in Asks \cup {NoAsk}
  BY DEF StageType
<1>3. QED
  BY <1>1, <1>2, GoType DEF Go

LEMMA GoOneStage ==
    ASSUME StageType, NEW d \in Devices, NEW from, NEW to, Go(d, from, to)
    PROVE  /\ stage[d] = from /\ stage'[d] = to
           /\ \A e \in Devices : e # d => stage'[e] = stage[e] /\ ask'[e] = ask[e]
           /\ to # "away" => ask'[d] = ask[d]
BY DEF Go, GoWith, StageType

LEMMA UserOfType ==
    ASSUME TypeInv, NEW d \in Devices, stage[d] = "poll"
    PROVE  UserOf(ask[d]) \in Names
BY TypeParts DEF KnownInv, HasRow, UserOf

LEMMA ServersType == \A i \in 1..Len(Order) : Order[i] \in Servers
BY DEF Servers

(* Types of a step that leaves the user table alone, moves only d, from    *)
(* a stage other than poll, and leaves poll alone.                         *)
LEMMA OneMoves ==
    ASSUME TypeInv, NEW d \in Devices, NEW from, NEW to, Go(d, from, to),
           from # "poll", to \notin {"choose", "poll"},
           UNCHANGED <<table, poll>>, StageType', GateData', DoorData',
           \A e \in Devices : e # d => ticket'[e] = ticket[e],
           to \in Holders => ticket'[d] # NoTicket
    PROVE  TypeInv'
<1>1. /\ stage[d] = from /\ stage'[d] = to
      /\ \A e \in Devices : e # d => stage'[e] = stage[e] /\ ask'[e] = ask[e]
  BY TypeParts, GoOneStage
<1>2. PollOK'
  BY <1>1, TypeParts DEF PollOK
<1>3. HaveTickets'
  BY <1>1, TypeParts DEF HaveTickets
<1>4. KnownInv'
  <2> SUFFICES ASSUME NEW e \in Devices, stage'[e] \in {"choose", "poll"} PROVE HasRow(ask[e])'
    BY DEF KnownInv
  <2>1. e # d
    BY <1>1
  <2>2. HasRow(ask[e])
    BY <1>1, <2>1, TypeParts DEF KnownInv
  <2>3. QED
    BY <1>1, <2>1, <2>2 DEF HasRow
<1>5. QED
  BY <1>2, <1>3, <1>4, TypeParts DEF TypeInv, TypeOK, GateTypeOK, StageType, GateData, DoorData,
     HaveTickets

LEMMA Unspent ==
    ASSUME GateData, UNCHANGED gateRest, budget' \in [Bounds -> Nat]
    PROVE  GateData'
BY DEF GateData, gateRest, pools, codes

(* The status server's steps.                                              *)
LEMMA StatusType ==
    ASSUME TypeInv, NEW d \in Devices,
           StartPoll(d) \/ ReadCount(d) \/ Choose(d) \/ InsertToken(d) \/ Reply(d) \/ RpcFails(d)
    PROVE  TypeInv'
<1>0. StageType /\ GateData /\ PollOK /\ DoorData /\ HaveTickets /\ KnownInv
  BY TypeParts
<1> USE <1>0
<1>1. CASE StartPoll(d)
  <2>1. stage[d] = "choose" /\ InGate(d) /\ "poll" \in Stages /\ "poll" # "away"
    BY <1>1, DoorNames, GateStageNames DEF StartPoll, Go, GoWith, InGate
  <2>2. StageType'
    BY <1>1, <2>1, GoSame DEF StartPoll
  <2>3. GateData' /\ DoorData'
    BY <1>1, Unspent DEF StartPoll, DoorData, GateData
  <2>4. /\ stage'[d] = "poll" /\ ask'[d] = ask[d]
        /\ \A e \in Devices : e # d => stage'[e] = stage[e] /\ ask'[e] = ask[e]
    BY <1>1, <2>1, GoOneStage DEF StartPoll
  <2>5. PollOK'
    BY <1>1, <2>4 DEF StartPoll, PollOK
  <2>6. HaveTickets' /\ KnownInv'
    BY <1>1, <2>1, <2>4, DoorNames DEF StartPoll, HaveTickets, KnownInv, HasRow, gateRest
  <2>7. QED
    BY <2>2, <2>3, <2>5, <2>6 DEF TypeInv, TypeOK, GateTypeOK, StageType, GateData, DoorData,
       HaveTickets
<1>2. CASE ReadCount(d)
  <2>1. UNCHANGED <<stage, ask, thread, table, ticket, token, statusRedis, count, own, up,
                    tokens, logins, miscounted, late>>
    BY <1>2 DEF ReadCount, gateRest
  <2>2. StageType' /\ HaveTickets' /\ KnownInv'
    BY <2>1 DEF StageType, InGate, HaveTickets, KnownInv, HasRow
  <2>3. budget' \in [Bounds -> Nat] /\ steady' \in BOOLEAN
    BY <1>2, SpendType DEF ReadCount, Bounds, DoorData, GateData
  <2>4. GateData' /\ DoorData'
    BY <1>2, <2>1, <2>3, Unspent DEF ReadCount, DoorData
  <2>5. PollOK'
    <3> DEFINE c == count[Order[poll.next]]
    <3>1. poll \in [d : Devices, next : 1..(Len(Order) + 1), best : 0..Len(Order), low : Nat]
          /\ stage[poll.d] = "poll" /\ (IF poll.next = 1 THEN poll.best = 0 ELSE poll.best \in 1..(poll.next - 1))
      BY <1>2, FrontDoorAssumption DEF PollOK, ReadCount, Idle
    <3>2. Len(Order) \in Nat /\ poll.next \in 1..Len(Order)
      BY <1>2, <3>1, FrontDoorAssumption DEF ReadCount
    <3>3. c \in Nat \cup {NoCount}
      BY <3>2, ServersType DEF DoorData
    <3>4. Weight(c) \in Nat /\ IntMax \in Nat
      BY <3>3 DEF Weight, IntMax
    <3>5. PICK w \in {Weight(c), IntMax} :
             poll' = IF poll.best = 0 \/ w < poll.low
                     THEN [poll EXCEPT !.next = @ + 1, !.best = poll.next, !.low = w]
                     ELSE [poll EXCEPT !.next = @ + 1]
      BY <1>2 DEF ReadCount
    <3> HIDE DEF c
    <3>6. w \in Nat
      BY <3>4, <3>5
    <3>7. CASE poll.best = 0 \/ w < poll.low
      <4>1. poll' = [d |-> poll.d, next |-> poll.next + 1, best |-> poll.next, low |-> w]
        BY <3>1, <3>5, <3>7
      <4>2. QED
        BY <2>1, <3>1, <3>2, <3>6, <4>1 DEF PollOK
    <3>8. CASE ~(poll.best = 0 \/ w < poll.low)
      <4>1. poll' = [d |-> poll.d, next |-> poll.next + 1, best |-> poll.best, low |-> poll.low]
        BY <3>1, <3>5, <3>8
      <4>2. poll.next + 1 \in 1..(Len(Order) + 1) /\ poll.best \in 1..poll.next
        BY <3>1, <3>2, <3>8
      <4>3. QED
        BY <2>1, <3>1, <3>2, <4>1, <4>2 DEF PollOK
    <3>9. QED
      BY <3>7, <3>8
  <2>6. QED
    BY <2>2, <2>4, <2>5 DEF TypeInv, TypeOK, GateTypeOK, StageType, GateData, DoorData,
       HaveTickets
<1>3. CASE Choose(d)
  <2>1. stage[d] = "poll" /\ InGate(d) /\ "issue" \in Stages /\ "issue" # "away"
    BY <1>3, DoorNames, GateStageNames DEF Choose, Go, GoWith, InGate
  <2>2. StageType'
    BY <1>3, <2>1, GoSame DEF Choose
  <2>3. poll \in [d : Devices, next : 1..(Len(Order) + 1), best : 0..Len(Order), low : Nat]
        /\ (IF poll.next = 1 THEN poll.best = 0 ELSE poll.best \in 1..(poll.next - 1))
    BY <1>3, GateAssumption DEF PollOK, Choose, Idle
  <2>4. poll.best \in 1..Len(Order)
    BY <1>3, <2>3, FrontDoorAssumption DEF Choose
  <2>5. [name |-> UserOf(ask[d]), token |-> 0, stored |-> FALSE, server |-> Order[poll.best]] \in Tickets
    BY <2>1, <2>4, UserOfType, ServersType DEF Tickets
  <2>6. DoorData' /\ GateData'
    BY <1>3, <2>5, Unspent DEF Choose, DoorData, GateData
  <2>7. /\ stage'[d] = "issue"
        /\ \A e \in Devices : e # d => stage'[e] = stage[e] /\ ask'[e] = ask[e]
    BY <1>3, GoOneStage DEF Choose
  <2>8. PollOK'
    BY <1>3 DEF Choose, PollOK
  <2>9. ticket'[d] # NoTicket /\ \A e \in Devices : e # d => ticket'[e] = ticket[e]
    BY <1>3, <2>5, FrontDoorAssumption DEF Choose, DoorData
  <2>10. HaveTickets'
    BY <2>7, <2>9 DEF HaveTickets
  <2>11. KnownInv'
    <3> SUFFICES ASSUME NEW e \in Devices, stage'[e] \in {"choose", "poll"} PROVE HasRow(ask[e])'
      BY DEF KnownInv
    <3>1. e # d
      BY <2>7
    <3>2. HasRow(ask[e])
      BY <2>7, <3>1 DEF KnownInv
    <3>3. QED
      BY <1>3, <2>7, <3>1, <3>2 DEF HasRow, Choose, gateRest
  <2>12. QED
    BY <2>2, <2>6, <2>8, <2>10, <2>11 DEF TypeInv, TypeOK, GateTypeOK, StageType, GateData,
       DoorData, HaveTickets
<1>4. CASE InsertToken(d)
  <2>1. stage[d] = "issue" /\ InGate(d) /\ "reply" \in Stages /\ Go(d, "issue", "reply")
    BY <1>4, DoorNames, GateStageNames DEF InsertToken, Go, GoWith, InGate
  <2>2. StageType'
    BY <1>4, <2>1, GoSame
  <2>3. ticket[d] \in Tickets /\ ticket[d].name \in Names /\ tokens + 1 \in Nat
    BY <2>1 DEF HaveTickets, DoorData, Holders, Tickets
  <2>4. budget' \in [Bounds -> Nat]
    BY <1>4, SpendType DEF InsertToken, Bounds, GateData
  <2>5. GateData'
    BY <1>4, <2>4, Unspent DEF InsertToken
  <2>6. [ticket[d] EXCEPT !.token = tokens + 1, !.stored = TRUE] \in Tickets
        /\ [ticket[d] EXCEPT !.token = tokens + 1] \in Tickets
    BY <2>3 DEF Tickets
  <2>7. ticket' \in {[ticket EXCEPT ![d] = [@ EXCEPT !.token = tokens + 1, !.stored = TRUE]],
                     [ticket EXCEPT ![d] = [@ EXCEPT !.token = tokens + 1]]}
    BY <1>4 DEF InsertToken
  <2>8. ticket' \in [Devices -> Tickets \cup {NoTicket}] /\ ticket'[d] \in Tickets
        /\ \A e \in Devices : e # d => ticket'[e] = ticket[e]
    BY <2>6, <2>7 DEF DoorData
  <2>9. token' \in [Names -> Nat] /\ tokens' \in Nat /\ statusRedis' \in Nat
    BY <1>4, <2>3 DEF InsertToken, DoorData
  <2>10. DoorData'
    BY <1>4, <2>8, <2>9 DEF InsertToken, DoorData
  <2>11. UNCHANGED <<table, poll>>
    BY <1>4 DEF InsertToken, gateRest
  <2>12. QED
    BY <2>1, <2>2, <2>5, <2>8, <2>10, <2>11, OneMoves, FrontDoorAssumption
<1>5. CASE Reply(d)
  <2>1. ticket[d] # NoTicket
    BY <1>5 DEF Reply, HaveTickets, Holders
  <2>2. /\ stage[d] = "reply" /\ stage'[d] = "ticket"
        /\ \A e \in Devices : e # d => stage'[e] = stage[e] /\ ask'[e] = ask[e]
        /\ UNCHANGED <<table, poll, ticket>>
    BY <1>5 DEF Reply, StageType, gateRest, doorVars
  <2>3. "ticket" \in Stages /\ "ticket" \notin GateStages \cup {"queued"}
    BY DoorNames DEF Holders
  <2>4. StageType'
    BY <1>5, <2>2, <2>3 DEF Reply, StageType, InGate
  <2>5. GateData' /\ DoorData'
    BY <1>5, Unspent DEF Reply, doorVars, DoorData, GateData
  <2>6. PollOK' /\ HaveTickets' /\ KnownInv'
    BY <2>1, <2>2 DEF PollOK, HaveTickets, KnownInv, HasRow
  <2>7. QED
    BY <2>4, <2>5, <2>6 DEF TypeInv, TypeOK, GateTypeOK, StageType, GateData, DoorData, HaveTickets
<1>6. CASE RpcFails(d)
  <2>1. Go(d, "choose", "away")
    BY <1>6 DEF RpcFails, Answered
  <2>2. StageType'
    BY <2>1, GoDoor
  <2>3. budget' \in [Bounds -> Nat]
    BY <1>6, SpendType DEF RpcFails, Bounds, GateData
  <2>4. GateData' /\ DoorData'
    BY <1>6, <2>3, Unspent DEF RpcFails, doorVars, DoorData
  <2>5. UNCHANGED <<table, poll, ticket>> /\ "away" \notin Holders
    BY <1>6, DoorNames DEF RpcFails, gateRest, doorVars
  <2>6. QED
    BY <2>1, <2>2, <2>4, <2>5, OneMoves
<1>7. QED
  BY <1>1, <1>2, <1>3, <1>4, <1>5, <1>6

(* The steps of a client and of a LoginHandler.                            *)
LEMMA GoOrLeaveType ==
    ASSUME TypeInv, NEW d \in Devices, NEW from \in Holders, NEW to, GoOrLeave(d, from, to),
           to \in {"away"} \cup (Holders \ {"issue", "reply"})
    PROVE  TypeInv'
<1>1. Go(d, from, to) /\ UNCHANGED <<table, poll>>
  BY DEF GoOrLeave, gateRest
<1>2. StageType' /\ GateData'
  BY <1>1, TypeParts, GoDoor, Unspent DEF GoOrLeave, GateData
<1>3. /\ ticket' \in [Devices -> Tickets \cup {NoTicket}]
      /\ \A e \in Devices : e # d => ticket'[e] = ticket[e]
      /\ to # "away" => ticket' = ticket
  BY TypeParts DEF GoOrLeave, DoorData
<1>4. DoorData'
  BY <1>3, TypeParts DEF GoOrLeave, DoorData
<1>5. to \in Holders => ticket'[d] # NoTicket
  BY <1>1, <1>3, TypeParts, DoorNames, GoOneStage DEF HaveTickets
<1>6. from # "poll" /\ to \notin {"choose", "poll"}
  BY DoorNames
<1>7. QED
  BY <1>1, <1>2, <1>3, <1>4, <1>5, <1>6, OneMoves

LEMMA ClientType ==
    ASSUME TypeInv, NEW d \in Devices,
           Connect(d) \/ Leave(d) \/ StartLogin(d) \/ CheckToken(d)
    PROVE  TypeInv'
<1>1. \A x \in {"ticket", "posted", "in", "token", "count"} : x \in Holders \ {"issue", "reply"}
  BY DEF Holders, Handling
<1>2. CASE Connect(d)
  BY <1>1, <1>2, GoOrLeaveType DEF Connect
<1>3. CASE Leave(d)
  BY <1>1, <1>3, GoOrLeaveType DEF Leave
<1>4. CASE StartLogin(d)
  BY <1>1, <1>4, GoOrLeaveType DEF StartLogin
<1>5. CASE CheckToken(d)
  BY <1>1, <1>5, GoOrLeaveType DEF CheckToken
<1>6. QED
  BY <1>2, <1>3, <1>4, <1>5

LEMMA TicketServer ==
    ASSUME TypeInv, NEW d \in Devices, stage[d] \in Holders
    PROVE  ticket[d] \in Tickets /\ ticket[d].server \in Servers /\ ticket[d].name \in Names
BY TypeParts DEF HaveTickets, DoorData, Tickets

LEMMA CountType ==
    ASSUME TypeInv, NEW d \in Devices, ReadOwnCount(d) \/ CountLogin(d)
    PROVE  TypeInv'
<1>1. PICK from \in {"count", "bump"}, to \in {"bump", "in"} : Go(d, from, to)
  BY DEF ReadOwnCount, CountLogin
<1>2. from \in Holders /\ to \in Holders \ {"issue", "reply"} /\ stage[d] = from
  BY <1>1, TypeParts, GoOneStage DEF Holders, Handling
<1>3. ticket[d].server \in Servers /\ ticket[d] # NoTicket
  BY <1>2, TicketServer, TypeParts DEF HaveTickets
<1>4. budget' \in [Bounds -> Nat] /\ steady' \in BOOLEAN /\ miscounted' \in SUBSET Servers
  BY <1>3, TypeParts, SpendType DEF ReadOwnCount, CountLogin, CommandFails, Bounds, GateData, DoorData
<1>5. own' \in [Devices -> Nat]
  BY <1>3, TypeParts DEF ReadOwnCount, CountLogin, DoorData
<1>6. count' \in [Servers -> Nat \cup {NoCount}] /\ logins' \in [Servers -> Nat]
  BY <1>3, TypeParts DEF ReadOwnCount, CountLogin, DoorData
<1>7. UNCHANGED <<gateRest, token, statusRedis, poll, ticket, up, tokens, late>>
  BY DEF ReadOwnCount, CountLogin
<1>8. StageType' /\ GateData' /\ DoorData'
  BY <1>1, <1>2, <1>4, <1>5, <1>6, <1>7, TypeParts, GoDoor, Unspent DEF DoorData
<1>9. from # "poll" /\ to \notin {"choose", "poll"}
  BY <1>2, DoorNames
<1>10. UNCHANGED <<table, poll, ticket>>
  BY <1>7 DEF gateRest
<1>11. QED
  BY <1>1, <1>3, <1>8, <1>9, <1>10, OneMoves

(* The devices that a server's end cuts off are not in the gate.           *)
LEMMA CutType ==
    ASSUME TypeInv, NEW s \in Servers, CutDevices(s), UNCHANGED <<table, poll>>, GateData',
           UNCHANGED <<token, statusRedis, tokens>>, count' \in [Servers -> Nat \cup {NoCount}],
           up' \in [Servers -> States], logins' \in [Servers -> Nat], steady' \in BOOLEAN,
           miscounted' \in SUBSET Servers, late' \in SUBSET Servers
    PROVE  TypeInv'
<1>1. StageType'
  BY TypeParts, AwayType DEF CutDevices
<1>2. \A d \in AtServer(s) : d \in Devices /\ stage[d] \in Holders
  BY DEF AtServer, Holders
<1>3. \A d \in Devices :
          \/ stage'[d] = stage[d] /\ ask'[d] = ask[d] /\ ticket'[d] = ticket[d]
          \/ stage[d] \in Holders /\ stage'[d] = "away"
  BY <1>2 DEF CutDevices, AllAnswered
<1>4. DoorData'
  BY TypeParts DEF CutDevices, DoorData
<1>5. PollOK'
  BY <1>3, TypeParts, DoorNames DEF PollOK
<1>6. HaveTickets'
  BY <1>3, TypeParts, DoorNames DEF HaveTickets
<1>7. KnownInv'
  BY <1>3, TypeParts, DoorNames DEF KnownInv, HasRow
<1>8. QED
  BY <1>1, <1>4, <1>5, <1>6, <1>7 DEF TypeInv, TypeOK, GateTypeOK, StageType, GateData, DoorData,
     HaveTickets

LEMMA Unmoved ==
    ASSUME TypeInv, UNCHANGED <<stage, ask, thread, ticket, table, poll>>, GateData', DoorData'
    PROVE  TypeInv'
<1>1. StageType' /\ PollOK' /\ HaveTickets' /\ KnownInv'
  BY TypeParts DEF StageType, InGate, PollOK, HaveTickets, KnownInv, HasRow
<1>2. QED
  BY <1>1 DEF TypeInv, TypeOK, GateTypeOK, StageType, GateData, DoorData, HaveTickets

LEMMA ServerType ==
    ASSUME TypeInv, NEW s \in Servers, ServerStep(s)
    PROVE  TypeInv'
<1>0. GateData /\ DoorData /\ \A x \in {"up", "stopping", "dropped", "down"} : x \in States
  BY TypeParts DEF States
<1>1. CASE StartServer(s)
  <2>1. UNCHANGED <<stage, ask, thread, ticket, table, poll>>
    BY <1>1 DEF StartServer, gateRest
  <2>2. budget' \in [Bounds -> Nat] /\ steady' \in BOOLEAN /\ miscounted' \in SUBSET Servers
    BY <1>0, <1>1, SpendType DEF StartServer, CommandFails, Bounds, GateData, DoorData
  <2>3. GateData'
    BY <1>0, <1>1, <2>2, Unspent DEF StartServer
  <2>4. DoorData'
    BY <1>0, <1>1, <2>2 DEF StartServer, DoorData
  <2>5. QED
    BY <2>1, <2>3, <2>4, Unmoved
<1>2. CASE StopServer(s)
  <2>1. UNCHANGED <<stage, ask, thread, ticket, table, poll>>
    BY <1>2 DEF StopServer, gateRest
  <2>2. budget' \in [Bounds -> Nat]
    BY <1>0, <1>2, SpendType DEF StopServer, Bounds, GateData
  <2>3. GateData' /\ DoorData'
    BY <1>0, <1>2, <2>2, Unspent DEF StopServer, DoorData
  <2>4. QED
    BY <2>1, <2>3, Unmoved
<1>3. CASE DropCount(s)
  <2>1. UNCHANGED <<stage, ask, thread, ticket, table, poll>>
    BY <1>3 DEF DropCount, gateRest
  <2>2. budget' \in [Bounds -> Nat]
    BY <1>0, <1>3, SpendType DEF DropCount, Bounds, GateData
  <2>3. GateData' /\ DoorData'
    BY <1>0, <1>3, <2>2, Unspent DEF DropCount, DoorData
  <2>4. QED
    BY <2>1, <2>3, Unmoved
<1>4. CASE EndServer(s)
  <2>1. GateData' /\ UNCHANGED <<table, poll>>
    BY <1>0, <1>4, Unspent DEF EndServer, GateData, gateRest
  <2>2. QED
    BY <1>0, <1>4, <2>1, CutType DEF EndServer, DoorData
<1>5. CASE CrashServer(s)
  <2>1. budget' \in [Bounds -> Nat]
    BY <1>0, <1>5, SpendType DEF CrashServer, Bounds, GateData
  <2>2. GateData' /\ UNCHANGED <<table, poll>>
    BY <1>0, <1>5, <2>1, Unspent DEF CrashServer, gateRest
  <2>3. QED
    BY <1>0, <1>5, <2>2, CutType DEF CrashServer, DoorData
<1>6. QED
  BY <1>1, <1>2, <1>3, <1>4, <1>5 DEF ServerStep

LEMMA InitType == Init => TypeInv
<1> SUFFICES ASSUME Init PROVE TypeInv
  OBVIOUS
<1>1. StageType /\ HaveTickets /\ KnownInv
  BY AwayStage, DoorNames DEF Init, GateInit, StageType, InGate, HaveTickets, KnownInv
<1>2. GateData
  BY GateAssumption DEF Init, GateInit, GateData
<1>3. DoorData /\ PollOK
  BY FrontDoorAssumption DEF Init, DoorData, PollOK, States
<1>4. QED
  BY <1>1, <1>2, <1>3, TypeParts

LEMMA NextType == TypeInv /\ [Next]_vars => TypeInv'
<1> SUFFICES ASSUME TypeInv, [Next]_vars PROVE TypeInv'
  OBVIOUS
<1>1. CASE UNCHANGED vars
  <2>1. UNCHANGED <<stage, ask, thread, ticket, table, poll>> /\ GateData' /\ DoorData'
    BY <1>1, TypeParts DEF vars, gateVars, doorVars, pools, codes, GateData, DoorData
  <2>2. QED
    BY <2>1, Unmoved
<1>2. ASSUME NEW d \in Devices, DeviceStep(d) \/ Leave(d) \/ RpcFails(d) PROVE TypeInv'
  BY <1>2, GateKeepsTypes, StatusType, ClientType, CountType DEF DeviceStep
<1>3. CASE GateEvent /\ UNCHANGED doorVars
  BY <1>3, GateKeepsTypes
<1>4. ASSUME NEW s \in Servers, ServerStep(s) PROVE TypeInv'
  BY <1>4, ServerType
<1>5. QED
  BY <1>1, <1>2, <1>3, <1>4 DEF Next

(* Every variable of the front door keeps its type, for any devices,       *)
(* addresses, threads, pool sizes and chat servers, and a login for which  *)
(* a chat server is looked for has a row in the user table: CheckPwd has   *)
(* found it, and no other request takes it away, so UserOf, the uid for    *)
(* which GetChatServer issues a token, is a user's.                        *)
THEOREM TypeCorrect == Spec => [](TypeOK /\ KnownInv)
<1>1. TypeInv => TypeOK /\ KnownInv
  BY DEF TypeInv
<1>2. QED
  BY <1>1, InitType, NextType, PTL DEF Spec

-----------------------------------------------------------------------------
(* The invariants about codes, passwords and connections: all steps but the*)
(* gate's leave them alone.                                                *)
DoorFrame ==
    /\ UNCHANGED gateRest
    /\ \A e \in Devices :
           \/ stage'[e] = stage[e] /\ ask'[e] = ask[e]
           \/ stage[e] \notin GateOnly /\ (stage'[e] \notin GateOnly \/ stage'[e] = "away")

LEMMA FrameOfGo ==
    ASSUME StageType, NEW d \in Devices, NEW from, NEW to, Go(d, from, to), UNCHANGED gateRest,
           from \in Holders \cup {"choose", "poll"},
           to \in Holders \cup {"choose", "poll", "away"}
    PROVE  DoorFrame
BY GoOneStage, GateOnlyNames DEF DoorFrame

LEMMA FrameHolds ==
    ASSUME TypeInv, [Next]_vars
    PROVE  \/ (\E d \in Devices : GateStep(d)) \/ GateEvent
           \/ DoorFrame
<1>0. StageType /\ \A x \in {"issue", "reply", "ticket", "posted", "in", "token", "count", "bump"} :
                       x \in Holders
  BY TypeParts DEF Holders, Handling
<1>1. CASE UNCHANGED vars
  BY <1>1 DEF vars, gateVars, gateRest, DoorFrame
<1>2. ASSUME NEW d \in Devices,
             (DeviceStep(d) /\ ~GateStep(d)) \/ Leave(d) \/ RpcFails(d)
      PROVE  DoorFrame
  <2>1. CASE StartPoll(d)
    BY <1>0, <2>1, FrameOfGo DEF StartPoll
  <2>2. CASE ReadCount(d)
    BY <2>2 DEF ReadCount, DoorFrame
  <2>3. CASE Choose(d)
    BY <1>0, <2>3, FrameOfGo DEF Choose
  <2>4. CASE InsertToken(d)
    BY <1>0, <2>4, FrameOfGo DEF InsertToken
  <2>5. CASE Reply(d)
    BY <1>0, <2>5, GateOnlyNames DEF Reply, DoorFrame, StageType
  <2>6. CASE Connect(d)
    BY <1>0, <2>6, FrameOfGo DEF Connect, GoOrLeave
  <2>7. CASE StartLogin(d)
    BY <1>0, <2>7, FrameOfGo DEF StartLogin, GoOrLeave
  <2>8. CASE CheckToken(d)
    BY <1>0, <2>8, FrameOfGo DEF CheckToken, GoOrLeave
  <2>9. CASE ReadOwnCount(d)
    BY <1>0, <2>9, FrameOfGo DEF ReadOwnCount
  <2>10. CASE CountLogin(d)
    BY <1>0, <2>10, FrameOfGo DEF CountLogin
  <2>11. CASE Leave(d)
    BY <1>0, <2>11, FrameOfGo DEF Leave, GoOrLeave
  <2>12. CASE RpcFails(d)
    BY <1>0, <2>12, FrameOfGo DEF RpcFails, Answered
  <2>13. QED
    BY <1>2, <2>1, <2>2, <2>3, <2>4, <2>5, <2>6, <2>7, <2>8, <2>9, <2>10, <2>11, <2>12
       DEF DeviceStep
<1>3. ASSUME NEW s \in Servers, ServerStep(s) PROVE DoorFrame
  <2>1. \A d \in AtServer(s) : stage[d] \in Holders
    BY <1>0 DEF AtServer, Handling, Holders
  <2>2. CutDevices(s) /\ UNCHANGED gateRest => DoorFrame
    BY <1>0, <2>1, GateOnlyNames DEF CutDevices, AllAnswered, DoorFrame
  <2>3. CASE EndServer(s) \/ CrashServer(s)
    BY <2>2, <2>3 DEF EndServer, CrashServer
  <2>4. CASE StartServer(s) \/ StopServer(s) \/ DropCount(s)
    BY <2>4 DEF StartServer, StopServer, DropCount, DoorFrame
  <2>5. QED
    BY <1>3, <2>3, <2>4 DEF ServerStep
<1>4. QED
  BY <1>1, <1>2, <1>3 DEF Next, DeviceStep

(* The codes in Redis, and those that requests have come with, are codes   *)
(* that were made for their address.                                       *)
Proven == {"wait insert", "insert", "wait email", "email", "wait update", "update"}
Owned(a) == a.code \in 1..Len(issued) /\ issued[a.code] = a.email
StoreInv == /\ \A e \in Emails : store[e] # 0 => store[e] <= Len(issued) /\ issued[store[e]] = e
            /\ \A d \in Devices : seen[d] <= Len(issued)
ComeInv == /\ \A d \in Devices : stage[d] \in Proven => Owned(ask[d])
           /\ \A d \in Devices : stage[d] \in {"wait update", "update"} =>
                  table[ask[d].name] # NoRow /\ table[ask[d].name].email = ask[d].email
CodeInv == StoreInv /\ ComeInv /\ CodesExpire /\ ReplacedOnlyByRace /\ PasswordByOwner

LEMMA ProvenNames ==
    /\ Proven \subseteq GateOnly /\ Proven \subseteq GateStages
    /\ "set" \in GateOnly /\ "expire" \in GateOnly
    /\ "away" \notin Proven \cup {"set", "expire"} /\ "queued" \notin Proven \cup {"set", "expire"}
BY DEF Proven, GateOnly, GateStages, NodeStages, Holding, Waiting

LEMMA CodeFrame ==
    ASSUME TypeInv, CodeInv, DoorFrame
    PROVE  CodeInv'
<1>1. StoreInv'
  BY DEF CodeInv, StoreInv, DoorFrame, gateRest, codes
<1>2. ASSUME NEW d \in Devices, stage'[d] \in Proven \cup {"set", "expire"}
      PROVE  stage'[d] = stage[d] /\ ask'[d] = ask[d]
  BY <1>2, ProvenNames DEF DoorFrame
<1>3. ASSUME NEW d \in Devices, stage[d] \in Proven \cup {"set", "expire"}
      PROVE  stage'[d] = stage[d] /\ ask'[d] = ask[d]
  BY <1>3, ProvenNames DEF DoorFrame
<1>4. UNCHANGED <<table, codes>>
  BY DEF DoorFrame, gateRest
<1>5. ComeInv'
  BY <1>2, <1>4 DEF CodeInv, ComeInv, Owned, Proven, codes
<1>6. CodesExpire'
  BY <1>3, <1>4 DEF CodeInv, CodesExpire, codes
<1>7. ReplacedOnlyByRace'
  BY <1>2, <1>4 DEF CodeInv, ReplacedOnlyByRace, codes
<1>8. PasswordByOwner'
  BY <1>4 DEF CodeInv, PasswordByOwner, codes
<1>9. QED
  BY <1>1, <1>5, <1>6, <1>7, <1>8 DEF CodeInv

(* A step that stores no code and changes no row: d goes on.               *)
LEMMA CodeMove ==
    ASSUME TypeInv, CodeInv, NEW d \in Devices, NEW from, NEW to, Go(d, from, to),
           UNCHANGED <<table, store, expires, nodeRedis, issued, seen, unfinished>>,
           from # "expire", to \notin {"set", "expire"},
           to \in Proven => Owned(ask[d]),
           to \in {"wait update", "update"} =>
               table[ask[d].name] # NoRow /\ table[ask[d].name].email = ask[d].email
    PROVE  CodeInv'
<1>1. /\ stage[d] = from /\ stage'[d] = to
      /\ \A e \in Devices : e # d => stage'[e] = stage[e] /\ ask'[e] = ask[e]
      /\ to # "away" => ask'[d] = ask[d]
  BY TypeParts, GoOneStage
<1>2. "away" \notin Proven \cup {"wait update", "update"}
  BY ProvenNames DEF Proven
<1>3. StoreInv'
  BY DEF CodeInv, StoreInv
<1>4. ComeInv'
  <2>1. ASSUME NEW e \in Devices, stage'[e] \in Proven PROVE Owned(ask[e])'
    BY <1>1, <1>2, <2>1 DEF CodeInv, ComeInv, Owned
  <2>2. ASSUME NEW e \in Devices, stage'[e] \in {"wait update", "update"}
        PROVE  table'[ask'[e].name] # NoRow /\ table'[ask'[e].name].email = ask'[e].email
    BY <1>1, <1>2, <2>2 DEF CodeInv, ComeInv
  <2>3. QED
    BY <2>1, <2>2 DEF ComeInv
<1>5. CodesExpire'
  <2> SUFFICES ASSUME NEW e \in Emails, store[e] # 0, ~expires[e], e \notin unfinished
               PROVE  \E x \in Devices : stage'[x] = "expire" /\ ask'[x].email = e
    BY DEF CodesExpire
  <2>1. PICK x \in Devices : stage[x] = "expire" /\ ask[x].email = e
    BY DEF CodeInv, CodesExpire
  <2>2. QED
    BY <1>1, <2>1
<1>6. ReplacedOnlyByRace'
  BY <1>1 DEF CodeInv, ReplacedOnlyByRace
<1>7. PasswordByOwner'
  BY DEF CodeInv, PasswordByOwner
<1>8. QED
  BY <1>3, <1>4, <1>5, <1>6, <1>7 DEF CodeInv

LEMMA FirstNames == \A k \in Kinds : FirstStage[k] \in {"look", "compare", "wait check"}
<1> SUFFICES ASSUME NEW k \in Kinds PROVE FirstStage[k] \in {"look", "compare", "wait check"}
  OBVIOUS
<1>1. k = "code" \/ k = "register" \/ k = "reset" \/ k = "login"
  BY DEF Kinds
<1>2. /\ FirstStage["code"] = "look" /\ FirstStage["register"] = "compare"
      /\ FirstStage["reset"] = "compare" /\ FirstStage["login"] = "wait check"
  BY DEF FirstStage
<1>3. QED
  BY <1>1, <1>2

(* What the fields of the codes are when a request is at the verification  *)
(* server or has come with its code.                                       *)
LEMMA CodeMoves ==
    ASSUME TypeInv, CodeInv, NEW d \in Devices,
           HandleReq(d) \/ SendMail(d) \/ CompareCode(d) \/ GetConnection(d) \/ CheckEmail(d)
           \/ CheckPwd(d)
    PROVE  CodeInv'
<1>0. StageType /\ GateData
  BY TypeParts
<1> USE <1>0
<1>1. CASE HandleReq(d)
  <2>1. FirstStage[ask[d].kind] \in {"look", "compare", "wait check"}
    <3>2. stage[d] = "queued"
      BY <1>1 DEF HandleReq
    <3>3. QED
      BY <3>2, FirstNames, AskFields
  <2>2. Go(d, "queued", FirstStage[ask[d].kind])
    BY <1>1 DEF HandleReq
  <2>3. FirstStage[ask[d].kind] \notin Proven \cup {"set", "expire", "wait update", "update"}
    BY <2>1 DEF Proven
  <2>4. QED
    BY <1>1, <2>2, <2>3, CodeMove DEF HandleReq, codes
<1>2. CASE SendMail(d)
  <2>1. Go(d, "mail", "away") /\ UNCHANGED <<table, store, expires, nodeRedis, issued, seen, unfinished>>
    BY <1>2 DEF SendMail, Answered
  <2>2. QED
    BY <2>1, CodeMove, ProvenNames DEF Proven
<1>3. CASE CompareCode(d)
  <2>1. PICK c \in {store[ask[d].email], 0} :
            Go(d, "compare", IF c = 0 \/ c # ask[d].code THEN Answered
                             ELSE IF ask[d].kind = "register" THEN "wait insert" ELSE "wait email")
    BY <1>3 DEF CompareCode
  <2>2. UNCHANGED <<table, codes>> /\ stage[d] = "compare"
    BY <1>3 DEF CompareCode
  <2>3. ask[d].email \in Emails
    BY <2>2, AskFields DEF InGate, GateStages
  <2>4. CASE c = 0 \/ c # ask[d].code
    <3>1. Go(d, "compare", "away")
      BY <2>1, <2>4 DEF Answered
    <3>2. QED
      BY <2>2, <3>1, CodeMove, ProvenNames DEF codes, Proven
  <2>5. CASE ~(c = 0 \/ c # ask[d].code)
    <3>1. store[ask[d].email] # 0 /\ ask[d].code = store[ask[d].email]
      BY <2>1, <2>5
    <3>2. Owned(ask[d])
      BY <2>3, <3>1 DEF CodeInv, StoreInv, Owned, GateData
    <3>3. \E to \in {"wait insert", "wait email"} : Go(d, "compare", to)
      BY <2>1, <2>5
    <3>4. QED
      BY <2>2, <3>2, <3>3, CodeMove DEF codes
  <2>6. QED
    BY <2>4, <2>5
<1>4. CASE GetConnection(d)
  <2>1. stage[d] \in Waiting /\ Go(d, stage[d], Wanted[stage[d]]) /\ UNCHANGED <<table, codes>>
    BY <1>4 DEF GetConnection
  <2>2. /\ stage[d] # "expire" /\ Wanted[stage[d]] \notin {"set", "expire"}
        /\ Wanted[stage[d]] \in Proven => stage[d] \in Proven
        /\ Wanted[stage[d]] \in {"wait update", "update"} => stage[d] = "wait update"
    BY <2>1 DEF Waiting, Wanted, Proven
  <2>3. QED
    BY <2>1, <2>2, CodeMove DEF codes, CodeInv, ComeInv
<1>5. CASE CheckEmail(d)
  <2>1. stage[d] = "email" /\ UNCHANGED <<table, codes>>
    BY <1>5 DEF CheckEmail, LosesConnection, ReturnConnection
  <2>2. \/ Go(d, "email", "away")
        \/ /\ Go(d, "email", "wait update")
           /\ table[ask[d].name] # NoRow /\ table[ask[d].name].email = ask[d].email
    BY <1>5 DEF CheckEmail, LosesConnection, ReturnConnection, Answered
  <2>3. Owned(ask[d])
    BY <2>1 DEF CodeInv, ComeInv, Proven
  <2>4. QED
    BY <2>1, <2>2, <2>3, CodeMove, ProvenNames DEF codes, Proven
<1>6. CASE CheckPwd(d)
  <2>1. UNCHANGED <<table, codes>> /\ \E to \in {"choose", "away"} : Go(d, "check", to)
    BY <1>6 DEF CheckPwd, ReturnConnection, Answered
  <2>2. QED
    BY <2>1, CodeMove, ProvenNames DEF codes, Proven
<1>7. QED
  BY <1>1, <1>2, <1>3, <1>4, <1>5, <1>6

LEMMA GetRedisCodes ==
    ASSUME TypeInv, CodeInv, NEW d \in Devices, GetRedis(d)
    PROVE  CodeInv'
<1> DEFINE found == IF nodeRedis THEN store[ask[d].email] ELSE 0
           to == IF found = 0 THEN "set" ELSE "mail"
<1>1. UNCHANGED <<table, store, expires, nodeRedis, issued, unfinished>> /\ stage[d] = "look"
  BY DEF GetRedis, pools
<1>2. /\ stage'[d] = to /\ ask'[d].email = ask[d].email
      /\ \A e \in Devices : e # d => stage'[e] = stage[e] /\ ask'[e] = ask[e]
  <2>1. ask[d] \in Asks
    BY <1>1, AskFields, TypeParts DEF InGate, GateStages, NodeStages
  <2>2. GoWith(d, "look", to, [ask[d] EXCEPT !.code = found])
    BY DEF GetRedis
  <2>3. [ask[d] EXCEPT !.code = found].email = ask[d].email
    BY <2>1 DEF Asks
  <2>4. stage \in [Devices -> Stages] /\ ask \in [Devices -> Asks \cup {NoAsk}] /\ to # "away"
    BY TypeParts DEF StageType
  <2> HIDE DEF to, found
  <2>5. QED
    BY <2>2, <2>3, <2>4 DEF GoWith
<1>3. seen' = [seen EXCEPT ![d] = Len(issued)]
  BY DEF GetRedis
<1>4. StoreInv'
  BY <1>1, <1>3, TypeParts DEF CodeInv, StoreInv, GateData
<1>5. to \notin Proven /\ to \notin {"wait update", "update", "expire"}
  BY DEF Proven
<1>6. ComeInv'
  BY <1>1, <1>2, <1>5 DEF CodeInv, ComeInv, Owned
<1>7. CodesExpire'
  <2> SUFFICES ASSUME NEW e \in Emails, store[e] # 0, ~expires[e], e \notin unfinished
               PROVE  \E x \in Devices : stage'[x] = "expire" /\ ask'[x].email = e
    BY <1>1 DEF CodesExpire
  <2>1. PICK x \in Devices : stage[x] = "expire" /\ ask[x].email = e
    BY DEF CodeInv, CodesExpire
  <2>2. QED
    BY <1>1, <1>2, <2>1
<1>8. ReplacedOnlyByRace'
  <2> SUFFICES ASSUME NEW x \in Devices, stage'[x] = "set", nodeRedis
               PROVE  store[ask'[x].email] = 0 \/ seen'[x] < store[ask'[x].email]
    BY <1>1 DEF ReplacedOnlyByRace
  <2>1. CASE x = d
    BY <1>2, <2>1
  <2>2. CASE x # d
    BY <1>2, <1>3, <2>2, TypeParts DEF CodeInv, ReplacedOnlyByRace, GateData
  <2>3. QED
    BY <2>1, <2>2
<1>9. PasswordByOwner'
  BY <1>1 DEF CodeInv, PasswordByOwner
<1>10. QED
  BY <1>4, <1>6, <1>7, <1>8, <1>9 DEF CodeInv

LEMMA Appended ==
    ASSUME issued \in Seq(Emails), NEW e \in Emails, issued' = Append(issued, e)
    PROVE  /\ Len(issued) \in Nat /\ Len(issued)' = Len(issued) + 1
           /\ issued'[Len(issued) + 1] = e
           /\ \A i \in 1..Len(issued) : issued'[i] = issued[i]
OBVIOUS

LEMMA SetCodeCodes ==
    ASSUME TypeInv, CodeInv, NEW d \in Devices, SetCode(d)
    PROVE  CodeInv'
<1> DEFINE e == ask[d].email
           n == Len(issued) + 1
<1>1. stage[d] = "set" /\ ask[d] \in Asks /\ e \in Emails
  <2>1. stage[d] = "set"
    BY DEF SetCode, GoWith
  <2>2. QED
    BY <2>1, AskFields, TypeParts DEF InGate, GateStages, NodeStages
<1>2. /\ issued' = Append(issued, e) /\ store' = [store EXCEPT ![e] = n]
      /\ expires' = [expires EXCEPT ![e] = FALSE] /\ seen' = [seen EXCEPT ![d] = 0]
      /\ unfinished' = unfinished \ {e} /\ UNCHANGED <<table, nodeRedis>>
  BY DEF SetCode
<1>3. /\ stage'[d] = "expire" /\ ask'[d].email = e
      /\ \A x \in Devices : x # d => stage'[x] = stage[x] /\ ask'[x] = ask[x]
  <2>1. GoWith(d, "set", "expire", [ask[d] EXCEPT !.code = n])
    BY DEF SetCode
  <2>2. [ask[d] EXCEPT !.code = n].email = e
    BY <1>1 DEF Asks
  <2>3. stage \in [Devices -> Stages] /\ ask \in [Devices -> Asks \cup {NoAsk}]
    BY TypeParts DEF StageType
  <2> HIDE DEF e, n
  <2>4. QED
    BY <2>1, <2>2, <2>3 DEF GoWith
<1>4. GateData
  BY TypeParts
<1>5. /\ Len(issued) \in Nat /\ Len(issued)' = n /\ issued'[n] = e
      /\ \A i \in 1..Len(issued) : issued'[i] = issued[i]
  BY <1>1, <1>2, <1>4, Appended DEF GateData
<1> HIDE DEF e, n
<1>6. n = Len(issued) + 1
  BY DEF n
<1>7. StoreInv'
  <2>1. ASSUME NEW f \in Emails, store'[f] # 0 PROVE store'[f] <= n /\ issued'[store'[f]] = f
    <3>1. CASE f = e
      BY <1>1, <1>2, <1>4, <1>5, <1>6, <3>1 DEF GateData
    <3>2. CASE f # e
      <4>1. store'[f] = store[f] /\ store[f] \in Nat
        BY <1>1, <1>2, <1>4, <3>2 DEF GateData
      <4>2. store[f] \in 1..Len(issued) /\ issued[store[f]] = f
        BY <1>5, <2>1, <4>1 DEF CodeInv, StoreInv
      <4>3. QED
        BY <1>5, <1>6, <4>1, <4>2
    <3>3. QED
      BY <3>1, <3>2
  <2>2. ASSUME NEW x \in Devices PROVE seen'[x] <= n
    BY <1>2, <1>4, <1>5, <1>6 DEF CodeInv, StoreInv, GateData
  <2>3. QED
    BY <1>5, <2>1, <2>2 DEF StoreInv
<1>8. ComeInv'
  <2>1. ASSUME NEW x \in Devices, stage'[x] \in Proven PROVE Owned(ask[x])'
    <3>1. stage'[x] = stage[x] /\ ask'[x] = ask[x]
      <4>1. "expire" \notin Proven
        BY DEF Proven
      <4>2. QED
        BY <1>3, <2>1, <4>1
    <3>2. ask[x].code \in 1..Len(issued) /\ issued[ask[x].code] = ask[x].email
      BY <2>1, <3>1 DEF CodeInv, ComeInv, Owned
    <3>3. ask'[x].code \in 1..Len(issued)' /\ issued'[ask'[x].code] = ask'[x].email
      BY <1>5, <1>6, <3>1, <3>2
    <3>4. QED
      BY <3>3 DEF Owned
  <2>2. ASSUME NEW x \in Devices, stage'[x] \in {"wait update", "update"}
        PROVE  table'[ask'[x].name] # NoRow /\ table'[ask'[x].name].email = ask'[x].email
    BY <1>2, <1>3, <2>2 DEF CodeInv, ComeInv
  <2>3. QED
    BY <2>1, <2>2 DEF ComeInv
<1>9. CodesExpire'
  <2> SUFFICES ASSUME NEW f \in Emails, store'[f] # 0, ~expires'[f], f \notin unfinished'
               PROVE  \E x \in Devices : stage'[x] = "expire" /\ ask'[x].email = f
    BY DEF CodesExpire
  <2>1. CASE f = e
    BY <1>3, <2>1
  <2>2. CASE f # e
    <3>1. store[f] # 0 /\ ~expires[f] /\ f \notin unfinished
      BY <1>1, <1>2, <1>4, <2>2 DEF GateData
    <3>2. PICK x \in Devices : stage[x] = "expire" /\ ask[x].email = f
      BY <3>1 DEF CodeInv, CodesExpire
    <3>3. QED
      BY <1>1, <1>3, <3>2
  <2>3. QED
    BY <2>1, <2>2
<1>10. ReplacedOnlyByRace'
  <2> SUFFICES ASSUME NEW x \in Devices, stage'[x] = "set", nodeRedis'
               PROVE  store'[ask'[x].email] = 0 \/ seen'[x] < store'[ask'[x].email]
    BY DEF ReplacedOnlyByRace
  <2>1. x # d /\ stage[x] = "set" /\ ask'[x] = ask[x] /\ seen'[x] = seen[x]
    BY <1>2, <1>3, <1>4 DEF GateData
  <2>2. ask[x].email \in Emails
    BY <2>1, AskFields, TypeParts DEF InGate, GateStages, NodeStages
  <2>3. CASE ask[x].email = e
    BY <1>2, <1>4, <1>5, <1>6, <2>1, <2>2, <2>3 DEF CodeInv, StoreInv, GateData
  <2>4. CASE ask[x].email # e
    BY <1>1, <1>2, <1>4, <2>1, <2>2, <2>4 DEF CodeInv, ReplacedOnlyByRace, GateData
  <2>5. QED
    BY <2>3, <2>4
<1>11. PasswordByOwner'
  <2> SUFFICES ASSUME NEW m \in Names, table[m] # NoRow, table[m].proof # 0
               PROVE  table[m].proof <= n /\ issued'[table[m].proof] = table[m].email
    BY <1>2, <1>5 DEF PasswordByOwner
  <2>1. table[m].proof \in Nat
    BY <1>4 DEF GateData, Rows
  <2>2. table[m].proof \in 1..Len(issued) /\ issued[table[m].proof] = table[m].email
    BY <1>5, <2>1 DEF CodeInv, PasswordByOwner
  <2>3. QED
    BY <1>5, <1>6, <2>2
<1>12. QED
  BY <1>7, <1>8, <1>9, <1>10, <1>11 DEF CodeInv

LEMMA ExpireCodes ==
    ASSUME TypeInv, CodeInv, NEW d \in Devices, Expire(d) \/ RedisErr(d)
    PROVE  CodeInv'
<1> DEFINE e == ask[d].email
<1>1. \E to \in {"mail", "away"} :
          /\ stage'[d] = to
          /\ \A x \in Devices : x # d => stage'[x] = stage[x] /\ ask'[x] = ask[x]
  BY TypeParts, GoOneStage DEF Expire, RedisErr, Answered
<1>2. "mail" \notin Proven \cup {"wait update", "update"}
      /\ "away" \notin Proven \cup {"wait update", "update"}
  BY DEF Proven
<1>3. stage[d] \in {"set", "expire"} /\ UNCHANGED <<table, store, nodeRedis, issued, seen>>
  BY DEF Expire, RedisErr, Go, GoWith, pools
<1>4. e \in Emails
  BY <1>3, AskFields, TypeParts DEF InGate, GateStages, NodeStages
<1>5. StoreInv' /\ PasswordByOwner'
  BY <1>3 DEF CodeInv, StoreInv, PasswordByOwner
<1>6. ComeInv' /\ ReplacedOnlyByRace'
  BY <1>1, <1>2, <1>3 DEF CodeInv, ComeInv, ReplacedOnlyByRace, Owned
<1>7. CodesExpire'
  <2> SUFFICES ASSUME NEW f \in Emails, store[f] # 0, ~expires'[f], f \notin unfinished'
               PROVE  \E x \in Devices : stage'[x] = "expire" /\ ask'[x].email = f
    BY <1>3 DEF CodesExpire
  <2>1. f # e \/ stage[d] # "expire"
    BY <1>4, TypeParts DEF Expire, RedisErr, CutOff, GateData, Go, GoWith
  <2>2. ~expires[f] /\ f \notin unfinished
    BY <1>4, TypeParts DEF Expire, RedisErr, GateData, Go, GoWith
  <2>3. PICK x \in Devices : stage[x] = "expire" /\ ask[x].email = f
    BY <1>3, <2>2 DEF CodeInv, CodesExpire
  <2>4. QED
    BY <1>1, <2>1, <2>3
<1>8. QED
  BY <1>5, <1>6, <1>7 DEF CodeInv

(* A row's new password comes with a code that was made for its address.   *)
LEMMA RowCodes ==
    ASSUME TypeInv, CodeInv, NEW d \in Devices, RegUser(d) \/ UpdatePwd(d)
    PROVE  CodeInv'
<1> DEFINE a == ask[d]
<1>1. stage[d] \in {"insert", "update"} /\ stage'[d] = "away" /\ UNCHANGED codes
      /\ \A x \in Devices : x # d => stage'[x] = stage[x] /\ ask'[x] = ask[x]
  BY TypeParts, GoOneStage DEF RegUser, UpdatePwd, ReturnConnection, Answered
<1>2. Owned(a) /\ a \in Asks /\ a.name \in Names /\ a.pwd \in Passwords /\ a.code \in Nat
  BY <1>1, AskFields, TypeParts DEF CodeInv, ComeInv, Proven, InGate, GateStages, Holding
<1>3. /\ a.name \in Names
      /\ \/ table' = table
         \/ /\ table[a.name] = NoRow
            /\ table' = [table EXCEPT ![a.name] = RowOf(a)]
         \/ /\ stage[d] = "update" /\ table[a.name] # NoRow
            /\ table' = [table EXCEPT ![a.name] = [@ EXCEPT !.pwd = a.pwd, !.proof = a.code]]
  <2>1. CASE RegUser(d)
    BY <1>2, <2>1 DEF RegUser, Taken
  <2>2. CASE UpdatePwd(d)
    <3>1. stage[d] = "update"
      BY <2>2 DEF UpdatePwd, ReturnConnection, Go, GoWith
    <3>2. table[a.name] # NoRow
      BY <3>1 DEF CodeInv, ComeInv
    <3>3. QED
      BY <1>2, <2>2, <3>1, <3>2 DEF UpdatePwd
  <2>3. QED
    BY <2>1, <2>2
<1>4. GateData
  BY TypeParts
<1> HIDE DEF a
<1>5. table' = table \/
      \E r \in Rows : /\ table' = [table EXCEPT ![a.name] = r] /\ r.proof = a.code
                      /\ r.email = a.email
                      /\ table[a.name] # NoRow => r.email = table[a.name].email
  <2>1. CASE /\ table[a.name] = NoRow
             /\ table' = [table EXCEPT ![a.name] = RowOf(a)]
    <3>1. RowOf(a) \in Rows /\ RowOf(a).proof = a.code /\ RowOf(a).email = a.email
      BY <1>2 DEF RowOf, Rows, Asks
    <3>2. QED
      BY <2>1, <3>1
  <2>2. CASE /\ stage[d] = "update" /\ table[a.name] # NoRow
             /\ table' = [table EXCEPT ![a.name] = [@ EXCEPT !.pwd = a.pwd, !.proof = a.code]]
    <3> DEFINE r == [table[a.name] EXCEPT !.pwd = a.pwd, !.proof = a.code]
    <3>1. table[a.name] \in Rows /\ table[a.name].email = a.email
      BY <1>2, <1>4, <2>2 DEF CodeInv, ComeInv, GateData, a
    <3>2. r \in Rows /\ r.proof = a.code /\ r.email = a.email
      BY <1>2, <3>1 DEF Rows
    <3>3. table' = [table EXCEPT ![a.name] = r]
      BY <2>2
    <3> HIDE DEF r
    <3>4. QED
      BY <3>1, <3>2, <3>3
  <2>3. QED
    BY <1>3, <2>1, <2>2
<1>6. StoreInv' /\ CodesExpire' /\ ReplacedOnlyByRace'
  <2>1. StoreInv'
    BY <1>1 DEF codes, CodeInv, StoreInv
  <2>2. CodesExpire'
    BY <1>1 DEF codes, CodeInv, CodesExpire
  <2>3. ReplacedOnlyByRace'
    BY <1>1 DEF codes, CodeInv, ReplacedOnlyByRace
  <2>4. QED
    BY <2>1, <2>2, <2>3
<1>7. ComeInv'
  <2>1. "away" \notin Proven \cup {"wait update", "update"}
    BY DEF Proven
  <2>2. ASSUME NEW x \in Devices, stage'[x] \in Proven PROVE Owned(ask[x])'
    BY <1>1, <2>1, <2>2 DEF CodeInv, ComeInv, Owned, codes
  <2>3. ASSUME NEW x \in Devices, stage'[x] \in {"wait update", "update"}
        PROVE  table'[ask'[x].name] # NoRow /\ table'[ask'[x].name].email = ask'[x].email
    <3>1. x # d /\ stage'[x] = stage[x] /\ ask'[x] = ask[x]
      BY <1>1, <2>1, <2>3
    <3>2. table[ask[x].name] # NoRow /\ table[ask[x].name].email = ask[x].email
      BY <2>3, <3>1 DEF CodeInv, ComeInv
    <3>3. ask[x].name \in Names
      BY <2>3, <3>1, AskFields, TypeParts DEF InGate, GateStages, Holding, Waiting
    <3>4. ASSUME NEW m \in Names, table[m] # NoRow
          PROVE  table'[m] # NoRow /\ table'[m].email = table[m].email
      <4>1. CASE table' = table
        BY <3>4, <4>1
      <4>2. CASE table' # table
        <5>1. PICK r \in Rows : /\ table' = [table EXCEPT ![a.name] = r]
                                /\ table[a.name] # NoRow => r.email = table[a.name].email
          BY <1>5, <4>2
        <5>2. r # NoRow
          BY GateAssumption
        <5>3. QED
          BY <1>2, <1>4, <3>4, <5>1, <5>2 DEF GateData
      <4>3. QED
        BY <4>1, <4>2
    <3>5. QED
      BY <3>1, <3>2, <3>3, <3>4
  <2>4. QED
    BY <2>2, <2>3 DEF ComeInv
<1>8. PasswordByOwner'
  <2> SUFFICES ASSUME NEW m \in Names, table'[m] # NoRow, table'[m].proof # 0
               PROVE  table'[m].proof <= Len(issued) /\ issued[table'[m].proof] = table'[m].email
    BY <1>1 DEF PasswordByOwner, codes
  <2>1. CASE table'[m] = table[m]
    BY <2>1 DEF CodeInv, PasswordByOwner
  <2>2. CASE table'[m] # table[m]
    <3>1. m = a.name /\ table'[m].proof = a.code /\ table'[m].email = a.email
      BY <1>2, <1>4, <1>5, <2>2 DEF GateData
    <3>2. QED
      BY <1>2, <3>1 DEF Owned
  <2>3. QED
    BY <2>1, <2>2
<1>9. QED
  BY <1>6, <1>7, <1>8 DEF CodeInv

LEMMA EventCodes ==
    ASSUME TypeInv, CodeInv, GateEvent
    PROVE  CodeInv'
<1>0. GateData /\ UNCHANGED <<table, issued, seen>>
  BY TypeParts DEF GateEvent, Accept, CodeExpires, NodeLosesRedis, NodeRestarts, codes
<1>1. \A e \in Emails : store'[e] \in {0, store[e]}
  BY <1>0 DEF GateEvent, Accept, CodeExpires, NodeLosesRedis, NodeRestarts, codes, GateData
<1>2. \A x \in Devices :
          \/ stage'[x] = stage[x] /\ ask'[x] = ask[x]
          \/ stage'[x] \in {"queued", "away"}
  BY TypeParts, GateEventStages
<1>3. StoreInv'
  BY <1>0, <1>1 DEF CodeInv, StoreInv
<1>4. PasswordByOwner'
  BY <1>0 DEF CodeInv, PasswordByOwner
<1>5. ComeInv'
  <2>1. \A s \in {"queued", "away"} : s \notin Proven \cup {"wait update", "update"}
    BY DEF Proven
  <2>2. QED
    BY <1>0, <1>2, <2>1 DEF CodeInv, ComeInv, Owned
<1>6. CodesExpire'
  <2> SUFFICES ASSUME NEW f \in Emails, store'[f] # 0, ~expires'[f], f \notin unfinished'
               PROVE  \E x \in Devices : stage'[x] = "expire" /\ ask'[x].email = f
    BY DEF CodesExpire
  <2>1. store[f] # 0 /\ ~expires[f] /\ f \notin unfinished
    BY <1>0 DEF GateEvent, Accept, CodeExpires, NodeLosesRedis, NodeRestarts, codes, GateData
  <2>2. PICK x \in Devices : stage[x] = "expire" /\ ask[x].email = f
    BY <2>1 DEF CodeInv, CodesExpire
  <2>3. stage'[x] = stage[x] /\ ask'[x] = ask[x]
    <3>1. CASE \E d \in Devices, a \in Requests, t \in Threads : Accept(d, a, t)
      BY <2>2, <3>1, TypeParts DEF Accept, StageType
    <3>2. CASE NodeRestarts
      BY <2>2, <3>2 DEF NodeRestarts, CutOff
    <3>3. CASE NodeLosesRedis \/ \E e \in Emails : CodeExpires(e)
      BY <3>3 DEF NodeLosesRedis, CodeExpires
    <3>4. QED
      BY <3>1, <3>2, <3>3 DEF GateEvent
  <2>4. QED
    BY <2>2, <2>3
<1>7. ReplacedOnlyByRace'
  <2> SUFFICES ASSUME NEW x \in Devices, stage'[x] = "set", nodeRedis'
               PROVE  store'[ask'[x].email] = 0 \/ seen'[x] < store'[ask'[x].email]
    BY DEF ReplacedOnlyByRace
  <2>1. stage[x] = "set" /\ ask'[x] = ask[x]
    BY <1>2
  <2>2. ask[x].email \in Emails
    BY <2>1, AskFields, TypeParts DEF InGate, GateStages, NodeStages
  <2>3. nodeRedis
    <3>1. CASE NodeRestarts
      BY <2>1, <3>1 DEF NodeRestarts, AllAnswered, NodeStages
    <3>2. CASE ~NodeRestarts
      BY <3>2 DEF GateEvent, Accept, CodeExpires, NodeLosesRedis, codes
    <3>3. QED
      BY <3>1, <3>2
  <2>4. QED
    BY <1>0, <1>1, <2>1, <2>2, <2>3 DEF CodeInv, ReplacedOnlyByRace
<1>8. QED
  BY <1>3, <1>4, <1>5, <1>6, <1>7 DEF CodeInv

LEMMA CodeInit == Init => CodeInv
<1> SUFFICES ASSUME Init PROVE CodeInv
  OBVIOUS
<1>1. "away" \notin Proven \cup {"wait update", "update"}
  BY DEF Proven
<1>2. StoreInv /\ ComeInv
  BY <1>1 DEF Init, GateInit, StoreInv, ComeInv
<1>3. CodesExpire /\ ReplacedOnlyByRace /\ PasswordByOwner
  BY GateAssumption DEF Init, GateInit, CodesExpire, ReplacedOnlyByRace, PasswordByOwner
<1>4. QED
  BY <1>2, <1>3 DEF CodeInv

LEMMA CodeNext == TypeInv /\ CodeInv /\ [Next]_vars => CodeInv'
<1> SUFFICES ASSUME TypeInv, CodeInv, [Next]_vars PROVE CodeInv'
  OBVIOUS
<1>1. ASSUME NEW d \in Devices, GateStep(d) PROVE CodeInv'
  BY <1>1, CodeMoves, GetRedisCodes, SetCodeCodes, ExpireCodes, RowCodes DEF GateStep
<1>2. QED
  BY <1>1, EventCodes, CodeFrame, FrameHolds

LEMMA CodeCorrect == Spec => []CodeInv
BY InitType, NextType, CodeInit, CodeNext, PTL DEF Spec

(* Every code in Redis expires, except one whose request is between SET and*)
(* EXPIRE or failed there, however requests of one address overlap.        *)
THEOREM ExpiryCorrect == Spec => []CodesExpire
<1>1. CodeInv => CodesExpire
  BY DEF CodeInv
<1>2. QED
  BY <1>1, CodeCorrect, PTL

(* A code in force is overwritten only by a request that looked for one    *)
(* before it was stored.                                                   *)
THEOREM ReplacementCorrect == Spec => []ReplacedOnlyByRace
<1>1. CodeInv => ReplacedOnlyByRace
  BY DEF CodeInv
<1>2. QED
  BY <1>1, CodeCorrect, PTL

(* Nobody sets an account's password with a code that was not made for the *)
(* account's address, however registrations, resets and codes interleave.  *)
THEOREM PasswordCorrect == Spec => []PasswordByOwner
<1>1. CodeInv => PasswordByOwner
  BY DEF CodeInv
<1>2. QED
  BY <1>1, CodeCorrect, PTL

-----------------------------------------------------------------------------
(* Connections.                                                            *)
Held == {d \in Devices : stage[d] \in Holding}

LEMMA HeldFinite ==
    ASSUME TypeInv
    PROVE  /\ IsFiniteSet(Held) /\ Cardinality(Held) \in Nat
           /\ \A d \in Devices \ Held : Cardinality(Held \cup {d}) = Cardinality(Held) + 1
           /\ \A d \in Held : Cardinality(Held \ {d}) = Cardinality(Held) - 1
<1>1. IsFiniteSet(Held)
  BY FS_Subset, GateAssumption DEF Held
<1>2. QED
  BY <1>1, FS_CardinalityType, FS_AddElement, FS_RemoveElement

LEMMA HoldingNames ==
    /\ Holding \subseteq GateOnly /\ Holding \intersect (NodeStages \cup Waiting) = {}
    /\ "away" \notin Holding /\ "queued" \notin Holding /\ "compare" \notin Holding
    /\ "choose" \notin Holding /\ "wait insert" \notin Holding /\ "wait email" \notin Holding
    /\ "wait update" \notin Holding
    /\ \A k \in Kinds : FirstStage[k] \notin Holding
    /\ \A w \in Waiting : Wanted[w] \in Holding
<1>1. Holding \subseteq GateOnly /\ \A w \in Waiting : Wanted[w] \in Holding
  BY GateOnlyNames, GateStageNames
<1>2. Holding \intersect (NodeStages \cup Waiting) = {}
  BY DEF Holding, NodeStages, Waiting
<1>3. \A x \in {"away", "queued", "compare", "choose"} : x \notin Holding
  BY DEF Holding
<1>4. \A x \in {"wait insert", "wait email", "wait update"} : x \notin Holding
  BY DEF Holding
<1>5. \A k \in Kinds : FirstStage[k] \notin Holding
  BY FirstNames DEF Holding
<1>6. QED
  BY <1>1, <1>2, <1>3, <1>4, <1>5

(* One step takes or gives back at most one connection.                    *)
LEMMA HeldStep ==
    ASSUME TypeInv, NEW d \in Devices, GateStep(d)
    PROVE  \/ Held' = Held /\ idle' = idle /\ lost' = lost
           \/ d \notin Held /\ Held' = Held \cup {d} /\ idle' = idle - 1 /\ lost' = lost
           \/ /\ d \in Held /\ Held' = Held \ {d}
              /\ \/ idle' = idle + 1 /\ lost' = lost
                 \/ idle' = idle /\ lost' = lost + 1
<1>0. StageType /\ GateData
  BY TypeParts
<1>1. \A e \in Devices : e # d => stage'[e] = stage[e]
  BY <1>0, GateStepStages
<1>2. CASE GetConnection(d)
  <2>1. stage[d] \in Waiting /\ stage'[d] \in Holding /\ idle' = idle - 1 /\ lost' = lost
    BY <1>0, <1>2, GoOneStage, HoldingNames DEF GetConnection
  <2>2. stage[d] \notin Holding
    BY <2>1, HoldingNames
  <2>3. QED
    BY <1>1, <2>1, <2>2 DEF Held
<1>3. CASE RegUser(d) \/ CheckEmail(d) \/ UpdatePwd(d) \/ CheckPwd(d)
  <2>1. stage[d] \in Holding /\ stage'[d] \in {"away", "wait update", "choose"}
    BY <1>0, <1>3, GoOneStage
       DEF RegUser, CheckEmail, LosesConnection, UpdatePwd, CheckPwd, ReturnConnection, Answered, Holding
  <2>2. stage'[d] \notin Holding
    BY <2>1, HoldingNames
  <2>3. Held' = Held \ {d} /\ d \in Held
    BY <1>1, <2>1, <2>2 DEF Held
  <2>4. \/ idle' = idle + 1 /\ lost' = lost
        \/ idle' = idle /\ lost' = lost + 1
    BY <1>3 DEF RegUser, CheckEmail, LosesConnection, UpdatePwd, CheckPwd, ReturnConnection
  <2>5. QED
    BY <2>3, <2>4
<1>4. CASE HandleReq(d)
  <2>1. stage[d] = "queued" /\ ask[d].kind \in Kinds
    BY <1>0, <1>4, AskFields DEF HandleReq
  <2>2. stage'[d] = FirstStage[ask[d].kind]
    BY <1>0, <1>4, GoOneStage DEF HandleReq
  <2>3. QED
    BY <1>1, <1>4, <2>1, <2>2, HoldingNames DEF Held, HandleReq, pools
<1>5. CASE CompareCode(d)
  <2>1. stage[d] = "compare" /\ stage'[d] \in {"away", "wait insert", "wait email"}
    BY <1>0, <1>5, GoOneStage DEF CompareCode, Answered
  <2>2. stage[d] \notin Holding /\ stage'[d] \notin Holding
    BY <2>1, HoldingNames
  <2>3. Held' = Held
    BY <1>1, <2>2 DEF Held
  <2>4. QED
    BY <1>5, <2>3 DEF CompareCode
<1>6. CASE GetRedis(d) \/ SetCode(d) \/ Expire(d) \/ RedisErr(d) \/ SendMail(d)
  <2>1. stage[d] \in NodeStages
    BY <1>6 DEF GetRedis, SetCode, Expire, RedisErr, SendMail, Go, GoWith, NodeStages
  <2>2. stage'[d] \in NodeStages \cup {"away"}
    BY <1>0, <1>6 DEF GetRedis, SetCode, Expire, RedisErr, SendMail, Go, GoWith, NodeStages, Answered,
       StageType
  <2>3. Held' = Held
    BY <1>1, <2>1, <2>2, HoldingNames DEF Held
  <2>4. idle' = idle /\ lost' = lost
    BY <1>6 DEF GetRedis, SetCode, Expire, RedisErr, SendMail, pools
  <2>5. QED
    BY <2>3, <2>4
<1>7. QED
  BY <1>2, <1>3, <1>4, <1>5, <1>6 DEF GateStep

LEMMA HeldElse ==
    ASSUME TypeInv, GateEvent \/ DoorFrame
    PROVE  Held' = Held /\ idle' = idle /\ lost' = lost
<1>1. idle' = idle /\ lost' = lost
  BY DEF GateEvent, Accept, CodeExpires, NodeLosesRedis, NodeRestarts, DoorFrame, gateRest, pools
<1>2. CASE DoorFrame
  BY <1>1, <1>2, HoldingNames DEF DoorFrame, Held
<1>3. CASE \E d \in Devices, a \in Requests, t \in Threads : Accept(d, a, t)
  <2>1. PICK d \in Devices, a \in Requests, t \in Threads : Accept(d, a, t)
    BY <1>3
  <2>2. stage[d] = "away" /\ stage'[d] = "queued" /\ \A e \in Devices : e # d => stage'[e] = stage[e]
    BY <2>1, TypeParts DEF Accept, StageType
  <2>3. QED
    BY <1>1, <2>2, HoldingNames DEF Held
<1>4. CASE NodeRestarts
  BY <1>1, <1>4, HoldingNames DEF NodeRestarts, AllAnswered, Held
<1>5. CASE NodeLosesRedis \/ \E e \in Emails : CodeExpires(e)
  BY <1>1, <1>5 DEF NodeLosesRedis, CodeExpires, Held
<1>6. QED
  BY <1>2, <1>3, <1>4, <1>5 DEF GateEvent

(* The gate never uses more connections than its pool has, and those it    *)
(* does not give back are only CheckEmail's: for any number of requests.   *)
THEOREM ConnectionsCorrect == Spec => []GateConnections
<1>1. GateConnections <=> idle + Cardinality(Held) + lost = SqlPool
  BY DEF GateConnections, Held
<1>2. Init => GateConnections
  <2> SUFFICES ASSUME Init PROVE GateConnections
    OBVIOUS
  <2>1. Held = {}
    BY HoldingNames DEF Init, GateInit, Held
  <2>2. QED
    BY <1>1, <2>1, FS_EmptySet, GateAssumption DEF Init, GateInit
<1>3. TypeInv /\ GateConnections /\ [Next]_vars => GateConnections'
  <2> SUFFICES ASSUME TypeInv, GateConnections, [Next]_vars PROVE GateConnections'
    OBVIOUS
  <2>1. idle \in Nat /\ lost \in Nat /\ idle + Cardinality(Held) + lost = SqlPool
    BY <1>1, TypeParts DEF GateData
  <2>2. idle' + Cardinality(Held') + lost' = SqlPool
    <3>1. CASE \E d \in Devices : GateStep(d)
      BY <2>1, <3>1, HeldStep, HeldFinite, GateAssumption
    <3>2. CASE GateEvent \/ DoorFrame
      BY <2>1, <3>2, HeldElse
    <3>3. QED
      BY <3>1, <3>2, FrameHolds
  <2>3. QED
    BY <2>2 DEF GateConnections, Held
<1>4. QED
  BY <1>2, <1>3, InitType, NextType, PTL DEF Spec

-----------------------------------------------------------------------------
(* Tokens: they are numbered as they are generated, and a ticket that says *)
(* its token was stored is older than what is stored for its user now.     *)
TicketOK(t) ==
    t # NoTicket => t.token <= tokens /\ (t.stored => token[t.name] >= t.token)
TicketInv ==
    /\ \A n \in Names : token[n] <= tokens
    /\ \A d \in Devices : TicketOK(ticket[d])
    /\ \A d \in Devices : stage[d] = "issue" => ~ticket[d].stored
(* What a step other than InsertToken does to them.                        *)
TicketFrame ==
    /\ UNCHANGED <<token, tokens>>
    /\ \A d \in Devices :
           \/ ticket'[d] = ticket[d] /\ (stage'[d] = "issue" => stage[d] = "issue")
           \/ ticket'[d] = NoTicket /\ stage'[d] = "away"
           \/ ticket'[d] \in Tickets /\ ticket'[d].token = 0 /\ ~ticket'[d].stored

LEMMA TicketFramed ==
    ASSUME TypeInv, TicketInv, TicketFrame
    PROVE  TicketInv'
<1>1. \A n \in Names : token'[n] <= tokens'
  BY DEF TicketInv, TicketFrame
<1>2. \A d \in Devices : TicketOK(ticket[d])'
  <2> SUFFICES ASSUME NEW d \in Devices PROVE TicketOK(ticket[d])'
    OBVIOUS
  <2>1. CASE ticket'[d] = ticket[d]
    BY <2>1 DEF TicketInv, TicketFrame, TicketOK
  <2>2. CASE ticket'[d] = NoTicket
    BY <2>2 DEF TicketOK
  <2>3. CASE ticket'[d].token = 0 /\ ~ticket'[d].stored
    BY <2>3, TypeParts DEF TicketFrame, TicketOK, DoorData
  <2>4. QED
    BY <2>1, <2>2, <2>3 DEF TicketFrame
<1>3. \A d \in Devices : stage'[d] = "issue" => ~ticket'[d].stored
  BY DEF TicketInv, TicketFrame
<1>4. QED
  BY <1>1, <1>2, <1>3 DEF TicketInv

LEMMA TicketStepKind ==
    ASSUME TypeInv, [Next]_vars
    PROVE  (\E d \in Devices : InsertToken(d)) \/ TicketFrame
<1>0. StageType /\ GateData /\ DoorData /\ PollOK
  BY TypeParts
<1>1. "issue" \notin GateOnly /\ "issue" \in Holders
  BY GateOnlyNames DEF Holders
<1>2. CASE UNCHANGED vars
  BY <1>2 DEF vars, gateVars, doorVars, TicketFrame
<1>3. ASSUME NEW d \in Devices, GateStep(d), UNCHANGED doorVars PROVE TicketFrame
  BY <1>0, <1>1, <1>3, GateStepStages DEF TicketFrame, doorVars
<1>4. CASE GateEvent /\ UNCHANGED doorVars
  BY <1>0, <1>4, GateEventStages DEF TicketFrame, doorVars
<1>5. ASSUME NEW d \in Devices,
             StartPoll(d) \/ ReadCount(d) \/ Reply(d) \/ ReadOwnCount(d) \/ CountLogin(d) \/ RpcFails(d)
      PROVE  TicketFrame
  <2>1. UNCHANGED <<token, tokens, ticket>>
    BY <1>5 DEF StartPoll, ReadCount, Reply, ReadOwnCount, CountLogin, RpcFails, doorVars
  <2>2. \A e \in Devices : stage'[e] = "issue" => stage[e] = "issue"
    <3>1. CASE ReadCount(d)
      BY <3>1 DEF ReadCount
    <3>2. CASE Reply(d)
      BY <1>0, <3>2 DEF Reply, StageType
    <3>3. CASE StartPoll(d) \/ ReadOwnCount(d) \/ CountLogin(d) \/ RpcFails(d)
      <4>1. \E from, to : Go(d, from, to) /\ to # "issue"
        BY <3>3 DEF StartPoll, ReadOwnCount, CountLogin, RpcFails, Answered
      <4>2. QED
        BY <1>0, <4>1, GoOneStage
    <3>4. QED
      BY <1>5, <3>1, <3>2, <3>3
  <2>3. QED
    BY <2>1, <2>2 DEF TicketFrame
<1>6. ASSUME NEW d \in Devices, Choose(d) PROVE TicketFrame
  <2> DEFINE t == [name |-> UserOf(ask[d]), token |-> 0, stored |-> FALSE,
                   server |-> Order[poll.best]]
  <2>1. UNCHANGED <<token, tokens>> /\ ticket' = [ticket EXCEPT ![d] = t] /\ Go(d, "poll", "issue")
    BY <1>6 DEF Choose
  <2>2. poll # Idle
    BY <1>6, FrontDoorAssumption DEF Choose, Idle
  <2>3. poll.best \in 1..Len(Order)
    BY <1>0, <1>6, <2>2, FrontDoorAssumption DEF PollOK, Choose
  <2>4. stage[d] = "poll" /\ \A e \in Devices : e # d => stage'[e] = stage[e]
    BY <1>0, <2>1, GoOneStage
  <2>5. t \in Tickets
    BY <2>3, <2>4, UserOfType, ServersType DEF Tickets
  <2>6. t.token = 0 /\ ~t.stored
    OBVIOUS
  <2> HIDE DEF t
  <2>7. QED
    BY <1>0, <2>1, <2>4, <2>5, <2>6 DEF TicketFrame, DoorData
<1>7. ASSUME NEW d \in Devices, NEW from, NEW to, GoOrLeave(d, from, to), to # "issue"
      PROVE  TicketFrame
  <2>1. UNCHANGED <<token, tokens>>
    BY <1>7 DEF GoOrLeave
  <2>2. stage'[d] = to /\ \A e \in Devices : e # d => stage'[e] = stage[e]
    BY <1>0, <1>7, GoOneStage DEF GoOrLeave
  <2>3. ticket' = IF to = "away" THEN [ticket EXCEPT ![d] = NoTicket] ELSE ticket
    BY <1>7 DEF GoOrLeave
  <2>4. QED
    BY <1>0, <1>7, <2>1, <2>2, <2>3 DEF TicketFrame, DoorData
<1>8. ASSUME NEW d \in Devices, Connect(d) \/ Leave(d) \/ StartLogin(d) \/ CheckToken(d)
      PROVE  TicketFrame
  BY <1>7, <1>8 DEF Connect, Leave, StartLogin, CheckToken
<1>9. ASSUME NEW s \in Servers, ServerStep(s) PROVE TicketFrame
  <2>1. UNCHANGED <<token, tokens>>
    BY <1>9 DEF ServerStep, StartServer, StopServer, DropCount, EndServer, CrashServer
  <2>2. CASE UNCHANGED <<stage, ticket>>
    BY <2>1, <2>2 DEF TicketFrame
  <2>3. CASE CutDevices(s)
    BY <2>1, <2>3 DEF TicketFrame, CutDevices, AllAnswered
  <2>4. QED
    BY <1>9, <2>2, <2>3 DEF ServerStep, StartServer, StopServer, DropCount, EndServer, CrashServer
<1>10. QED
  BY <1>2, <1>3, <1>4, <1>5, <1>6, <1>8, <1>9 DEF Next, DeviceStep

LEMMA TicketInserted ==
    ASSUME TypeInv, TicketInv, NEW d \in Devices, InsertToken(d)
    PROVE  TicketInv'
<1> DEFINE n == ticket[d].name
           new == ticket'[d]
<1>0. StageType /\ DoorData
  BY TypeParts
<1>1. /\ stage[d] = "issue" /\ stage'[d] = "reply"
      /\ \A e \in Devices : e # d => stage'[e] = stage[e]
  BY <1>0, GoOneStage DEF InsertToken
<1>2. ticket[d] \in Tickets /\ n \in Names /\ ~ticket[d].stored /\ tokens \in Nat
      /\ tokens' = tokens + 1
  BY <1>0, <1>1, TicketServer DEF Holders, TicketInv, DoorData, InsertToken
<1>3. /\ \A e \in Devices : e # d => ticket'[e] = ticket[e]
      /\ new \in Tickets /\ new.token = tokens + 1 /\ new.name = n
      /\ \/ token' = [token EXCEPT ![n] = tokens + 1]
         \/ token' = token /\ ~new.stored
  <2>1. CASE /\ token' = [token EXCEPT ![n] = tokens + 1]
             /\ ticket' = [ticket EXCEPT ![d].token = tokens + 1, ![d].stored = TRUE]
    <3>1. ticket' = [ticket EXCEPT ![d] = [@ EXCEPT !.token = tokens + 1, !.stored = TRUE]]
      BY <2>1
    <3>2. new = [ticket[d] EXCEPT !.token = tokens + 1, !.stored = TRUE]
          /\ \A e \in Devices : e # d => ticket'[e] = ticket[e]
      BY <1>0, <3>1 DEF DoorData
    <3>3. tokens + 1 \in Nat
      BY <1>2
    <3>4. new \in Tickets /\ new.token = tokens + 1 /\ new.name = n
      BY <1>2, <3>2, <3>3 DEF Tickets
    <3>5. QED
      BY <2>1, <3>2, <3>4
  <2>2. CASE /\ ticket' = [ticket EXCEPT ![d].token = tokens + 1]
             /\ token' = token
    <3>1. ticket' = [ticket EXCEPT ![d] = [@ EXCEPT !.token = tokens + 1]]
      BY <2>2
    <3>2. new = [ticket[d] EXCEPT !.token = tokens + 1]
          /\ \A e \in Devices : e # d => ticket'[e] = ticket[e]
      BY <1>0, <3>1 DEF DoorData
    <3>3. tokens + 1 \in Nat
      BY <1>2
    <3>4. new \in Tickets /\ new.token = tokens + 1 /\ new.name = n
      BY <1>2, <3>2, <3>3 DEF Tickets
    <3>5. ~new.stored
      BY <1>2, <3>2, <3>3 DEF Tickets
    <3>6. QED
      BY <2>2, <3>2, <3>4, <3>5
  <2>3. QED
    BY <2>1, <2>2 DEF InsertToken
<1> HIDE DEF n, new
<1>4. \A m \in Names : token[m] \in Nat /\ token[m] <= tokens /\ token'[m] \in {token[m], tokens + 1}
  BY <1>0, <1>2, <1>3 DEF DoorData, TicketInv
<1>5. \A m \in Names : token'[m] <= tokens'
  BY <1>2, <1>4
<1>6. ASSUME NEW e \in Devices PROVE TicketOK(ticket[e])'
  <2>1. CASE e = d
    <3>1. token'[n] = tokens + 1 \/ ~new.stored
      BY <1>0, <1>2, <1>3 DEF DoorData
    <3>2. QED
      BY <1>2, <1>3, <2>1, <3>1 DEF TicketOK, new
  <2>2. CASE e # d /\ ticket[e] # NoTicket
    <3>1. ticket[e] \in Tickets /\ ticket[e].name \in Names /\ ticket[e].token \in Nat
      BY <1>0, <2>2 DEF DoorData, Tickets
    <3>2. ticket[e].token <= tokens /\ (ticket[e].stored => token[ticket[e].name] >= ticket[e].token)
      BY <2>2 DEF TicketInv, TicketOK
    <3>3. /\ ticket[e].token <= tokens'
          /\ ticket[e].stored => token'[ticket[e].name] >= ticket[e].token
      BY <1>2, <1>4, <3>1, <3>2
    <3>4. QED
      BY <1>3, <2>2, <3>3 DEF TicketOK
  <2>3. CASE e # d /\ ticket[e] = NoTicket
    <3>1. ticket'[e] = NoTicket
      BY <1>3, <2>3
    <3>2. QED
      BY <3>1 DEF TicketOK
  <2>4. QED
    BY <2>1, <2>2, <2>3
<1>7. \A e \in Devices : stage'[e] = "issue" => ~ticket'[e].stored
  BY <1>1, <1>3 DEF TicketInv
<1>8. QED
  BY <1>5, <1>6, <1>7 DEF TicketInv

(* A stored token is honoured until a later one is stored for the same     *)
(* user, whichever way the logins of a user overlap.                       *)
THEOREM TicketCorrect == Spec => []TicketHonoured
<1>1. Init => TicketInv
  <2> SUFFICES ASSUME Init PROVE TicketInv
    OBVIOUS
  <2>1. tokens = 0 /\ \A n \in Names : token[n] = 0
    BY DEF Init
  <2>2. \A d \in Devices : ticket[d] = NoTicket /\ stage[d] = "away"
    BY DEF Init, GateInit
  <2>3. \A d \in Devices : TicketOK(ticket[d])
    BY <2>2 DEF TicketOK
  <2>4. QED
    BY <2>1, <2>2, <2>3 DEF TicketInv
<1>2. TypeInv /\ TicketInv /\ [Next]_vars => TicketInv'
  BY TicketStepKind, TicketFramed, TicketInserted
<1>3. TypeInv /\ TicketInv => TicketHonoured
  <2> SUFFICES ASSUME TypeInv, TicketInv, NEW d \in Devices,
                      stage[d] \in {"ticket", "posted", "token"}, ticket[d].stored
               PROVE  token[ticket[d].name] >= ticket[d].token
    BY DEF TicketHonoured
  <2>1. stage[d] \in Holders
    BY DEF Holders, Handling
  <2>2. QED
    BY <2>1, TypeParts DEF HaveTickets, TicketInv, TicketOK
<1>4. QED
  BY <1>1, <1>2, <1>3, InitType, NextType, PTL DEF Spec

-----------------------------------------------------------------------------
(* Counters.  A server that has ended serves nobody; one that has deleted  *)
(* its counter in time, and did, has no login under way; a server handles one login  *)
(* at a time, and what that login has read is still true.                  *)
Served == {"posted", "in"} \cup Handling
Under == {"posted"} \cup Handling
ServedUp == \A d \in Devices : stage[d] \in Served => up[ticket[d].server] # "down"
UnderOK == \A d \in Devices : stage[d] \in Under /\ up[ticket[d].server] = "dropped" =>
               ticket[d].server \in late
OneHandled == \A d, e \in Devices :
    stage[d] \in Handling /\ stage[e] \in Handling /\ ticket[d].server = ticket[e].server => d = e
OwnRead == \A d \in Devices :
    stage[d] = "bump" /\ up[ticket[d].server] = "up" /\ ticket[d].server \notin miscounted =>
        own[d] = logins[ticket[d].server]
Counted == \A s \in Servers : up[s] = "up" /\ s \notin miscounted => count[s] = logins[s]
Dropped == \A s \in Servers : up[s] \in {"dropped", "down"} /\ s \notin late => count[s] = NoCount
CountInv == ServedUp /\ UnderOK /\ OneHandled /\ OwnRead /\ Counted /\ Dropped

(* A step that only moves devices, none of them into a chat server.        *)
CountFrame ==
    /\ UNCHANGED <<count, own, up, logins, miscounted, late>>
    /\ \A d \in Devices :
           \/ stage'[d] = stage[d] /\ ticket'[d] = ticket[d]
           \/ stage'[d] \notin Served

LEMMA ServedNames ==
    /\ Under \subseteq Served /\ Handling \subseteq Under /\ "in" \in Served /\ "posted" \in Served
    /\ "bump" \in Handling /\ "in" \notin Under /\ Served \subseteq Holders
    /\ "posted" \notin Handling /\ "token" \in Handling /\ "count" \in Handling
    /\ \A x \in {"away", "issue", "ticket", "reply", "choose", "poll", "queued"} : x \notin Served
    /\ Served \intersect GateOnly = {}
<1>1. /\ Under \subseteq Served /\ Handling \subseteq Under /\ "in" \in Served /\ "posted" \in Served
      /\ "bump" \in Handling /\ "in" \notin Under /\ Served \subseteq Holders
      /\ "posted" \notin Handling /\ "token" \in Handling /\ "count" \in Handling
  BY DEF Under, Served, Handling, Holders
<1>2. \A x \in {"away", "issue", "ticket"} : x \notin Served
  BY DEF Served, Handling
<1>3. \A x \in {"reply", "choose", "poll", "queued"} : x \notin Served
  BY DEF Served, Handling
<1>4. Served \intersect GateOnly = {}
  BY <1>1, GateOnlyNames
<1>5. QED
  BY <1>1, <1>2, <1>3, <1>4

LEMMA CountFramed ==
    ASSUME CountInv, CountFrame
    PROVE  CountInv'
<1>1. ASSUME NEW d \in Devices, stage'[d] \in Served
      PROVE  stage'[d] = stage[d] /\ ticket'[d] = ticket[d]
  BY <1>1 DEF CountFrame
<1>2. UNCHANGED <<count, own, up, logins, miscounted, late>>
  BY DEF CountFrame
<1>3. ServedUp'
  BY <1>1, <1>2 DEF CountInv, ServedUp
<1>4. UnderOK'
  BY <1>1, <1>2, ServedNames DEF CountInv, UnderOK
<1>5. OneHandled'
  <2> SUFFICES ASSUME NEW d \in Devices, NEW e \in Devices, stage'[d] \in Handling,
                      stage'[e] \in Handling, ticket'[d].server = ticket'[e].server
               PROVE  d = e
    BY DEF OneHandled
  <2>1. stage'[d] = stage[d] /\ ticket'[d] = ticket[d] /\ stage'[e] = stage[e] /\ ticket'[e] = ticket[e]
    BY <1>1, ServedNames
  <2>2. QED
    BY <2>1 DEF CountInv, OneHandled
<1>6. OwnRead'
  BY <1>1, <1>2, ServedNames DEF CountInv, OwnRead
<1>7. Counted' /\ Dropped'
  BY <1>2 DEF CountInv, Counted, Dropped
<1>8. QED
  BY <1>3, <1>4, <1>5, <1>6, <1>7 DEF CountInv

(* One device comes to, or goes on in, its chat server.                    *)
LEMMA CountMove ==
    ASSUME TypeInv, CountInv, NEW d \in Devices, NEW from, NEW to \in Served, Go(d, from, to),
           UNCHANGED <<count, own, up, logins, miscounted, late, ticket>>,
           to # "bump", from \in Under \/ up[ticket[d].server] = "up",
           to \in Handling =>
               \/ from \in Handling
               \/ \A e \in Devices : ticket[e].server = ticket[d].server => stage[e] \notin Handling
    PROVE  CountInv'
<1>1. /\ stage[d] = from /\ stage'[d] = to
      /\ \A e \in Devices : e # d => stage'[e] = stage[e]
  BY TypeParts, GoOneStage
<1>2. ServedUp'
  <2>1. up[ticket[d].server] # "down"
    BY <1>1, ServedNames DEF CountInv, ServedUp
  <2>2. QED
    BY <1>1, <2>1 DEF CountInv, ServedUp
<1>3. UnderOK'
  <2>1. up[ticket[d].server] = "dropped" => ticket[d].server \in late
    BY <1>1 DEF CountInv, UnderOK
  <2>2. QED
    BY <1>1, <2>1 DEF CountInv, UnderOK
<1>4. OneHandled'
  <2> SUFFICES ASSUME NEW x \in Devices, NEW y \in Devices, stage'[x] \in Handling,
                      stage'[y] \in Handling, ticket[x].server = ticket[y].server
               PROVE  x = y
    BY DEF OneHandled
  <2>1. CASE x # d /\ y # d
    BY <1>1, <2>1 DEF CountInv, OneHandled
  <2>2. CASE x = d \/ y = d
    BY <1>1, <2>2 DEF CountInv, OneHandled
  <2>3. QED
    BY <2>1, <2>2
<1>5. OwnRead'
  BY <1>1 DEF CountInv, OwnRead
<1>6. Counted' /\ Dropped'
  BY DEF CountInv, Counted, Dropped
<1>7. QED
  BY <1>2, <1>3, <1>4, <1>5, <1>6 DEF CountInv

LEMMA CountClient ==
    ASSUME TypeInv, CountInv, NEW d \in Devices,
           Connect(d) \/ Leave(d) \/ StartLogin(d) \/ CheckToken(d)
    PROVE  CountInv'
<1>1. ASSUME NEW from, GoOrLeave(d, from, "away") PROVE CountInv'
  <2>1. stage'[d] = "away" /\ \A e \in Devices : e # d => stage'[e] = stage[e] /\ ticket'[e] = ticket[e]
    BY <1>1, TypeParts, GoOneStage DEF GoOrLeave, DoorData
  <2>2. CountFrame
    BY <1>1, <2>1, ServedNames DEF CountFrame, GoOrLeave
  <2>3. QED
    BY <2>2, CountFramed
<1>2. ASSUME NEW from, NEW to \in Served, GoOrLeave(d, from, to)
      PROVE  /\ Go(d, from, to)
             /\ UNCHANGED <<count, own, up, logins, miscounted, late, ticket>>
  BY <1>2, ServedNames DEF GoOrLeave
<1>3. CASE Leave(d)
  BY <1>1, <1>3 DEF Leave
<1>4. CASE Connect(d)
  <2>1. CASE up[ticket[d].server] = "up"
    <3>1. GoOrLeave(d, "ticket", "posted")
      BY <1>4, <2>1 DEF Connect
    <3>2. QED
      BY <1>2, <2>1, <3>1, ServedNames, CountMove
  <2>2. CASE up[ticket[d].server] # "up"
    BY <1>1, <1>4, <2>2 DEF Connect
  <2>3. QED
    BY <2>1, <2>2
<1>5. CASE StartLogin(d)
  <2>1. GoOrLeave(d, "posted", "token")
    BY <1>5 DEF StartLogin
  <2>2. \A e \in Devices : ticket[e].server = ticket[d].server => stage[e] \notin Handling
    BY <1>5 DEF StartLogin, AtServer
  <2>3. "posted" \in Under /\ "token" \in Served /\ "token" # "bump"
    BY ServedNames DEF Under
  <2>4. QED
    BY <1>2, <2>1, <2>2, <2>3, CountMove
<1>6. CASE CheckToken(d)
  <2>1. GoOrLeave(d, "token", "count") \/ GoOrLeave(d, "token", "away")
    BY <1>6 DEF CheckToken
  <2>2. "token" \in Under /\ "token" \in Handling /\ "count" \in Served /\ "count" # "bump"
    BY ServedNames
  <2>3. QED
    BY <1>1, <1>2, <2>1, <2>2, CountMove
<1>7. QED
  BY <1>3, <1>4, <1>5, <1>6

(* LoginHandler reads the counter and writes it back.                      *)
LEMMA CountHandler ==
    ASSUME TypeInv, CountInv, NEW d \in Devices, ReadOwnCount(d) \/ CountLogin(d)
    PROVE  CountInv'
<1> DEFINE s == ticket[d].server
<1>0. StageType /\ DoorData
  BY TypeParts
<1>1. PICK from \in {"count", "bump"}, to \in {"bump", "in"} :
          /\ stage[d] = from /\ stage'[d] = to
          /\ \A e \in Devices : e # d => stage'[e] = stage[e]
  BY <1>0, GoOneStage DEF ReadOwnCount, CountLogin
<1>2. /\ from \in Handling /\ from \in Under /\ from \in Served /\ to \in Served
      /\ to \in Under => to = "bump"
  BY <1>1, ServedNames DEF Handling
<1>3. s \in Servers
  BY <1>1, <1>2, ServedNames, TicketServer
<1>4. UNCHANGED <<ticket, up, late>>
  BY DEF ReadOwnCount, CountLogin
<1>5. ServedUp'
  BY <1>1, <1>2, <1>4 DEF CountInv, ServedUp
<1>6. UnderOK'
  BY <1>1, <1>2, <1>4 DEF CountInv, UnderOK
<1>7. OneHandled'
  <2> SUFFICES ASSUME NEW x \in Devices, NEW y \in Devices, stage'[x] \in Handling,
                      stage'[y] \in Handling, ticket[x].server = ticket[y].server
               PROVE  x = y
    BY <1>4 DEF OneHandled
  <2>1. stage[x] \in Handling /\ stage[y] \in Handling
    BY <1>1, <1>2
  <2>2. QED
    BY <2>1 DEF CountInv, OneHandled
<1>8. \A e \in Devices : e # d => ~(stage[e] \in Handling /\ ticket[e].server = s)
  BY <1>1, <1>2 DEF CountInv, OneHandled
<1>9. up[s] \in {"dropped", "down"} => s \in late
  BY <1>1, <1>2, <1>3, <1>0 DEF CountInv, ServedUp, UnderOK
<1> HIDE DEF s
<1>10. OwnRead' /\ Counted' /\ Dropped'
  <2>1. CASE ReadOwnCount(d)
    <3>1. UNCHANGED <<count, logins>> /\ stage'[d] = "bump"
      BY <1>0, <2>1, GoOneStage DEF ReadOwnCount
    <3>2. /\ own' \in [Devices -> Nat] /\ \A e \in Devices : e # d => own'[e] = own[e]
          /\ miscounted \subseteq miscounted'
          /\ s \in miscounted' \/ own'[d] = IF count[s] = NoCount THEN 0 ELSE count[s]
      BY <1>0, <1>3, <2>1 DEF ReadOwnCount, CommandFails, DoorData, s
    <3>3. Counted' /\ Dropped'
      BY <1>4, <3>1, <3>2 DEF CountInv, Counted, Dropped
    <3>4. up[s] = "up" /\ s \notin miscounted' => own'[d] = logins[s]
      BY <1>0, <1>3, <3>2, FrontDoorAssumption DEF CountInv, Counted, DoorData
    <3>5. OwnRead'
      BY <1>1, <1>4, <3>1, <3>2, <3>4 DEF CountInv, OwnRead, s
    <3>6. QED
      BY <3>3, <3>5
  <2>2. CASE CountLogin(d)
    <3>1. stage[d] = "bump" /\ stage'[d] = "in" /\ miscounted \subseteq miscounted'
      BY <1>0, <2>2, GoOneStage DEF CountLogin, CommandFails
    <3>2. \A e \in Devices : e # d => own'[e] = own[e]
      BY <1>0, <2>2 DEF CountLogin, DoorData
    <3>3. \A x \in Servers : x # s => count'[x] = count[x] /\ logins'[x] = logins[x]
      BY <1>0, <2>2 DEF CountLogin, DoorData, s
    <3>4. s \in miscounted' \/ (count'[s] = own[d] + 1 /\ logins'[s] = logins[s] + 1)
      BY <1>0, <1>3, <2>2 DEF CountLogin, CommandFails, DoorData, s
    <3>5. up[s] = "up" /\ s \notin miscounted => own[d] = logins[s]
      BY <3>1 DEF CountInv, OwnRead, s
    <3>6. Counted'
      BY <1>4, <3>1, <3>3, <3>4, <3>5 DEF CountInv, Counted
    <3>7. Dropped'
      BY <1>4, <1>9, <3>3 DEF CountInv, Dropped
    <3>8. OwnRead'
      <4> SUFFICES ASSUME NEW e \in Devices, stage'[e] = "bump", up[ticket[e].server] = "up",
                          ticket[e].server \notin miscounted'
                   PROVE  own'[e] = logins'[ticket[e].server]
        BY <1>4 DEF OwnRead
      <4>1. e # d /\ stage[e] = "bump" /\ own'[e] = own[e]
        BY <1>1, <3>1, <3>2
      <4>2. ticket[e].server # s /\ ticket[e].server \in Servers
        BY <1>8, <4>1, ServedNames, TicketServer
      <4>3. QED
        BY <3>1, <3>3, <4>1, <4>2 DEF CountInv, OwnRead
    <3>9. QED
      BY <3>6, <3>7, <3>8
  <2>3. QED
    BY <2>1, <2>2
<1>11. QED
  BY <1>5, <1>6, <1>7, <1>10 DEF CountInv

(* Chat servers start, stop, end and crash.                                *)
LEMMA CountCut ==
    ASSUME TypeInv, CountInv, NEW s \in Servers, CutDevices(s), UNCHANGED <<count, logins, miscounted>>,
           up' = [up EXCEPT ![s] = "down"], late \subseteq late',
           s \in late' \/ (up[s] = "dropped" /\ late' = late)
    PROVE  CountInv'
<1>0. StageType /\ DoorData
  BY TypeParts
<1>1. ASSUME NEW d \in Devices, stage'[d] \in Served
      PROVE  stage'[d] = stage[d] /\ ticket'[d] = ticket[d] /\ own'[d] = own[d]
             /\ ticket[d].server # s /\ ticket[d].server \in Servers
  <2>1. d \notin AtServer(s) /\ stage'[d] = stage[d] /\ ticket'[d] = ticket[d] /\ own'[d] = own[d]
    BY <1>1, ServedNames DEF CutDevices, AllAnswered
  <2>2. ticket[d].server # s
    BY <1>1, <2>1 DEF AtServer, Served
  <2>3. QED
    BY <1>1, <2>1, <2>2, ServedNames, TicketServer
<1>2. \A x \in Servers : x # s => up'[x] = up[x]
  BY <1>0 DEF DoorData
<1>3. ServedUp'
  BY <1>1, <1>2 DEF CountInv, ServedUp
<1>4. UnderOK'
  BY <1>1, <1>2, ServedNames DEF CountInv, UnderOK
<1>5. OneHandled'
  <2> SUFFICES ASSUME NEW x \in Devices, NEW y \in Devices, stage'[x] \in Handling,
                      stage'[y] \in Handling, ticket'[x].server = ticket'[y].server
               PROVE  x = y
    BY DEF OneHandled
  <2>1. stage[x] \in Handling /\ stage[y] \in Handling /\ ticket[x] = ticket'[x] /\ ticket[y] = ticket'[y]
    BY <1>1, ServedNames
  <2>2. QED
    BY <2>1 DEF CountInv, OneHandled
<1>6. OwnRead'
  BY <1>1, <1>2, ServedNames DEF CountInv, OwnRead
<1>7. Counted'
  BY <1>0 DEF CountInv, Counted, DoorData
<1>8. Dropped'
  BY <1>0, <1>2 DEF CountInv, Dropped, DoorData
<1>9. QED
  BY <1>3, <1>4, <1>5, <1>6, <1>7, <1>8 DEF CountInv

LEMMA CountServer ==
    ASSUME TypeInv, CountInv, NEW s \in Servers, ServerStep(s)
    PROVE  CountInv'
<1>0. DoorData
  BY TypeParts
<1>1. CASE EndServer(s) \/ CrashServer(s)
  BY <1>1, CountCut DEF EndServer, CrashServer
<1>2. CASE StartServer(s) \/ StopServer(s) \/ DropCount(s)
  <2>1. UNCHANGED <<stage, ticket, own>>
    BY <1>2 DEF StartServer, StopServer, DropCount
  <2>2. \A x \in Servers : x # s => up'[x] = up[x] /\ count'[x] = count[x] /\ logins'[x] = logins[x]
                                   /\ (x \in miscounted' <=> x \in miscounted)
                                   /\ (x \in late' <=> x \in late)
    <3>1. CASE StartServer(s)
      BY <1>0, <3>1 DEF StartServer, CommandFails, DoorData
    <3>2. CASE StopServer(s)
      BY <1>0, <3>2 DEF StopServer, DoorData
    <3>3. CASE DropCount(s)
      BY <1>0, <3>3 DEF DropCount, DoorData
    <3>4. QED
      BY <1>2, <3>1, <3>2, <3>3
  <2>3. OneHandled'
    BY <2>1 DEF CountInv, OneHandled
  <2>4. \A d \in Devices : stage[d] \in Served => ticket[d].server \in Servers
    BY ServedNames, TicketServer
  <2>5. CASE StartServer(s)
    <3>1. /\ up[s] = "down" /\ up'[s] = "up" /\ logins'[s] = 0
          /\ count'[s] = 0 \/ s \in miscounted'
      BY <1>0, <2>5 DEF StartServer, CommandFails, DoorData
    <3>2. \A d \in Devices : stage[d] \in Served => ticket[d].server # s
      BY <3>1 DEF CountInv, ServedUp
    <3>3. ServedUp' /\ UnderOK' /\ OwnRead'
      BY <2>1, <2>2, <2>4, <3>2, ServedNames DEF CountInv, ServedUp, UnderOK, OwnRead
    <3>4. Counted' /\ Dropped'
      BY <2>2, <3>1 DEF CountInv, Counted, Dropped
    <3>5. QED
      BY <2>3, <3>3, <3>4 DEF CountInv
  <2>6. CASE StopServer(s)
    <3>1. up[s] = "up" /\ up'[s] = "stopping" /\ UNCHANGED <<count, logins, miscounted, late>>
      BY <1>0, <2>6 DEF StopServer, DoorData
    <3>2. ServedUp' /\ UnderOK' /\ OwnRead'
      BY <2>1, <2>2, <2>4, <3>1, ServedNames DEF CountInv, ServedUp, UnderOK, OwnRead
    <3>3. Counted' /\ Dropped'
      BY <2>2, <3>1 DEF CountInv, Counted, Dropped
    <3>4. QED
      BY <2>3, <3>2, <3>3 DEF CountInv
  <2>7. CASE DropCount(s)
    <3>1. /\ up[s] = "stopping" /\ up'[s] = "dropped"
          /\ count'[s] = NoCount \/ s \in late'
          /\ s \in late' \/ UnderWay(s) = {}
      BY <1>0, <2>7 DEF DropCount, DoorData
    <3>2. \A d \in Devices : stage[d] \in Under /\ ticket[d].server = s => s \in late'
      <4>1. \A d \in Devices : stage[d] \in Under /\ ticket[d].server = s => d \in UnderWay(s)
        BY ServedNames DEF UnderWay, AtServer, Under
      <4>2. QED
        BY <3>1, <4>1
    <3>3. ServedUp' /\ OwnRead'
      BY <2>1, <2>2, <2>4, <3>1, ServedNames DEF CountInv, ServedUp, OwnRead
    <3>4. UnderOK'
      BY <2>1, <2>2, <2>4, <3>2, ServedNames DEF CountInv, UnderOK
    <3>5. Counted' /\ Dropped'
      BY <2>2, <3>1 DEF CountInv, Counted, Dropped
    <3>6. QED
      BY <2>3, <3>3, <3>4, <3>5 DEF CountInv
  <2>8. QED
    BY <1>2, <2>5, <2>6, <2>7
<1>3. QED
  BY <1>1, <1>2 DEF ServerStep

LEMMA CountStatus ==
    ASSUME TypeInv, CountInv, NEW d \in Devices,
           StartPoll(d) \/ ReadCount(d) \/ Choose(d) \/ InsertToken(d) \/ Reply(d) \/ RpcFails(d)
    PROVE  CountInv'
<1>0. StageType /\ DoorData
  BY TypeParts
<1>1. UNCHANGED <<count, own, up, logins, miscounted, late>>
  BY DEF StartPoll, ReadCount, Choose, InsertToken, Reply, RpcFails, doorVars
<1>2. CASE ReadCount(d)
  BY <1>1, <1>2, CountFramed DEF ReadCount, CountFrame
<1>3. CASE ~ReadCount(d)
  <2>1. /\ stage'[d] \in {"poll", "issue", "reply", "ticket", "away"}
        /\ \A e \in Devices : e # d => stage'[e] = stage[e]
    BY <1>0, <1>3, GoOneStage DEF StartPoll, Choose, InsertToken, Reply, RpcFails, Answered, StageType
  <2>2. stage'[d] \notin Served
    BY <2>1, ServedNames
  <2>3. \A e \in Devices : e # d => ticket'[e] = ticket[e]
    BY <1>0, <1>3 DEF StartPoll, Choose, InsertToken, Reply, RpcFails, doorVars, DoorData
  <2>4. QED
    BY <1>1, <2>1, <2>2, <2>3, CountFramed DEF CountFrame
<1>4. QED
  BY <1>2, <1>3

LEMMA CountInitial == Init => CountInv
<1> SUFFICES ASSUME Init PROVE CountInv
  OBVIOUS
<1>1. \A d \in Devices : stage[d] = "away"
  BY DEF Init, GateInit
<1>2. ServedUp /\ UnderOK /\ OneHandled /\ OwnRead
  BY <1>1, ServedNames DEF ServedUp, UnderOK, OneHandled, OwnRead
<1>3. Counted /\ Dropped
  BY DEF Init, Counted, Dropped
<1>4. QED
  BY <1>2, <1>3 DEF CountInv

LEMMA CountNext == TypeInv /\ CountInv /\ [Next]_vars => CountInv'
<1> SUFFICES ASSUME TypeInv, CountInv, [Next]_vars PROVE CountInv'
  OBVIOUS
<1>1. CASE UNCHANGED vars
  BY <1>1, CountFramed DEF vars, gateVars, doorVars, CountFrame
<1>2. ASSUME NEW d \in Devices, GateStep(d), UNCHANGED doorVars PROVE CountInv'
  <2>1. stage'[d] \notin Served /\ \A e \in Devices : e # d => stage'[e] = stage[e]
    BY <1>2, TypeParts, GateStepStages, ServedNames
  <2>2. QED
    BY <1>2, <2>1, CountFramed DEF CountFrame, doorVars
<1>3. CASE GateEvent /\ UNCHANGED doorVars
  <2>1. \A e \in Devices : stage'[e] = stage[e] \/ stage'[e] \notin Served
    BY <1>3, TypeParts, GateEventStages, ServedNames
  <2>2. QED
    BY <1>3, <2>1, CountFramed DEF CountFrame, doorVars
<1>4. QED
  BY <1>1, <1>2, <1>3, CountStatus, CountClient, CountHandler, CountServer DEF Next, DeviceStep

(* The counter of a running chat server is the number of logins since its  *)
(* start unless one of its own commands failed, the HSET of the start too, *)
(* and one that ended in time has none unless its HDEL failed: however     *)
(* logins, starts, stops and crashes of any number of servers interleave.  *)
THEOREM CountersCorrect == Spec => []CountersTrue
<1>1. CountInv => CountersTrue
  BY DEF CountInv, Counted, Dropped, CountersTrue
<1>2. QED
  BY <1>1, CountInitial, CountNext, InitType, NextType, PTL DEF Spec

-----------------------------------------------------------------------------
(* Balance.  The users whom a server has been chosen for and who have not  *)
(* been counted by it are pending; a server's counter and its pending users*)
(* together never exceed another's counter by more than the devices.  While*)
(* the status server polls, no user becomes pending, the best server had at*)
(* most all other devices pending when its counter was read, and counters  *)
(* only grow, so that the lowest value read stays below those read so far. *)
Pending == {"issue", "reply", "ticket"} \cup Under
Pend(s) == {d \in Devices : stage[d] \in Pending /\ ticket[d].server = s}
N == Cardinality(Devices)
AllUp == steady => miscounted = {} /\ \A s \in Servers : up[s] = "up"
SumOK == steady => \A s, t \in Servers : count[s] + Cardinality(Pend(s)) <= count[t] + N
BestOK == steady /\ poll # Idle /\ poll.best # 0 =>
    LET b == Order[poll.best] IN count[b] + Cardinality(Pend(b)) <= poll.low + N - 1
LowOK == steady /\ poll # Idle =>
    \A i \in 1..(poll.next - 1) : poll.low <= count[Order[i]]
BalInv == AllUp /\ SumOK /\ BestOK /\ LowOK

LEMMA PendFinite ==
    ASSUME NEW s
    PROVE  /\ IsFiniteSet(Pend(s)) /\ Cardinality(Pend(s)) \in Nat /\ N \in Nat
           /\ Cardinality(Pend(s)) <= N
           /\ \A d \in Devices \ Pend(s) : Cardinality(Pend(s)) <= N - 1
           /\ \A d \in Devices \ Pend(s) : Cardinality(Pend(s) \cup {d}) = Cardinality(Pend(s)) + 1
           /\ \A d \in Pend(s) : Cardinality(Pend(s) \ {d}) = Cardinality(Pend(s)) - 1
           /\ \A S \in SUBSET Pend(s) : Cardinality(S) \in Nat /\ Cardinality(S) <= Cardinality(Pend(s))
<1>1. IsFiniteSet(Devices) /\ Pend(s) \subseteq Devices
  BY GateAssumption DEF Pend
<1>2. IsFiniteSet(Pend(s)) /\ Cardinality(Pend(s)) <= N
  BY <1>1, FS_Subset DEF N
<1>3. ASSUME NEW d \in Devices \ Pend(s) PROVE Cardinality(Pend(s)) <= N - 1
  <2>1. Pend(s) \subseteq Devices \ {d}
    BY <1>1
  <2>2. IsFiniteSet(Devices \ {d}) /\ Cardinality(Devices \ {d}) = N - 1
    BY <1>1, FS_RemoveElement DEF N
  <2>3. QED
    BY <2>1, <2>2, FS_Subset
<1>4. Cardinality(Pend(s)) \in Nat /\ N \in Nat
  BY <1>1, <1>2, FS_CardinalityType DEF N
<1>5. \A d \in Devices \ Pend(s) : Cardinality(Pend(s) \cup {d}) = Cardinality(Pend(s)) + 1
  BY <1>2, FS_AddElement
<1>6. \A d \in Pend(s) : Cardinality(Pend(s) \ {d}) = Cardinality(Pend(s)) - 1
  BY <1>2, FS_RemoveElement
<1>7. \A S \in SUBSET Pend(s) : Cardinality(S) \in Nat /\ Cardinality(S) <= Cardinality(Pend(s))
  BY <1>2, FS_Subset, FS_CardinalityType
<1>8. QED
  BY <1>2, <1>3, <1>4, <1>5, <1>6, <1>7

LEMMA PendingNames ==
    /\ Pending \subseteq Holders /\ Pending \intersect GateOnly = {}
    /\ \A x \in {"away", "poll", "choose", "in"} : x \notin Pending
    /\ \A x \in {"issue", "reply", "ticket", "posted", "token", "count", "bump"} : x \in Pending
<1>1. Pending \subseteq Holders
  BY DEF Pending, Under, Holders
<1>2. Pending \intersect GateOnly = {}
  BY <1>1, GateOnlyNames
<1>3. \A x \in {"away", "poll", "choose", "in"} : x \notin Pending
  BY DEF Pending, Under, Handling
<1>4. \A x \in {"issue", "reply", "ticket", "posted"} : x \in Pending
  BY DEF Pending, Under
<1>5. \A x \in {"token", "count", "bump"} : x \in Pending
  BY DEF Pending, Under, Handling
<1>6. QED
  BY <1>1, <1>2, <1>3, <1>4, <1>5

(* In a steady state the counters are numbers.                             *)
LEMMA SteadyCounts ==
    ASSUME TypeInv, CountInv, BalInv, steady
    PROVE  /\ \A s \in Servers : up[s] = "up" /\ count[s] \in Nat /\ count[s] # NoCount
           /\ \A d \in Devices : stage[d] = "bump" => own[d] = count[ticket[d].server]
<1>1. miscounted = {} /\ \A s \in Servers : up[s] = "up"
  BY DEF BalInv, AllUp
<1>2. \A s \in Servers : count[s] = logins[s] /\ logins[s] \in Nat
  BY <1>1, TypeParts DEF CountInv, Counted, DoorData
<1>3. \A d \in Devices : stage[d] = "bump" => ticket[d].server \in Servers
  BY ServedNames, TicketServer
<1>4. QED
  BY <1>1, <1>2, <1>3, FrontDoorAssumption DEF CountInv, OwnRead

(* A step that neither counts nor polls, and makes nobody pending.         *)
BalFrame ==
    /\ UNCHANGED <<count, poll>>
    /\ \A d \in Devices : stage'[d] \in Pending =>
           stage[d] \in Pending /\ ticket'[d].server = ticket[d].server

LEMMA BalFramed ==
    ASSUME TypeInv, CountInv, BalInv, BalFrame, steady, AllUp'
    PROVE  BalInv'
<1>1. \A s : Pend(s)' \subseteq Pend(s)
  BY DEF BalFrame, Pend
<1>2. \A s : /\ Cardinality(Pend(s)) \in Nat /\ Cardinality(Pend(s)') \in Nat
             /\ Cardinality(Pend(s)') <= Cardinality(Pend(s)) /\ N \in Nat
  BY <1>1, PendFinite
<1>3. \A s \in Servers : count[s] \in Nat
  BY SteadyCounts
<1>4. count' = count /\ poll' = poll
  BY DEF BalFrame
<1>5. SumOK'
  <2> SUFFICES ASSUME NEW s \in Servers, NEW t \in Servers
               PROVE  count[s] + Cardinality(Pend(s)') <= count[t] + N
    BY <1>4 DEF SumOK, N
  <2>1. count[s] + Cardinality(Pend(s)) <= count[t] + N
    BY DEF BalInv, SumOK
  <2>2. QED
    BY <1>2, <1>3, <2>1
<1>6. BestOK'
  <2> SUFFICES ASSUME NEW b \in Servers, b = Order[poll.best], poll # Idle, poll.best # 0
               PROVE  count[b] + Cardinality(Pend(b)') <= poll.low + N - 1
    <3>1. poll # Idle => poll.best \in 0..Len(Order)
      BY TypeParts, FrontDoorAssumption DEF PollOK
    <3>2. poll # Idle /\ poll.best # 0 => Order[poll.best] \in Servers
      BY <3>1, ServersType, FrontDoorAssumption
    <3>3. QED
      BY <1>4, <3>2 DEF BestOK, N
  <2>1. count[b] + Cardinality(Pend(b)) <= poll.low + N - 1
    BY DEF BalInv, BestOK
  <2>2. poll.low \in Nat
    BY TypeParts DEF PollOK
  <2>3. QED
    BY <1>2, <1>3, <2>1, <2>2
<1>7. LowOK'
  BY <1>4 DEF BalInv, LowOK
<1>8. QED
  BY <1>5, <1>6, <1>7 DEF BalInv

LEMMA BalPoll ==
    ASSUME TypeInv, CountInv, BalInv, NEW d \in Devices, StartPoll(d) \/ ReadCount(d), steady',
           AllUp'
    PROVE  BalInv'
<1>0. StageType /\ PollOK
  BY TypeParts
<1>1. steady /\ count' = count
  BY DEF StartPoll, ReadCount
<1>2. \A s : Pend(s)' = Pend(s)
  <2>1. CASE StartPoll(d)
    <3>1. stage[d] = "choose" /\ stage'[d] = "poll" /\ ticket' = ticket
          /\ \A e \in Devices : e # d => stage'[e] = stage[e]
      BY <1>0, <2>1, GoOneStage DEF StartPoll
    <3>2. QED
      BY <3>1, PendingNames DEF Pend
  <2>2. CASE ReadCount(d)
    BY <2>2 DEF ReadCount, Pend
  <2>3. QED
    BY <2>1, <2>2
<1>3. SumOK'
  BY <1>1, <1>2 DEF BalInv, SumOK, N
<1>4. CASE StartPoll(d)
  <2>1. poll'.best = 0 /\ poll'.next = 1
    BY <1>4 DEF StartPoll
  <2>2. BestOK' /\ LowOK'
    BY <2>1 DEF BestOK, LowOK
  <2>3. QED
    BY <1>3, <2>2 DEF BalInv
<1>5. CASE ReadCount(d)
  <2> DEFINE k == poll.next
             c == count[Order[k]]
  <2>1. /\ poll # Idle /\ poll.d = d /\ stage[d] = "poll" /\ k \in 1..Len(Order) /\ poll.low \in Nat
        /\ (IF k = 1 THEN poll.best = 0 ELSE poll.best \in 1..(k - 1))
        /\ poll \in [d : Devices, next : 1..(Len(Order) + 1), best : 0..Len(Order), low : Nat]
    BY <1>0, <1>5, FrontDoorAssumption DEF PollOK, ReadCount, Idle
  <2>2. Order[k] \in Servers /\ c \in Nat /\ c # NoCount
    BY <1>1, <2>1, SteadyCounts, ServersType
  <2>3. poll' = IF poll.best = 0 \/ c < poll.low
                THEN [poll EXCEPT !.next = k + 1, !.best = k, !.low = c]
                ELSE [poll EXCEPT !.next = k + 1]
    BY <1>5, <2>2 DEF ReadCount, Weight
  <2>4. ASSUME NEW s \in Servers
        PROVE  Cardinality(Pend(s)) \in Nat /\ Cardinality(Pend(s)) <= N - 1 /\ N \in Nat
    <3>1. d \notin Pend(s)
      BY <2>1, PendingNames DEF Pend
    <3>2. QED
      BY <3>1, PendFinite
  <2>5. \A i \in 1..(k - 1) : poll.low <= count[Order[i]]
    BY <1>1, <2>1 DEF BalInv, LowOK
  <2>6. \A i \in 1..Len(Order) : count[Order[i]] \in Nat
    BY <1>1, SteadyCounts, ServersType
  <2>7. CASE poll.best = 0 \/ c < poll.low
    <3>1. poll'.next = k + 1 /\ poll'.best = k /\ poll'.low = c
      BY <2>1, <2>3, <2>7
    <3>2. \A i \in 1..k : c <= count[Order[i]]
      <4> SUFFICES ASSUME NEW i \in 1..k PROVE c <= count[Order[i]]
        OBVIOUS
      <4>1. CASE i = k
        BY <2>2, <4>1
      <4>2. CASE i # k
        <5>1. i \in 1..(k - 1) /\ k # 1 /\ count[Order[i]] \in Nat
          BY <2>1, <2>6, <4>2
        <5>2. c < poll.low /\ poll.low <= count[Order[i]]
          BY <2>1, <2>5, <2>7, <5>1
        <5> HIDE DEF c, k
        <5>3. QED
          BY <2>1, <2>2, <5>1, <5>2
      <4>3. QED
        BY <4>1, <4>2
    <3>3. LowOK'
      <4>1. \A i \in 1..(poll'.next - 1) : i \in 1..k
        BY <2>1, <3>1
      <4>2. QED
        BY <1>1, <3>1, <3>2, <4>1 DEF LowOK
    <3>4. BestOK'
      <4>1. c + Cardinality(Pend(Order[k])) <= c + N - 1
        BY <2>2, <2>4
      <4>2. poll'.best = poll.next /\ poll'.low = count[Order[poll.next]]
        BY <3>1
      <4>3. count[Order[poll'.best]] + Cardinality(Pend(Order[poll'.best])) <= poll'.low + N - 1
        BY <4>1, <4>2
      <4>4. QED
        BY <1>1, <1>2, <4>3 DEF BestOK, N
    <3>5. QED
      BY <1>3, <3>3, <3>4 DEF BalInv
  <2>8. CASE ~(poll.best = 0 \/ c < poll.low)
    <3>1. poll'.next = k + 1 /\ poll'.best = poll.best /\ poll'.low = poll.low
      BY <2>1, <2>3, <2>8
    <3>2. \A i \in 1..k : poll.low <= count[Order[i]]
      <4> SUFFICES ASSUME NEW i \in 1..k PROVE poll.low <= count[Order[i]]
        OBVIOUS
      <4>1. CASE i = k
        BY <2>1, <2>2, <2>8, <4>1
      <4>2. CASE i # k
        <5>1. i \in 1..(k - 1)
          BY <2>1, <4>2
        <5>2. QED
          BY <2>5, <5>1
      <4>3. QED
        BY <4>1, <4>2
    <3>3. LowOK'
      <4>1. \A i \in 1..(poll'.next - 1) : i \in 1..k
        BY <2>1, <3>1
      <4>2. QED
        BY <1>1, <3>1, <3>2, <4>1 DEF LowOK
    <3>4. BestOK'
      BY <1>1, <1>2, <2>1, <3>1 DEF BalInv, BestOK, N
    <3>5. QED
      BY <1>3, <3>3, <3>4 DEF BalInv
  <2>9. QED
    BY <2>7, <2>8
<1>6. QED
  BY <1>4, <1>5

LEMMA BalChoose ==
    ASSUME TypeInv, CountInv, BalInv, NEW d \in Devices, Choose(d), steady, AllUp'
    PROVE  BalInv'
<1>0. StageType /\ PollOK /\ DoorData
  BY TypeParts
<1>1. /\ count' = count /\ poll' = Idle
      /\ stage[d] = "poll" /\ stage'[d] = "issue" /\ \A e \in Devices : e # d => stage'[e] = stage[e]
  BY <1>0, GoOneStage DEF Choose
<1>2. /\ poll # Idle /\ poll.best \in 1..Len(Order) /\ poll.next = Len(Order) + 1 /\ poll.low \in Nat
  BY <1>0, FrontDoorAssumption DEF PollOK, Choose, Idle
<1>3. PICK b \in Servers : b = Order[poll.best]
  BY <1>2, ServersType
<1>4. ticket'[d].server = b /\ \A e \in Devices : e # d => ticket'[e] = ticket[e]
  BY <1>0, <1>3 DEF Choose, DoorData
<1>5. ASSUME NEW s \in Servers
      PROVE  /\ d \notin Pend(s)
             /\ s = b => Pend(s)' = Pend(s) \cup {d}
             /\ s # b => Pend(s)' = Pend(s)
  BY <1>1, <1>4, PendingNames DEF Pend
<1>6. \A t \in Servers : poll.low <= count[t]
  <2> SUFFICES ASSUME NEW t \in Servers PROVE poll.low <= count[t]
    OBVIOUS
  <2>1. PICK i \in 1..Len(Order) : t = Order[i]
    BY DEF Servers
  <2>2. i \in 1..(poll.next - 1)
    BY <1>2, <2>1
  <2>3. QED
    BY <1>2, <2>1, <2>2 DEF BalInv, LowOK
<1>7. SumOK'
  <2> SUFFICES ASSUME NEW s \in Servers, NEW t \in Servers
               PROVE  count[s] + Cardinality(Pend(s)') <= count[t] + N
    BY <1>1 DEF SumOK, N
  <2>1. count[s] \in Nat /\ count[t] \in Nat /\ N \in Nat /\ Cardinality(Pend(s)) \in Nat
    BY SteadyCounts, PendFinite
  <2>2. CASE s = b
    <3>1. count[s] + Cardinality(Pend(s)) <= poll.low + N - 1
      BY <1>2, <1>3, <2>2 DEF BalInv, BestOK
    <3>2. Cardinality(Pend(s)') = Cardinality(Pend(s)) + 1
      BY <1>5, <2>2, PendFinite
    <3>3. poll.low <= count[t]
      BY <1>6
    <3>4. QED
      BY <1>2, <2>1, <3>1, <3>2, <3>3
  <2>3. CASE s # b
    BY <1>5, <2>3 DEF BalInv, SumOK
  <2>4. QED
    BY <2>2, <2>3
<1>8. BestOK' /\ LowOK'
  BY <1>1 DEF BestOK, LowOK, Idle
<1>9. QED
  BY <1>7, <1>8 DEF BalInv

LEMMA BalCount ==
    ASSUME TypeInv, CountInv, BalInv, NEW d \in Devices, CountLogin(d), steady', AllUp'
    PROVE  BalInv'
<1> DEFINE z == ticket[d].server
<1>0. StageType /\ PollOK /\ DoorData
  BY TypeParts
<1>1. /\ stage[d] = "bump" /\ stage'[d] = "in" /\ \A e \in Devices : e # d => stage'[e] = stage[e]
      /\ UNCHANGED <<ticket, poll>>
  BY <1>0, GoOneStage DEF CountLogin
<1>2. steady /\ count' = [count EXCEPT ![z] = own[d] + 1]
  BY DEF CountLogin, CommandFails
<1>3. z \in Servers
  BY <1>1, ServedNames, TicketServer
<1>4. own[d] = count[z]
  BY <1>1, <1>2, SteadyCounts
<1>5. /\ \A s \in Servers : count[s] \in Nat
      /\ \A s \in Servers : count'[s] = IF s = z THEN count[s] + 1 ELSE count[s]
  BY <1>0, <1>2, <1>3, <1>4, SteadyCounts DEF DoorData
<1>6. ASSUME NEW s \in Servers
      PROVE  /\ s = z => d \in Pend(s) /\ Pend(s)' = Pend(s) \ {d}
             /\ s # z => Pend(s)' = Pend(s)
  BY <1>1, PendingNames DEF Pend
<1> HIDE DEF z
<1>7. ASSUME NEW s \in Servers
      PROVE  /\ Cardinality(Pend(s)) \in Nat /\ N \in Nat
             /\ count'[s] + Cardinality(Pend(s)') = count[s] + Cardinality(Pend(s))
  BY <1>5, <1>6, PendFinite
<1>8. SumOK'
  <2> SUFFICES ASSUME NEW s \in Servers, NEW t \in Servers
               PROVE  count'[s] + Cardinality(Pend(s)') <= count'[t] + N
    BY DEF SumOK, N
  <2>1. count[s] + Cardinality(Pend(s)) <= count[t] + N
    BY <1>2 DEF BalInv, SumOK
  <2>2. QED
    BY <1>5, <1>7, <2>1
<1>9. BestOK'
  <2> SUFFICES ASSUME NEW b \in Servers, b = Order[poll.best], poll # Idle, poll.best # 0
               PROVE  count'[b] + Cardinality(Pend(b)') <= poll.low + N - 1
    <3>1. poll # Idle => poll.best \in 0..Len(Order)
      BY <1>0, FrontDoorAssumption DEF PollOK
    <3>2. poll # Idle /\ poll.best # 0 => Order[poll.best] \in Servers
      BY <3>1, ServersType, FrontDoorAssumption
    <3>3. QED
      BY <1>1, <3>2 DEF BestOK, N
  <2>1. count[b] + Cardinality(Pend(b)) <= poll.low + N - 1
    BY <1>2 DEF BalInv, BestOK
  <2>2. QED
    BY <1>7, <2>1
<1>10. LowOK'
  <2> SUFFICES ASSUME poll # Idle, NEW i \in 1..(poll.next - 1)
               PROVE  poll.low <= count'[Order[i]]
    BY <1>1 DEF LowOK
  <2>1. poll.low <= count[Order[i]] /\ poll.low \in Nat
    BY <1>0, <1>2 DEF BalInv, LowOK, PollOK
  <2>2. Order[i] \in Servers
    BY <1>0, ServersType, FrontDoorAssumption DEF PollOK
  <2>3. QED
    BY <1>5, <2>1, <2>2
<1>11. QED
  BY <1>8, <1>9, <1>10 DEF BalInv

(* Failures and stops end the steady state; in it all servers are up.      *)
LEMMA StaysUp ==
    ASSUME TypeInv, AllUp, [Next]_vars
    PROVE  AllUp' /\ (steady' => steady)
<1>1. CASE UNCHANGED <<steady, miscounted, up>>
  BY <1>1 DEF AllUp
<1>2. ASSUME NEW d \in Devices, ReadCount(d) \/ ReadOwnCount(d) \/ CountLogin(d)
      PROVE  AllUp' /\ (steady' => steady)
  BY <1>2 DEF ReadCount, ReadOwnCount, CountLogin, CommandFails, AllUp
<1>3. ASSUME NEW s \in Servers, ServerStep(s)
      PROVE  AllUp' /\ (steady' => steady)
  BY <1>3 DEF ServerStep, StartServer, StopServer, DropCount, EndServer, CrashServer, CommandFails,
     AllUp
<1>4. ASSUME NEW d \in Devices, DeviceStep(d) \/ Leave(d) \/ RpcFails(d),
             ~(ReadCount(d) \/ ReadOwnCount(d) \/ CountLogin(d))
      PROVE  UNCHANGED <<steady, miscounted, up>>
  BY <1>4 DEF DeviceStep, StartPoll, Choose, InsertToken, Reply, Connect, StartLogin, CheckToken,
     Leave, RpcFails, GoOrLeave, doorVars
<1>5. QED
  BY <1>1, <1>2, <1>3, <1>4 DEF Next, vars, doorVars

LEMMA BalFrames ==
    ASSUME TypeInv, NEW d \in Devices,
           InsertToken(d) \/ Reply(d) \/ Connect(d) \/ Leave(d) \/ StartLogin(d) \/ CheckToken(d)
           \/ ReadOwnCount(d) \/ RpcFails(d)
    PROVE  BalFrame
<1>0. StageType /\ DoorData
  BY TypeParts
<1>1. UNCHANGED <<count, poll>> /\ \A e \in Devices : e # d => stage'[e] = stage[e]
  BY <1>0, GoOneStage DEF InsertToken, Reply, Connect, Leave, StartLogin, CheckToken, ReadOwnCount, RpcFails,
     GoOrLeave, doorVars, StageType
<1>2. \A e \in Devices : e # d => ticket'[e] = ticket[e]
  BY <1>0 DEF InsertToken, Reply, Connect, Leave, StartLogin, CheckToken, ReadOwnCount, RpcFails,
     GoOrLeave, doorVars, DoorData
<1>3. CASE InsertToken(d)
  <2>1. stage[d] = "issue"
    BY <1>0, <1>3, GoOneStage DEF InsertToken
  <2>2. ticket[d] \in Tickets
    BY <2>1, TicketServer DEF Holders
  <2>3. ticket' \in {[ticket EXCEPT ![d] = [@ EXCEPT !.token = tokens + 1, !.stored = TRUE]],
                     [ticket EXCEPT ![d] = [@ EXCEPT !.token = tokens + 1]]}
    BY <1>3 DEF InsertToken
  <2>4. ticket'[d].server = ticket[d].server
    BY <1>0, <2>2, <2>3 DEF DoorData, Tickets
  <2>5. QED
    BY <1>1, <1>2, <2>1, <2>4, PendingNames DEF BalFrame
<1>4. CASE ~InsertToken(d)
  <2>1. stage'[d] = "away" \/ stage[d] \in {"reply", "ticket", "posted", "token", "count"}
    BY <1>0, <1>4, GoOneStage DEF Reply, Connect, Leave, StartLogin, CheckToken, ReadOwnCount, RpcFails,
       GoOrLeave, Answered
  <2>2. stage'[d] = "away" \/ ticket'[d] = ticket[d]
    BY <1>0, <1>4, GoOneStage DEF Reply, Connect, Leave, StartLogin, CheckToken, ReadOwnCount, RpcFails,
       GoOrLeave, Answered, doorVars
  <2>3. QED
    BY <1>1, <1>2, <2>1, <2>2, PendingNames DEF BalFrame
<1>5. QED
  BY <1>3, <1>4

LEMMA BalNext == TypeInv /\ CountInv /\ BalInv /\ [Next]_vars => BalInv'
<1> SUFFICES ASSUME TypeInv, CountInv, BalInv, [Next]_vars PROVE BalInv'
  OBVIOUS
<1>0. AllUp' /\ (steady' => steady)
  BY StaysUp DEF BalInv
<1>1. CASE ~steady'
  BY <1>0, <1>1 DEF BalInv, SumOK, BestOK, LowOK
<1>2. CASE steady'
  <2>1. CASE UNCHANGED vars
    BY <1>0, <1>2, <2>1, BalFramed DEF vars, gateVars, doorVars, BalFrame
  <2>2. ASSUME NEW d \in Devices, GateStep(d), UNCHANGED doorVars PROVE BalInv'
    <3>1. stage'[d] \notin Pending /\ \A e \in Devices : e # d => stage'[e] = stage[e]
      BY <2>2, TypeParts, GateStepStages, PendingNames
    <3>2. QED
      BY <1>0, <1>2, <2>2, <3>1, BalFramed DEF BalFrame, doorVars
  <2>3. CASE GateEvent /\ UNCHANGED doorVars
    <3>1. \A e \in Devices : stage'[e] = stage[e] \/ stage'[e] \notin Pending
      BY <2>3, TypeParts, GateEventStages, PendingNames, GateOnlyNames
    <3>2. QED
      BY <1>0, <1>2, <2>3, <3>1, BalFramed DEF BalFrame, doorVars
  <2>4. ASSUME NEW s \in Servers PROVE ~ServerStep(s)
    <3>1. up[s] = "up"
      BY <1>0, <1>2 DEF BalInv, AllUp
    <3>2. QED
      BY <1>2, <3>1 DEF ServerStep, StartServer, StopServer, DropCount, EndServer, CrashServer
  <2>5. QED
    BY <1>0, <1>2, <2>1, <2>2, <2>3, <2>4, BalPoll, BalChoose, BalCount, BalFrames, BalFramed
       DEF Next, DeviceStep
<1>3. QED
  BY <1>1, <1>2

(* While nothing fails and no chat server stops, any two servers' counters *)
(* differ by no more than the number of devices, for any number of both:   *)
(* the lock of the status server bounds what stale counters can do.        *)
THEOREM BalanceCorrect == Spec => []Balanced
<1>1. Init => BalInv
  <2> SUFFICES ASSUME Init PROVE BalInv
    OBVIOUS
  <2>1. ASSUME NEW s \in Servers PROVE count[s] = 0 /\ Pend(s) = {}
    BY PendingNames DEF Init, GateInit, Pend
  <2>2. N \in Nat /\ Cardinality({}) = 0
    BY GateAssumption, FS_CardinalityType, FS_EmptySet DEF N
  <2>3. SumOK
    BY <2>1, <2>2 DEF SumOK
  <2>4. AllUp /\ BestOK /\ LowOK
    BY DEF Init, AllUp, BestOK, LowOK
  <2>5. QED
    BY <2>3, <2>4 DEF BalInv
<1>2. TypeInv /\ CountInv /\ BalInv => Balanced
  <2> SUFFICES ASSUME TypeInv, CountInv, BalInv, steady, NEW s \in Servers, NEW t \in Servers
               PROVE  count[s] <= count[t] + N
    BY DEF Balanced, N
  <2>1. count[s] + Cardinality(Pend(s)) <= count[t] + N
    BY DEF BalInv, SumOK
  <2>2. QED
    BY <2>1, SteadyCounts, PendFinite
<1>3. QED
  BY <1>1, <1>2, CountInitial, CountNext, BalNext, InitType, NextType, PTL DEF Spec

-----------------------------------------------------------------------------
(* Nobody waits for what nobody has.  Whoever is in GetChatServer is the   *)
(* one that has the lock: the lock is never left behind.                   *)
OnePoll == \A d \in Devices : stage[d] = "poll" => poll.d = d
PollFrame == poll' = poll /\ \A e \in Devices : stage'[e] = "poll" => stage[e] = "poll"

LEMMA PollIsOne == Init => OnePoll
BY DEF Init, GateInit, OnePoll

LEMMA PollTaken ==
    ASSUME TypeInv, OnePoll, NEW d \in Devices, StartPoll(d)
    PROVE  OnePoll'
<1>1. poll' = [d |-> d, next |-> 1, best |-> 0, low |-> 0] /\ poll.d = NoAsk
  BY DEF StartPoll, Idle
<1>2. \A e \in Devices : e # d => stage'[e] = stage[e]
  BY TypeParts, GoOneStage DEF StartPoll
<1>3. ASSUME NEW e \in Devices, stage'[e] = "poll" PROVE poll'.d = e
  <2>1. stage[e] # "poll"
    BY <1>1, FrontDoorAssumption DEF OnePoll
  <2>2. e = d
    BY <1>2, <1>3, <2>1
  <2>3. QED
    BY <1>1, <2>2
<1>4. QED
  BY <1>3 DEF OnePoll

LEMMA PollRead ==
    ASSUME TypeInv, OnePoll, NEW d \in Devices, ReadCount(d)
    PROVE  OnePoll'
<1>1. poll \in [d : Devices, next : 1..(Len(Order) + 1), best : 0..Len(Order), low : Nat]
  BY TypeParts, FrontDoorAssumption DEF PollOK, ReadCount, Idle
<1>2. poll'.d = poll.d /\ stage' = stage
  BY <1>1 DEF ReadCount
<1>3. QED
  BY <1>2 DEF OnePoll

(* Choose releases the lock of the only one that was in GetChatServer.     *)
LEMMA PollReleased ==
    ASSUME TypeInv, OnePoll, NEW d \in Devices, Choose(d)
    PROVE  OnePoll'
<1>1. stage'[d] = "issue" /\ poll.d = d /\ \A e \in Devices : e # d => stage'[e] = stage[e]
  BY TypeParts, GoOneStage DEF Choose
<1>2. QED
  BY <1>1 DEF OnePoll

LEMMA PollFramed ==
    ASSUME TypeInv, [Next]_vars
    PROVE  PollFrame \/ \E d \in Devices : StartPoll(d) \/ ReadCount(d) \/ Choose(d)
<1>0. StageType /\ GateData
  BY TypeParts
<1>1. CASE UNCHANGED vars
  BY <1>1 DEF vars, gateVars, doorVars, PollFrame
<1>2. ASSUME NEW d \in Devices, GateStep(d), UNCHANGED doorVars PROVE PollFrame
  BY <1>0, <1>2, GateStepStages, GateOnlyNames DEF PollFrame, doorVars
<1>3. CASE GateEvent /\ UNCHANGED doorVars
  BY <1>0, <1>3, GateEventStages DEF PollFrame, doorVars
<1>4. ASSUME NEW d \in Devices, NEW from, NEW to, Go(d, from, to), to # "poll", poll' = poll
      PROVE  PollFrame
  BY <1>0, <1>4, GoOneStage DEF PollFrame
<1>5. ASSUME NEW d \in Devices, InsertToken(d) \/ ReadOwnCount(d) \/ CountLogin(d) \/ RpcFails(d)
      PROVE  PollFrame
  <2>1. \E from, to : Go(d, from, to) /\ to # "poll" /\ poll' = poll
    BY <1>5 DEF InsertToken, ReadOwnCount, CountLogin, RpcFails, Answered, doorVars
  <2>2. QED
    BY <1>4, <2>1
<1>6. ASSUME NEW d \in Devices, Reply(d) PROVE PollFrame
  BY <1>0, <1>6 DEF Reply, PollFrame, StageType, doorVars
<1>7. ASSUME NEW d \in Devices, Connect(d) \/ Leave(d) \/ StartLogin(d) \/ CheckToken(d)
      PROVE  PollFrame
  <2>1. \E from, to : GoOrLeave(d, from, to) /\ to # "poll"
    BY <1>7 DEF Connect, Leave, StartLogin, CheckToken
  <2>2. QED
    BY <1>4, <2>1 DEF GoOrLeave
<1>8. ASSUME NEW s \in Servers, ServerStep(s) PROVE PollFrame
  <2>1. poll' = poll
    BY <1>8 DEF ServerStep, StartServer, StopServer, DropCount, EndServer, CrashServer
  <2>2. CASE stage' = stage
    BY <2>1, <2>2 DEF PollFrame
  <2>3. CASE CutDevices(s)
    BY <2>1, <2>3 DEF PollFrame, CutDevices, AllAnswered
  <2>4. QED
    BY <1>8, <2>2, <2>3 DEF ServerStep, StartServer, StopServer, DropCount, EndServer, CrashServer
<1>9. QED
  BY <1>1, <1>2, <1>3, <1>5, <1>6, <1>7, <1>8 DEF Next, DeviceStep

LEMMA PollStaysOne == TypeInv /\ OnePoll /\ [Next]_vars => OnePoll'
<1> SUFFICES ASSUME TypeInv, OnePoll, [Next]_vars PROVE OnePoll'
  OBVIOUS
<1>1. CASE PollFrame
  BY <1>1 DEF PollFrame, OnePoll
<1>2. CASE \E d \in Devices : StartPoll(d) \/ ReadCount(d) \/ Choose(d)
  BY <1>2, PollTaken, PollRead, PollReleased
<1>3. QED
  BY <1>1, <1>2, PollFramed

(* Who waits for a connection of an empty pool waits for a handler that    *)
(* has one: the others are accounted for.                                  *)
LEMMA SomeoneHolds ==
    ASSUME TypeInv, GateConnections, lost < SqlPool, ~(idle > 0)
    PROVE  \E d \in Devices : stage[d] \in Holding
<1>1. idle = 0 /\ lost \in Nat /\ idle + Cardinality(Held) + lost = SqlPool
  BY TypeParts DEF GateData, GateConnections, Held
<1>2. Cardinality(Held) > 0
  BY <1>1, HeldFinite, GateAssumption
<1>3. Held # {}
  BY <1>2, FS_EmptySet
<1>4. QED
  BY <1>3 DEF Held

LEMMA NothingToWaitFor ==
    ASSUME NEW d \in Devices, InGate(d), statusRedis > 0,
           stage[d] \notin Waiting \cup {"compare", "choose", "poll"}
    PROVE  Busy(d) /\ CanGo(d)
BY AwayStage, GateStageNames DEF Busy, CanGo, InGate, GateStages, NodeStages, Holding, Waiting

LEMMA NotStuck ==
    ASSUME TypeInv, GateConnections, OnePoll
    PROVE  SomeoneCanGo
<1> SUFFICES ASSUME NEW d \in Devices, Busy(d), lost < SqlPool, redis > 0, statusRedis > 0
             PROVE  \E e \in Devices : Busy(e) /\ CanGo(e)
  BY DEF SomeoneCanGo
<1>1. CASE \A e \in Devices : ~InGate(e)
  <2>1. stage[d] = "queued" /\ ThreadFree(d)
    BY <1>1 DEF Busy, ThreadFree
  <2>2. CanGo(d)
    BY <2>1 DEF CanGo, Waiting
  <2>3. QED
    BY <2>2
<1>2. ASSUME NEW e \in Devices, InGate(e) PROVE \E f \in Devices : Busy(f) /\ CanGo(f)
  <2>0. Busy(e) /\ stage[e] # "queued"
    BY <1>2 DEF Busy, InGate, GateStages, NodeStages, Holding, Waiting
  <2>1. CASE stage[e] = "compare"
    BY <2>0, <2>1 DEF CanGo, Waiting
  <2>2. CASE stage[e] \in Waiting /\ idle > 0
    BY <2>0, <2>2 DEF CanGo, Waiting
  <2>3. CASE stage[e] \in Waiting /\ ~(idle > 0)
    <3>1. PICK f \in Devices : stage[f] \in Holding
      BY <2>3, SomeoneHolds
    <3>2. InGate(f) /\ stage[f] \notin Waiting \cup {"compare", "choose", "poll"}
      BY <3>1 DEF InGate, GateStages, Holding, Waiting
    <3>3. QED
      BY <3>2, NothingToWaitFor
  <2>4. CASE stage[e] = "poll"
    BY <2>0, <2>4 DEF CanGo, OnePoll, Waiting
  <2>5. CASE stage[e] = "choose" /\ poll = Idle
    BY <2>0, <2>5 DEF CanGo, Waiting
  <2>6. CASE stage[e] = "choose" /\ poll # Idle
    <3>1. poll.d \in Devices /\ stage[poll.d] = "poll"
      BY <2>6, TypeParts DEF PollOK
    <3>2. Busy(poll.d) /\ CanGo(poll.d)
      BY <3>1 DEF Busy, CanGo, InGate, GateStages, Waiting
    <3>3. QED
      BY <3>1, <3>2
  <2>7. CASE stage[e] \notin Waiting \cup {"compare", "choose", "poll"}
    BY <1>2, <2>7, NothingToWaitFor
  <2>8. QED
    BY <2>1, <2>2, <2>3, <2>4, <2>5, <2>6, <2>7
<1>3. QED
  BY <1>1, <1>2

(* For any number of requests, threads and connections: unless a pool has  *)
(* run dry, one of the gate's or the status server's, the accepted requests*)
(* do not all wait for each other's thread, connection or lock.            *)
THEOREM SomeoneCanGoCorrect == Spec => []SomeoneCanGo
<1>1. TypeInv /\ GateConnections /\ OnePoll => SomeoneCanGo
  BY NotStuck
<1>2. QED
  BY <1>1, PollIsOne, PollStaysOne, InitType, NextType, ConnectionsCorrect, PTL DEF Spec

-----------------------------------------------------------------------------
(* A request only goes on: from the thread's queue through the gate and    *)
(* its helpers, and from the chat server's queue through LoginHandler.     *)
(* The stages are counted from the end; at 0 it is the client's turn.      *)
StageLeft(w) ==
    IF w = "queued" THEN 9
    ELSE IF w \in {"look", "compare", "wait check"} THEN 8
    ELSE IF w \in {"set", "wait insert", "wait email", "check"} THEN 7
    ELSE IF w \in {"insert", "email", "choose", "expire"} THEN 6
    ELSE IF w \in {"wait update", "poll", "mail"} THEN 5
    ELSE IF w \in {"update", "issue", "posted"} THEN 4
    ELSE IF w \in {"reply", "token"} THEN 3
    ELSE IF w = "count" THEN 2
    ELSE IF w = "bump" THEN 1
    ELSE 0

Falls(from, to) == StageLeft(to) < StageLeft(from)
Forward(d) == Falls(stage[d], stage'[d])

PollsOn(d) == poll' = poll \/ /\ poll'.d = d /\ poll.next <= Len(Order)
                              /\ poll'.next = poll.next + 1

RequestAdvances(d) == StageLeft(stage[d]) > 0 =>
    \/ Forward(d)
    \/ /\ stage'[d] = stage[d] /\ ask'[d] = ask[d] /\ thread'[d] = thread[d]
       /\ stage[d] = "poll" => PollsOn(d)

LEMMA Steps ==
    /\ Falls("queued", "look") /\ Falls("queued", "compare")
    /\ Falls("queued", "wait check") /\ Falls("look", "set")
    /\ Falls("look", "mail") /\ Falls("set", "expire") /\ Falls("set", "away")
    /\ Falls("expire", "mail") /\ Falls("expire", "away")
    /\ Falls("mail", "away") /\ Falls("compare", "away")
    /\ Falls("compare", "wait insert") /\ Falls("compare", "wait email")
    /\ Falls("wait insert", "insert") /\ Falls("wait email", "email")
    /\ Falls("wait update", "update") /\ Falls("wait check", "check")
    /\ Falls("insert", "away") /\ Falls("email", "away")
    /\ Falls("email", "wait update") /\ Falls("update", "away")
    /\ Falls("check", "away") /\ Falls("check", "choose")
    /\ Falls("choose", "poll") /\ Falls("choose", "away")
    /\ Falls("poll", "issue") /\ Falls("issue", "reply")
    /\ Falls("reply", "ticket") /\ Falls("posted", "token")
    /\ Falls("token", "count") /\ Falls("token", "away")
    /\ Falls("count", "bump") /\ Falls("bump", "in")
BY DEF Falls, StageLeft

LEMMA Rests ==
    StageLeft("ticket") = 0 /\ StageLeft("in") = 0 /\ StageLeft("away") = 0
BY DEF StageLeft

LEMMA AwayIsForward ==
    ASSUME NEW d \in Devices, StageLeft(stage[d]) > 0, stage'[d] = "away"
    PROVE  Forward(d)
<1>1. StageLeft("away") = 0
  BY Rests
<1>2. QED
  BY <1>1 DEF Forward, Falls

LEMMA GateForward ==
    ASSUME StageType, NEW d \in Devices, GateStep(d)
    PROVE  Forward(d)
<1>1. CASE HandleReq(d)
  <2>1. stage[d] = "queued" /\ stage'[d] = FirstStage[ask[d].kind] /\ ask[d].kind \in Kinds
    BY <1>1, GoOneStage, AskFields DEF HandleReq
  <2>2. stage'[d] \in {"look", "compare", "wait check"}
    BY <2>1, FirstNames
  <2>3. QED
    BY <2>1, <2>2, Steps DEF Forward
<1>2. CASE GetRedis(d)
  <2>1. stage[d] = "look" /\ stage'[d] \in {"set", "mail"}
    BY <1>2 DEF GetRedis, GoWith, StageType
  <2>2. QED
    BY <2>1, Steps DEF Forward
<1>3. CASE SetCode(d)
  <2>1. stage[d] = "set" /\ stage'[d] = "expire"
    BY <1>3 DEF SetCode, GoWith, StageType
  <2>2. QED
    BY <2>1, Steps DEF Forward
<1>4. CASE Expire(d)
  <2>1. stage[d] = "expire" /\ stage'[d] = "mail"
    BY <1>4, GoOneStage DEF Expire
  <2>2. QED
    BY <2>1, Steps DEF Forward
<1>5. CASE RedisErr(d) \/ SendMail(d)
  <2>1. stage[d] \in {"set", "expire", "mail"} /\ stage'[d] = "away"
    BY <1>5, GoOneStage DEF RedisErr, SendMail, Answered
  <2>2. QED
    BY <2>1, Steps DEF Forward
<1>6. CASE CompareCode(d)
  <2>1. stage[d] = "compare" /\ stage'[d] \in {"away", "wait insert", "wait email"}
    BY <1>6 DEF CompareCode, Go, GoWith, StageType, Answered
  <2>2. QED
    BY <2>1, Steps DEF Forward
<1>7. CASE GetConnection(d)
  <2>1. stage[d] \in Waiting /\ stage'[d] = Wanted[stage[d]]
    BY <1>7, GoOneStage DEF GetConnection
  <2>2. \/ stage[d] = "wait insert" /\ stage'[d] = "insert"
        \/ stage[d] = "wait email" /\ stage'[d] = "email"
        \/ stage[d] = "wait update" /\ stage'[d] = "update"
        \/ stage[d] = "wait check" /\ stage'[d] = "check"
    BY <2>1 DEF Waiting, Wanted
  <2>3. QED
    BY <2>2, Steps DEF Forward
<1>8. CASE RegUser(d) \/ UpdatePwd(d)
  <2>1. stage[d] \in {"insert", "update"} /\ stage'[d] = "away"
    BY <1>8, GoOneStage DEF RegUser, UpdatePwd, ReturnConnection, Answered
  <2>2. QED
    BY <2>1, Steps DEF Forward
<1>9. CASE CheckEmail(d)
  <2>1. stage[d] = "email" /\ stage'[d] \in {"away", "wait update"}
    BY <1>9 DEF CheckEmail, LosesConnection, ReturnConnection, Go, GoWith, StageType, Answered
  <2>2. QED
    BY <2>1, Steps DEF Forward
<1>10. CASE CheckPwd(d)
  <2>1. stage[d] = "check" /\ stage'[d] \in {"away", "choose"}
    BY <1>10 DEF CheckPwd, ReturnConnection, Go, GoWith, StageType, Answered
  <2>2. QED
    BY <2>1, Steps DEF Forward
<1>11. QED
  BY <1>1, <1>2, <1>3, <1>4, <1>5, <1>6, <1>7, <1>8, <1>9, <1>10 DEF GateStep

(* The steps of one device beyond the gate; Leave is at stage 0.           *)
LEMMA DoorForward ==
    ASSUME StageType, NEW d \in Devices,
           \/ StartPoll(d) \/ RpcFails(d) \/ Choose(d) \/ InsertToken(d)
           \/ StartLogin(d) \/ CheckToken(d) \/ ReadOwnCount(d) \/ CountLogin(d)
    PROVE  /\ Forward(d)
           /\ \E from, to : Go(d, from, to)
<1>1. CASE StartPoll(d) \/ RpcFails(d)
  <2>1. stage[d] = "choose" /\ stage'[d] \in {"poll", "away"}
    BY <1>1, GoOneStage DEF StartPoll, RpcFails, Answered
  <2>2. QED
    BY <1>1, <2>1, Steps DEF Forward, StartPoll, RpcFails
<1>2. CASE Choose(d)
  <2>1. stage[d] = "poll" /\ stage'[d] = "issue"
    BY <1>2, GoOneStage DEF Choose
  <2>2. QED
    BY <1>2, <2>1, Steps DEF Forward, Choose
<1>3. CASE InsertToken(d)
  <2>1. stage[d] = "issue" /\ stage'[d] = "reply"
    BY <1>3, GoOneStage DEF InsertToken
  <2>2. QED
    BY <1>3, <2>1, Steps DEF Forward, InsertToken
<1>4. CASE StartLogin(d)
  <2>1. stage[d] = "posted" /\ stage'[d] = "token"
    BY <1>4, GoOneStage DEF StartLogin, GoOrLeave
  <2>2. QED
    BY <1>4, <2>1, Steps DEF Forward, StartLogin, GoOrLeave
<1>5. CASE CheckToken(d)
  <2>1. stage[d] = "token" /\ stage'[d] \in {"count", "away"}
    BY <1>5, GoOneStage DEF CheckToken, GoOrLeave
  <2>2. QED
    BY <1>5, <2>1, Steps DEF Forward, CheckToken, GoOrLeave
<1>6. CASE ReadOwnCount(d)
  <2>1. stage[d] = "count" /\ stage'[d] = "bump"
    BY <1>6, GoOneStage DEF ReadOwnCount
  <2>2. QED
    BY <1>6, <2>1, Steps DEF Forward, ReadOwnCount
<1>7. CASE CountLogin(d)
  <2>1. stage[d] = "bump" /\ stage'[d] = "in"
    BY <1>7, GoOneStage DEF CountLogin
  <2>2. QED
    BY <1>7, <2>1, Steps DEF Forward, CountLogin
<1>8. QED
  BY <1>1, <1>2, <1>3, <1>4, <1>5, <1>6, <1>7

(* A device alone moves; the poll is another's, or it is its own.          *)
LEMMA OthersWait ==
    ASSUME OnePoll, NEW d \in Devices,
           \A e \in Devices \ {d} : stage'[e] = stage[e] /\ ask'[e] = ask[e] /\ thread'[e] = thread[e],
           poll' = poll \/ poll = Idle \/ poll.d = d,
           Forward(d) \/ StageLeft(stage[d]) = 0
    PROVE  \A e \in Devices : RequestAdvances(e)
<1> SUFFICES ASSUME NEW e \in Devices, e # d, stage[e] = "poll" PROVE PollsOn(e)
  BY DEF RequestAdvances
<1>1. poll.d = e /\ Idle.d = NoAsk
  BY DEF OnePoll, Idle
<1>2. poll' = poll
  BY <1>1, FrontDoorAssumption
<1>3. QED
  BY <1>2 DEF PollsOn

LEMMA GoAlone ==
    ASSUME StageType, NEW d \in Devices, NEW from, NEW to, Go(d, from, to)
    PROVE  \A e \in Devices \ {d} :
               stage'[e] = stage[e] /\ ask'[e] = ask[e] /\ thread'[e] = thread[e]
BY DEF Go, GoWith, StageType

LEMMA RequestStep == TypeInv /\ OnePoll /\ [Next]_vars => \A d \in Devices : RequestAdvances(d)
<1> SUFFICES ASSUME TypeInv, OnePoll, [Next]_vars PROVE \A d \in Devices : RequestAdvances(d)
  OBVIOUS
<1>0. StageType /\ GateData
  BY TypeParts
<1>1. ASSUME UNCHANGED <<stage, ask, thread, poll>> PROVE \A d \in Devices : RequestAdvances(d)
  BY <1>1 DEF RequestAdvances, PollsOn
<1>2. ASSUME NEW d \in Devices, GateStep(d), UNCHANGED doorVars
      PROVE  \A e \in Devices : RequestAdvances(e)
  <2>1. Forward(d) /\ poll' = poll
    BY <1>0, <1>2, GateForward DEF doorVars
  <2>2. \A e \in Devices \ {d} : stage'[e] = stage[e] /\ ask'[e] = ask[e] /\ thread'[e] = thread[e]
    BY <1>0, <1>2, GateStepStages DEF StageType
  <2>3. QED
    BY <2>1, <2>2, OthersWait
<1>3. ASSUME NEW d \in Devices,
             \/ StartPoll(d) \/ RpcFails(d) \/ Choose(d) \/ InsertToken(d)
             \/ StartLogin(d) \/ CheckToken(d) \/ ReadOwnCount(d) \/ CountLogin(d)
      PROVE  \A e \in Devices : RequestAdvances(e)
  <2>1. Forward(d) /\ \E from, to : Go(d, from, to)
    BY <1>0, <1>3, DoorForward
  <2>2. \A e \in Devices \ {d} : stage'[e] = stage[e] /\ ask'[e] = ask[e] /\ thread'[e] = thread[e]
    BY <1>0, <2>1, GoAlone
  <2>3. poll' = poll \/ poll = Idle \/ poll.d = d
    BY <1>3 DEF StartPoll, RpcFails, Choose, InsertToken, StartLogin, CheckToken, GoOrLeave,
       ReadOwnCount, CountLogin, doorVars
  <2>4. QED
    BY <2>1, <2>2, <2>3, OthersWait
<1>4. ASSUME NEW d \in Devices, ReadCount(d) PROVE \A e \in Devices : RequestAdvances(e)
  <2>1. UNCHANGED <<stage, ask, thread>> /\ poll.d = d /\ stage[d] = "poll" /\ poll.next <= Len(Order)
    BY <1>4 DEF ReadCount
  <2>2. poll \in [d : Devices, next : 1..(Len(Order) + 1), best : 0..Len(Order), low : Nat]
    BY <2>1, TypeParts, FrontDoorAssumption DEF PollOK, Idle
  <2>3. poll'.d = d /\ poll'.next = poll.next + 1
    BY <1>4, <2>1, <2>2 DEF ReadCount
  <2>4. ASSUME NEW e \in Devices, stage[e] = "poll" PROVE PollsOn(e)
    BY <2>1, <2>3, <2>4 DEF OnePoll, PollsOn
  <2>5. QED
    BY <2>1, <2>4 DEF RequestAdvances
<1>5. ASSUME NEW d \in Devices, Reply(d) PROVE \A e \in Devices : RequestAdvances(e)
  <2>1. /\ stage[d] = "reply" /\ stage'[d] = "ticket" /\ poll' = poll
        /\ \A e \in Devices \ {d} : stage'[e] = stage[e] /\ ask'[e] = ask[e] /\ thread'[e] = thread[e]
    BY <1>0, <1>5 DEF Reply, doorVars, StageType
  <2>2. Forward(d)
    BY <2>1, Steps DEF Forward
  <2>3. QED
    BY <2>1, <2>2, OthersWait
<1>6. ASSUME NEW d \in Devices, Connect(d) \/ Leave(d) PROVE \A e \in Devices : RequestAdvances(e)
  <2>1. poll' = poll /\ stage[d] \in {"ticket", "in"} /\ \E from, to : Go(d, from, to)
    BY <1>6 DEF Connect, Leave, GoOrLeave
  <2>2. StageLeft(stage[d]) = 0
    BY <2>1, Rests
  <2>3. \A e \in Devices \ {d} : stage'[e] = stage[e] /\ ask'[e] = ask[e] /\ thread'[e] = thread[e]
    BY <1>0, <2>1, GoAlone
  <2>4. QED
    BY <2>1, <2>2, <2>3, OthersWait
<1>7. CASE GateEvent /\ UNCHANGED doorVars
  <2>1. CASE \E d \in Devices, a \in Requests, t \in Threads : Accept(d, a, t)
    <3>1. PICK d \in Devices, a \in Requests, t \in Threads : Accept(d, a, t)
      BY <2>1
    <3>2. stage[d] = "away" /\ poll' = poll
      BY <1>7, <3>1 DEF Accept, doorVars
    <3>3. StageLeft(stage[d]) = 0
      BY <3>2, Rests
    <3>4. \A e \in Devices \ {d} : stage'[e] = stage[e] /\ ask'[e] = ask[e] /\ thread'[e] = thread[e]
      BY <1>0, <3>1 DEF Accept, StageType
    <3>5. QED
      BY <3>2, <3>3, <3>4, OthersWait
  <2>2. CASE NodeRestarts
    BY <1>7, <2>2, AwayIsForward DEF NodeRestarts, AllAnswered, doorVars, RequestAdvances, PollsOn
  <2>3. CASE (\E f \in Emails : CodeExpires(f)) \/ NodeLosesRedis
    BY <1>1, <1>7, <2>3 DEF CodeExpires, NodeLosesRedis, doorVars
  <2>4. QED
    BY <1>7, <2>1, <2>2, <2>3 DEF GateEvent
<1>8. ASSUME NEW s \in Servers, ServerStep(s) PROVE \A d \in Devices : RequestAdvances(d)
  <2>1. poll' = poll
    BY <1>8 DEF ServerStep, StartServer, StopServer, DropCount, EndServer, CrashServer
  <2>2. CASE StartServer(s) \/ StopServer(s) \/ DropCount(s)
    BY <1>1, <2>1, <2>2 DEF StartServer, StopServer, DropCount
  <2>3. CASE CutDevices(s)
    BY <2>1, <2>3, AwayIsForward DEF CutDevices, AllAnswered, RequestAdvances, PollsOn
  <2>4. QED
    BY <1>8, <2>2, <2>3 DEF ServerStep, EndServer, CrashServer
<1>9. CASE UNCHANGED vars
  BY <1>1, <1>9 DEF vars, gateVars, doorVars
<1>10. CASE \E d \in Devices : DeviceStep(d) \/ Leave(d) \/ RpcFails(d)
  BY <1>2, <1>3, <1>4, <1>5, <1>6, <1>10 DEF DeviceStep
<1>11. QED
  BY <1>7, <1>8, <1>9, <1>10 DEF Next

(* Neither a failure, a restart nor another device's request takes one     *)
(* back: a request has at most ten stages, in one of which it reads each   *)
(* counter once.  With SomeoneCanGo, while no pool is dry, accepted        *)
(* requests come to an end if those that can go do.                        *)
THEOREM RequestsAdvance == Spec => [][\A d \in Devices : RequestAdvances(d)]_vars
<1>1. TypeInv /\ OnePoll /\ [Next]_vars => [\A d \in Devices : RequestAdvances(d)]_vars
  BY RequestStep
<1>2. QED
  BY <1>1, PollIsOne, PollStaysOne, InitType, NextType, PTL DEF Spec
=============================================================================
