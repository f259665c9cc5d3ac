-------------------------- MODULE RedisPoolProofs ---------------------------
(***************************************************************************)
(* Proofs about RedisPool, for any connections and any threads.  Every     *)
(* connection is in exactly one place: the invariant follows each one as   *)
(* it is popped from the queue, used, pushed back, rotated by the check    *)
(* thread, or lost.  It needs that a thread holds a connection exactly     *)
(* while it uses it or has still to return it.  No wake-up is lost: while a*)
(* thread sleeps, there are at least as many threads on their way to the   *)
(* queue as there are connections in it.                                   *)
(***************************************************************************)
EXTENDS RedisPool, FiniteSetTheorems, TLAPS

Injective(s) == \A i, j \in 1..Len(s) : s[i] = s[j] => i = j
Has(s, c) == \E i \in 1..Len(s) : s[i] = c

(* A thread holds a connection exactly while it has to return one. *)
HeldInv == \A t \in Threads : held[t] # NoConn <=> pc[t] \in {"using", "return"}

PlaceInv ==
    /\ Injective(connections)
    /\ \A t \in Threads : held[t] # NoConn => ~Has(connections, held[t]) /\ held[t] \notin leaked
    /\ \A t, u \in Threads : held[t] = held[u] /\ held[t] # NoConn => t = u
    /\ \A c \in leaked : ~Has(connections, c)
    /\ \A c \in Conns : Has(connections, c) \/ c \in leaked \/ \E t \in Threads : held[t] = c

(* The mutex belongs to the thread about to sleep or to the check thread,  *)
(* so the queue does not change under checkThread's count.                 *)
MutexInv ==
    /\ \A t \in Threads : pc[t] = "presleep" <=> mutex = t
    /\ checker = "checking" <=> mutex = Checker
    /\ checker = "checking" => check <= Len(connections)

IInv == TypeOK /\ HeldInv /\ PlaceInv /\ MutexInv

-----------------------------------------------------------------------------
(* Taking the front of a queue without repetitions takes it out. *)
LEMMA TailFacts ==
  ASSUME NEW S, NEW s \in Seq(S), s # <<>>, Injective(s)
  PROVE  /\ Head(s) \in S /\ Tail(s) \in Seq(S)
         /\ Injective(Tail(s))
         /\ ~Has(Tail(s), Head(s))
         /\ Has(s, Head(s))
         /\ \A c : Has(s, c) <=> c = Head(s) \/ Has(Tail(s), c)
<1>1. /\ Len(s) \in Nat /\ Len(s) >= 1 /\ Head(s) = s[1]
      /\ Head(s) \in S /\ Tail(s) \in Seq(S) /\ Len(Tail(s)) = Len(s) - 1
      /\ \A i \in 1..Len(Tail(s)) : Tail(s)[i] = s[i + 1] /\ i + 1 \in 1..Len(s) /\ i + 1 # 1
  OBVIOUS
<1>2. Injective(Tail(s))
  <2>1. SUFFICES ASSUME NEW i \in 1..Len(Tail(s)), NEW j \in 1..Len(Tail(s)), s[i + 1] = s[j + 1]
                 PROVE  i = j
    BY <1>1 DEF Injective
  <2>2. i + 1 = j + 1
    BY <1>1, <2>1 DEF Injective
  <2>3. QED
    BY <2>2
<1>3. ~Has(Tail(s), Head(s))
  BY <1>1 DEF Has, Injective
<1>4. Has(s, Head(s))
  BY <1>1 DEF Has
<1>5. ASSUME NEW c PROVE Has(s, c) <=> c = Head(s) \/ Has(Tail(s), c)
  <2>1. ASSUME NEW k \in 1..Len(s), s[k] = c, k # 1 PROVE Has(Tail(s), c)
    <3>1. k - 1 \in 1..Len(Tail(s)) /\ Tail(s)[k - 1] = s[k]
      BY <1>1, <2>1
    <3>2. QED
      BY <2>1, <3>1 DEF Has
  <2>2. Has(s, c) => c = Head(s) \/ Has(Tail(s), c)
    BY <1>1, <2>1 DEF Has
  <2>3. Has(Tail(s), c) => Has(s, c)
    BY <1>1 DEF Has
  <2>4. QED
    BY <1>4, <2>2, <2>3
<1>6. QED
  BY <1>1, <1>2, <1>3, <1>4, <1>5

(* Pushing a new connection adds it and nothing else. *)
LEMMA AppendFacts ==
  ASSUME NEW S, NEW s \in Seq(S), NEW e \in S, Injective(s), ~Has(s, e)
  PROVE  /\ Append(s, e) \in Seq(S)
         /\ Injective(Append(s, e))
         /\ \A c : Has(Append(s, e), c) <=> c = e \/ Has(s, c)
<1>1. /\ Len(s) \in Nat /\ Append(s, e) \in Seq(S)
      /\ Len(Append(s, e)) = Len(s) + 1
      /\ \A i \in 1..Len(s) : Append(s, e)[i] = s[i] /\ s[i] # e
      /\ Append(s, e)[Len(s) + 1] = e
  BY DEF Has
<1>2. \A i \in 1..(Len(s) + 1) : i \in 1..Len(s) \/ i = Len(s) + 1
  BY <1>1
<1>3. Injective(Append(s, e))
  BY <1>1, <1>2 DEF Injective
<1>4. ASSUME NEW c PROVE Has(Append(s, e), c) <=> c = e \/ Has(s, c)
  BY <1>1, <1>2 DEF Has
<1>5. QED
  BY <1>1, <1>3, <1>4

-----------------------------------------------------------------------------
LEMMA InitInv == Init => IInv
<1> SUFFICES ASSUME Init PROVE IInv
  OBVIOUS
<1>1. connections \in Seq(Conns) /\ Len(connections) = PoolSize /\ DOMAIN connections = 1..PoolSize
  BY RedisPoolAssumption DEF Init
<1>2. TypeOK
  <2>1. ops \in 0..MaxOps
    BY RedisPoolAssumption DEF Init
  <2>2. mutex \in Threads \union {Nobody, Checker} /\ b_stop \in BOOLEAN /\ leaked \subseteq Conns
    BY DEF Init
  <2>3. /\ pc \in [Threads -> Places] /\ cmd \in [Threads -> Commands]
        /\ held \in [Threads -> Conns \union {NoConn}]
    BY DEF Init, Places, Commands
  <2>4. check \in Nat
    BY DEF Init
  <2>5. QED
    BY <1>1, <2>1, <2>2, <2>3, <2>4 DEF Init, TypeOK
<1>3. HeldInv
  BY DEF Init, HeldInv
<1>4. PlaceInv
  BY <1>1 DEF Init, PlaceInv, Injective, Has, InPool
<1>5. MutexInv
  BY RedisPoolAssumption DEF Init, MutexInv
<1>6. QED
  BY <1>2, <1>3, <1>4, <1>5 DEF IInv

LEMMA GetInv == ASSUME NEW t \in Threads, IInv, GetConnection(t) PROVE IInv'
<1> DEFINE c == Head(connections)
<1>1. connections # <<>> /\ connections \in Seq(Conns) /\ Injective(connections)
  BY DEF GetConnection, PopFront, IInv, TypeOK, PlaceInv
<1>2. /\ c \in Conns /\ Tail(connections) \in Seq(Conns) /\ Injective(Tail(connections))
      /\ ~Has(Tail(connections), c) /\ Has(connections, c)
      /\ \A d : Has(connections, d) <=> d = c \/ Has(Tail(connections), d)
  BY <1>1, TailFacts
<1>3. /\ connections' = Tail(connections)
      /\ held' = [held EXCEPT ![t] = c]
      /\ pc' = [pc EXCEPT ![t] = "using"]
      /\ leaked' = leaked
      /\ c # NoConn
  BY <1>2, RedisPoolAssumption DEF GetConnection, PopFront, Go
<1>4. held[t] = NoConn
  BY DEF GetConnection, Go, IInv, HeldInv
<1>5. TypeOK'
  BY <1>2, <1>3 DEF IInv, TypeOK, GetConnection, checkVars, closeVars, Places
<1>6. HeldInv'
  BY <1>2, <1>3 DEF IInv, TypeOK, HeldInv
<1>7. PlaceInv'
  <2>1. c \notin leaked /\ \A u \in Threads : held[u] # c
    BY <1>2, <1>3 DEF IInv, PlaceInv
  <2>2. \A u \in Threads : held'[u] = IF u = t THEN c ELSE held[u]
    BY <1>3 DEF IInv, TypeOK
  <2>3. \A u \in Threads : held'[u] # NoConn => ~Has(connections', held'[u]) /\ held'[u] \notin leaked'
    BY <1>2, <1>3, <2>1, <2>2 DEF IInv, PlaceInv
  <2>4. \A u, v \in Threads : held'[u] = held'[v] /\ held'[u] # NoConn => u = v
    BY <2>1, <2>2 DEF IInv, PlaceInv
  <2>5. \A d \in leaked' : ~Has(connections', d)
    BY <1>2, <1>3 DEF IInv, PlaceInv
  <2>6. ASSUME NEW d \in Conns
        PROVE  Has(connections', d) \/ d \in leaked' \/ \E u \in Threads : held'[u] = d
    <3>1. CASE d = c
      BY <2>2, <3>1
    <3>2. CASE d # c
      <4>1. CASE Has(connections, d)
        BY <1>2, <1>3, <3>2, <4>1
      <4>2. CASE d \in leaked
        BY <1>3, <4>2
      <4>3. ASSUME NEW u \in Threads, held[u] = d PROVE held'[u] = d
        BY <1>4, <2>2, <4>3, RedisPoolAssumption
      <4>4. QED
        BY <4>1, <4>2, <4>3 DEF IInv, PlaceInv
    <3>3. QED
      BY <3>1, <3>2
  <2>7. QED
    BY <1>2, <1>3, <2>3, <2>4, <2>5, <2>6 DEF PlaceInv
<1>8. MutexInv'
  BY <1>3, RedisPoolAssumption DEF IInv, TypeOK, MutexInv, GetConnection, Go, checkVars
<1>9. QED
  BY <1>5, <1>6, <1>7, <1>8 DEF IInv

LEMMA ReturnInv == ASSUME NEW t \in Threads, IInv, ReturnConnection(t) PROVE IInv'
<1> DEFINE c == held[t]
<1>1. /\ c # NoConn /\ c \in Conns /\ connections \in Seq(Conns) /\ Injective(connections)
      /\ ~Has(connections, c) /\ c \notin leaked
  BY DEF ReturnConnection, IInv, TypeOK, HeldInv, PlaceInv
<1>2. /\ Append(connections, c) \in Seq(Conns) /\ Injective(Append(connections, c))
      /\ \A d : Has(Append(connections, c), d) <=> d = c \/ Has(connections, d)
  BY <1>1, AppendFacts
<1>3. /\ connections' = Append(connections, c)
      /\ held' = [held EXCEPT ![t] = NoConn]
      /\ leaked' = leaked
  BY DEF ReturnConnection
<1>4. /\ pc' \in [Threads -> Places]
      /\ pc'[t] = "idle"
      /\ \A u \in Threads \ {t} : pc'[u] \in {"using", "return"} <=> pc[u] \in {"using", "return"}
      /\ \A u \in Threads : pc'[u] = "presleep" <=> pc[u] = "presleep"
  BY DEF ReturnConnection, NotifyOne, IInv, TypeOK, Places
<1>5. TypeOK'
  BY <1>2, <1>3, <1>4 DEF IInv, TypeOK, ReturnConnection, checkVars, closeVars
<1>6. \A u \in Threads : held'[u] = IF u = t THEN NoConn ELSE held[u]
  BY <1>3 DEF IInv, TypeOK
<1>7. HeldInv'
  BY <1>4, <1>6 DEF IInv, HeldInv
<1>8. PlaceInv'
  BY <1>1, <1>2, <1>3, <1>6 DEF IInv, PlaceInv
<1>9. MutexInv'
  BY <1>4, RedisPoolAssumption DEF IInv, MutexInv, ReturnConnection, checkVars
<1>10. QED
  BY <1>5, <1>7, <1>8, <1>9 DEF IInv

(* Get, Set and a return after Close() lose the thread's connection. *)
LEMMA LoseInv ==
  ASSUME NEW t \in Threads, IInv, CommandLeaks(t) \/ ReturnStopped(t) PROVE IInv'
<1> DEFINE c == held[t]
<1>1. /\ c # NoConn /\ c \in Conns /\ ~Has(connections, c)
  BY DEF CommandLeaks, ReturnStopped, Go, IInv, TypeOK, HeldInv, PlaceInv
<1>2. /\ connections' = connections
      /\ held' = [held EXCEPT ![t] = NoConn]
      /\ leaked' = leaked \union {c}
      /\ pc' = [pc EXCEPT ![t] = "idle"]
  BY DEF CommandLeaks, ReturnStopped, Go
<1>3. TypeOK'
  BY <1>1, <1>2 DEF IInv, TypeOK, CommandLeaks, ReturnStopped, checkVars, closeVars, Places
<1>4. \A u \in Threads : held'[u] = IF u = t THEN NoConn ELSE held[u]
  BY <1>2 DEF IInv, TypeOK
<1>5. HeldInv'
  BY <1>2, <1>4 DEF IInv, HeldInv, TypeOK
<1>6. PlaceInv'
  BY <1>1, <1>2, <1>4 DEF IInv, PlaceInv
<1>7. MutexInv'
  BY <1>2, RedisPoolAssumption
     DEF IInv, TypeOK, MutexInv, CommandLeaks, ReturnStopped, Go, checkVars
<1>8. QED
  BY <1>3, <1>5, <1>6, <1>7 DEF IInv

(* checkThread moves the front connection to the back. *)
LEMMA PingInv == IInv /\ PingFront => IInv'
<1> SUFFICES ASSUME IInv, PingFront PROVE IInv'
  OBVIOUS
<1> DEFINE c == Head(connections)
           rest == Tail(connections)
<1>1. connections \in Seq(Conns) /\ connections # <<>> /\ Injective(connections)
  BY DEF PingFront, IInv, TypeOK, MutexInv, PlaceInv
<1>2. /\ c \in Conns /\ rest \in Seq(Conns) /\ Injective(rest) /\ ~Has(rest, c)
      /\ \A d : Has(connections, d) <=> d = c \/ Has(rest, d)
  BY <1>1, TailFacts
<1>3. /\ Append(rest, c) \in Seq(Conns) /\ Injective(Append(rest, c))
      /\ \A d : Has(Append(rest, c), d) <=> d = c \/ Has(rest, d)
  BY <1>2, AppendFacts
<1>4. /\ connections' = Append(rest, c)
      /\ \A d : Has(connections', d) <=> Has(connections, d)
      /\ Len(connections') = Len(connections)
  BY <1>1, <1>2, <1>3 DEF PingFront
<1>5. TypeOK'
  BY <1>3, <1>4 DEF PingFront, IInv, TypeOK, closeVars
<1>6. HeldInv' /\ PlaceInv'
  BY <1>3, <1>4 DEF PingFront, IInv, HeldInv, PlaceInv
<1>7. MutexInv'
  BY <1>4 DEF PingFront, IInv, TypeOK, MutexInv
<1>8. QED
  BY <1>5, <1>6, <1>7 DEF IInv

(* The steps of a thread that move no connection. *)
LEMMA ThreadInv ==
  ASSUME NEW t \in Threads, IInv,
         Begin(t) \/ GetStopped(t) \/ FindEmpty(t) \/ Sleep(t) \/ SpuriousWakeup(t) \/ CommandReturns(t)
  PROVE  IInv'
<1> USE DEF checkVars, closeVars
<1>1. UNCHANGED <<connections, leaked, held, check, checker, b_stop, closer>>
  BY DEF Begin, GetStopped, FindEmpty, Sleep, SpuriousWakeup, CommandReturns
<1>2. PlaceInv'
  BY <1>1 DEF IInv, PlaceInv
<1>3. CASE Begin(t)
  <2>1. ops' \in 0..MaxOps
    BY <1>3, RedisPoolAssumption DEF Begin, IInv, TypeOK
  <2>2. cmd' \in [Threads -> Commands] /\ pc' \in [Threads -> Places]
    BY <1>3 DEF Begin, Go, IInv, TypeOK, Places
  <2>3. TypeOK'
    BY <1>1, <1>3, <2>1, <2>2 DEF Begin, IInv, TypeOK
  <2>4. HeldInv' /\ MutexInv'
    BY <1>1, <1>3 DEF Begin, Go, IInv, TypeOK, HeldInv, MutexInv
  <2>5. QED
    BY <1>2, <2>3, <2>4 DEF IInv
<1>4. CASE GetStopped(t) \/ FindEmpty(t) \/ Sleep(t) \/ SpuriousWakeup(t) \/ CommandReturns(t)
  <2>1. UNCHANGED <<ops, cmd>> /\ mutex' \in {mutex, t, Nobody}
    BY <1>4 DEF GetStopped, FindEmpty, Sleep, SpuriousWakeup, CommandReturns
  <2>2. pc' \in [Threads -> Places]
    BY <1>4 DEF GetStopped, FindEmpty, Sleep, SpuriousWakeup, CommandReturns, Go, IInv, TypeOK, Places
  <2>3. TypeOK'
    BY <1>1, <2>1, <2>2 DEF IInv, TypeOK
  <2>4. HeldInv'
    BY <1>1, <1>4 DEF GetStopped, FindEmpty, Sleep, SpuriousWakeup, CommandReturns, Go, IInv, TypeOK, HeldInv
  <2>5. MutexInv'
    BY <1>1, <1>4, RedisPoolAssumption
       DEF GetStopped, FindEmpty, Sleep, SpuriousWakeup, CommandReturns, Go, IInv, TypeOK, MutexInv
  <2>6. QED
    BY <1>2, <2>3, <2>4, <2>5 DEF IInv
<1>5. QED
  BY <1>3, <1>4

(* The steps of the check thread and of Close() that move no connection. *)
LEMMA OtherInv ==
  IInv /\ (CheckBegins \/ CheckEnds \/ CheckerExits \/ Close) => IInv'
<1> SUFFICES ASSUME IInv, CheckBegins \/ CheckEnds \/ CheckerExits \/ Close PROVE IInv'
  OBVIOUS
<1> USE DEF checkVars, closeVars, Close, CloseStops, CloseNotifies, CloseJoins, NotifyAll
<1>1. UNCHANGED <<connections, leaked, held, ops, cmd>>
  BY DEF CheckBegins, CheckEnds, CheckerExits
<1>2. PlaceInv'
  BY <1>1 DEF IInv, PlaceInv
<1>3. /\ pc' \in [Threads -> Places]
      /\ \A t \in Threads : pc'[t] \in {"using", "return"} <=> pc[t] \in {"using", "return"}
      /\ \A t \in Threads : pc'[t] = "presleep" <=> pc[t] = "presleep"
  BY DEF CheckBegins, CheckEnds, CheckerExits, IInv, TypeOK, Places
<1>4. HeldInv'
  BY <1>1, <1>3 DEF IInv, HeldInv
<1>5. (check' \in Nat /\ check' <= Len(connections)) \/ UNCHANGED check
  BY DEF CheckBegins, CheckEnds, CheckerExits, IInv, TypeOK
<1>6. mutex' \in {mutex, Nobody, Checker} /\ b_stop' \in {b_stop, TRUE}
  BY DEF CheckBegins, CheckEnds, CheckerExits
<1>7. checker' \in {"idle", "checking", "exited"} /\ closer' \in {"open", "notify", "join", "closed"}
  BY DEF CheckBegins, CheckEnds, CheckerExits, IInv, TypeOK
<1>8. TypeOK'
  BY <1>1, <1>3, <1>5, <1>6, <1>7 DEF IInv, TypeOK
<1>9. MutexInv'
  BY <1>1, <1>3, RedisPoolAssumption DEF CheckBegins, CheckEnds, CheckerExits, IInv, TypeOK, MutexInv
<1>10. QED
  BY <1>2, <1>4, <1>8, <1>9 DEF IInv

LEMMA NextInv == IInv /\ [Next]_vars => IInv'
<1> SUFFICES ASSUME IInv, [Next]_vars PROVE IInv'
  OBVIOUS
<1>1. CASE UNCHANGED vars
  BY <1>1 DEF vars, IInv, TypeOK, HeldInv, PlaceInv, MutexInv
<1>2. QED
  BY <1>1, GetInv, ReturnInv, LoseInv, PingInv, ThreadInv, OtherInv
     DEF Next, Get, Return, Command, Check

LEMMA PlacesAgree == IInv => Exclusive /\ Conserved
BY DEF IInv, TypeOK, PlaceInv, Injective, Has, Exclusive, Conserved, InPool

(* Every variable keeps its type. *)
THEOREM TypeCorrect == Spec => []TypeOK
BY InitInv, NextInv, PTL DEF Spec, IInv

(* No connection is ever in two places, nor in none. *)
THEOREM PoolCorrect == Spec => []OnePlaceEach
<1>1. Exclusive /\ Conserved => OnePlaceEach
  BY DEF OnePlaceEach
<1>2. QED
  BY <1>1, InitInv, NextInv, PlacesAgree, PTL DEF Spec

-----------------------------------------------------------------------------
(* Sleeping threads.  notify_one wakes one of them for every connection    *)
(* returned; a thread that comes by meanwhile may take that connection, so *)
(* the one woken finds none and sleeps again.                              *)
Wanting == {t \in Threads : pc[t] = "lock"}
Asleep == \E t \in Threads : pc[t] \in {"presleep", "asleep"}
NoWakeupLost == Asleep /\ ~b_stop => Len(connections) <= Cardinality(Wanting)

(* What a step of one thread does to the threads that want the mutex.      *)
LEMMA WantingMoves ==
  ASSUME IInv, NEW t \in Threads, NEW to, pc' = [pc EXCEPT ![t] = to]
  PROVE  /\ Cardinality(Wanting) \in Nat /\ Cardinality(Wanting') \in Nat
         /\ pc[t] = "lock" /\ to # "lock" => Cardinality(Wanting') = Cardinality(Wanting) - 1
         /\ pc[t] # "lock" => Cardinality(Wanting') >= Cardinality(Wanting)
<1>1. IsFiniteSet(Wanting) /\ Cardinality(Wanting) \in Nat
  BY FS_Subset, FS_CardinalityType, RedisPoolAssumption DEF Wanting
<1>2. \A u \in Threads : pc'[u] = IF u = t THEN to ELSE pc[u]
  BY DEF IInv, TypeOK
<1>3. CASE (pc[t] = "lock") <=> (to = "lock")
  <2>1. Wanting' = Wanting
    BY <1>2, <1>3 DEF Wanting
  <2>2. QED
    BY <1>1, <1>3, <2>1
<1>4. CASE pc[t] # "lock" /\ to = "lock"
  <2>1. Wanting' = Wanting \cup {t} /\ t \notin Wanting
    BY <1>2, <1>4 DEF Wanting
  <2>2. Cardinality(Wanting') = Cardinality(Wanting) + 1
    BY <1>1, <2>1, FS_AddElement
  <2>3. QED
    BY <1>1, <1>4, <2>2
<1>5. CASE pc[t] = "lock" /\ to # "lock"
  <2>1. Wanting' = Wanting \ {t} /\ t \in Wanting
    BY <1>2, <1>5 DEF Wanting
  <2>2. IsFiniteSet(Wanting') /\ Cardinality(Wanting') = Cardinality(Wanting) - 1
    BY <1>1, <2>1, FS_RemoveElement
  <2>3. Cardinality(Wanting') \in Nat
    BY <2>2, FS_CardinalityType
  <2>4. QED
    BY <1>1, <1>5, <2>2, <2>3
<1>6. QED
  BY <1>3, <1>4, <1>5

(* A thread that does not fall asleep and leaves the queue alone.          *)
LEMMA WakeMoves ==
  ASSUME IInv, NoWakeupLost, NEW t \in Threads, NEW from, NEW to, Go(t, from, to),
         from # "lock", to = "asleep" => from = "presleep", to # "presleep",
         UNCHANGED <<connections, b_stop>>
  PROVE  NoWakeupLost'
<1>1. Asleep' => Asleep
  <2> SUFFICES ASSUME NEW u \in Threads, pc'[u] \in {"presleep", "asleep"} PROVE Asleep
    BY DEF Asleep
  <2>1. CASE u = t
    BY <2>1 DEF Go, IInv, TypeOK, Asleep
  <2>2. CASE u # t
    BY <2>2 DEF Go, IInv, TypeOK, Asleep
  <2>3. QED
    BY <2>1, <2>2
<1>2. pc[t] # "lock" /\ pc' = [pc EXCEPT ![t] = to] /\ Len(connections) \in Nat
  BY DEF Go, IInv, TypeOK
<1>3. Cardinality(Wanting) \in Nat /\ Cardinality(Wanting') \in Nat
      /\ Cardinality(Wanting') >= Cardinality(Wanting)
  BY <1>2, WantingMoves
<1>4. QED
  BY <1>1, <1>2, <1>3 DEF NoWakeupLost

LEMMA WakeGets ==
  ASSUME IInv, NoWakeupLost, NEW t \in Threads, GetConnection(t)
  PROVE  NoWakeupLost'
<1>1. pc[t] = "lock" /\ pc' = [pc EXCEPT ![t] = "using"]
      /\ b_stop' = b_stop /\ connections # <<>> /\ connections' = Tail(connections)
  BY DEF GetConnection, Go, PopFront, closeVars
<1>2. Len(connections) \in Nat /\ Len(connections') = Len(connections) - 1
  BY <1>1 DEF IInv, TypeOK
<1>3. Cardinality(Wanting) \in Nat /\ Cardinality(Wanting') = Cardinality(Wanting) - 1
  <2>1. "using" # "lock"
    OBVIOUS
  <2>2. QED
    BY <1>1, <2>1, WantingMoves
<1>4. Asleep' => Asleep
  BY <1>1 DEF Asleep, IInv, TypeOK
<1>5. QED
  BY <1>1, <1>2, <1>3, <1>4 DEF NoWakeupLost

(* A connection comes back, and one thread is woken if one sleeps.  None   *)
(* is about to sleep: it would have the mutex.                             *)
LEMMA WakeReturns ==
  ASSUME IInv, NoWakeupLost, NEW t \in Threads, ReturnConnection(t)
  PROVE  NoWakeupLost'
<1>1. \A u \in Threads : pc[u] # "presleep"
  BY RedisPoolAssumption DEF ReturnConnection, IInv, MutexInv
<1>2. CASE \A u \in Threads : pc[u] # "asleep"
  <2>1. pc' = [pc EXCEPT ![t] = "idle"]
    BY <1>2 DEF ReturnConnection, NotifyOne
  <2>2. ~Asleep'
    BY <1>1, <1>2, <2>1 DEF Asleep, IInv, TypeOK
  <2>3. QED
    BY <2>2 DEF NoWakeupLost
<1>3. CASE ~(\A u \in Threads : pc[u] # "asleep")
  <2>1. PICK u \in Threads : pc[u] = "asleep" /\ pc' = [pc EXCEPT ![t] = "idle", ![u] = "lock"]
    BY <1>3 DEF ReturnConnection, NotifyOne
  <2>2. pc[t] = "return" /\ \A v \in Threads : pc'[v] = IF v = u THEN "lock" ELSE IF v = t THEN "idle" ELSE pc[v]
    BY <2>1 DEF ReturnConnection, IInv, TypeOK
  <2>3. u \notin Wanting /\ t \notin Wanting
    BY <2>1, <2>2 DEF Wanting
  <2>4. \A v \in Threads : v \in Wanting' <=> v = u \/ v \in Wanting
    BY <2>2, <2>3 DEF Wanting
  <2>5. Wanting' = Wanting \cup {u}
    BY <2>4 DEF Wanting
  <2>6. IsFiniteSet(Wanting)
    BY FS_Subset, RedisPoolAssumption DEF Wanting
  <2>7. Cardinality(Wanting) \in Nat /\ Cardinality(Wanting') = Cardinality(Wanting) + 1
    BY <2>3, <2>6, <2>5, FS_AddElement, FS_CardinalityType
  <2>8. Len(connections') = Len(connections) + 1 /\ Len(connections) \in Nat /\ b_stop' = b_stop
    BY DEF ReturnConnection, IInv, TypeOK, HeldInv, closeVars
  <2>9. Asleep
    BY <2>1 DEF Asleep
  <2>10. QED
    BY <2>7, <2>8, <2>9 DEF NoWakeupLost
<1>4. QED
  BY <1>2, <1>3

(* The check thread and Close() leave nobody asleep that was not, and      *)
(* take nobody's wake-up away.                                             *)
LEMMA WakeOthers ==
  ASSUME IInv, NoWakeupLost, Check \/ Close
  PROVE  NoWakeupLost'
<1>1. Len(connections) \in Nat /\ Len(connections') = Len(connections)
  <2>1. CASE PingFront
    <3>1. connections \in Seq(Conns) /\ connections # <<>>
      BY <2>1 DEF PingFront, IInv, TypeOK, MutexInv
    <3>2. QED
      BY <2>1, <3>1 DEF PingFront
  <2>2. CASE ~PingFront
    BY <2>2 DEF Check, Close, CheckBegins, CheckEnds, CheckerExits, CloseStops, CloseNotifies,
       CloseJoins, IInv, TypeOK
  <2>3. QED
    BY <2>1, <2>2
<1>2. b_stop' = b_stop \/ b_stop'
  BY DEF Check, Close, CheckBegins, CheckEnds, CheckerExits, PingFront, CloseStops, CloseNotifies,
     CloseJoins, closeVars
<1>3. pc' \in {pc, NotifyAll}
  BY DEF Check, Close, CheckBegins, CheckEnds, CheckerExits, PingFront, CloseStops, CloseNotifies,
     CloseJoins
<1>4. (Asleep' => Asleep) /\ Wanting \subseteq Wanting'
  BY <1>3 DEF NotifyAll, Asleep, Wanting, IInv, TypeOK
<1>5. IsFiniteSet(Wanting) /\ IsFiniteSet(Wanting')
  BY FS_Subset, RedisPoolAssumption DEF Wanting
<1>6. Cardinality(Wanting) \in Nat /\ Cardinality(Wanting') \in Nat
      /\ Cardinality(Wanting) <= Cardinality(Wanting')
  BY <1>4, <1>5, FS_Subset, FS_CardinalityType
<1>7. QED
  BY <1>1, <1>2, <1>4, <1>6 DEF NoWakeupLost

LEMMA WakeInit == Init => NoWakeupLost
BY DEF Init, NoWakeupLost, Asleep

LEMMA WakeNext == IInv /\ NoWakeupLost /\ [Next]_vars => NoWakeupLost'
<1> SUFFICES ASSUME IInv, NoWakeupLost, [Next]_vars PROVE NoWakeupLost'
  OBVIOUS
<1> USE DEF closeVars
<1>1. CASE UNCHANGED vars
  BY <1>1 DEF vars, NoWakeupLost, Asleep, Wanting
<1>2. ASSUME NEW t \in Threads, GetStopped(t) PROVE NoWakeupLost'
  BY <1>2 DEF GetStopped, NoWakeupLost
<1>3. ASSUME NEW t \in Threads, FindEmpty(t) PROVE NoWakeupLost'
  <2>1. connections' = <<>> /\ Len(connections') = 0
    BY <1>3 DEF FindEmpty
  <2>2. pc' = [pc EXCEPT ![t] = "presleep"]
    BY <1>3 DEF FindEmpty, Go
  <2>3. Cardinality(Wanting') \in Nat
    BY <2>2, WantingMoves
  <2>4. QED
    BY <2>1, <2>3 DEF NoWakeupLost
<1>4. ASSUME NEW t \in Threads,
             \/ Begin(t) \/ Sleep(t) \/ SpuriousWakeup(t)
             \/ CommandReturns(t) \/ CommandLeaks(t) \/ ReturnStopped(t)
      PROVE  NoWakeupLost'
  <2>1. UNCHANGED <<connections, b_stop>>
    BY <1>4 DEF Begin, Sleep, SpuriousWakeup, CommandReturns, CommandLeaks, ReturnStopped
  <2>2. \/ Go(t, "idle", "lock") \/ Go(t, "presleep", "asleep") \/ Go(t, "asleep", "lock")
        \/ Go(t, "using", "return") \/ Go(t, "using", "idle") \/ Go(t, "return", "idle")
    BY <1>4 DEF Begin, Sleep, SpuriousWakeup, CommandReturns, CommandLeaks, ReturnStopped
  <2>3. QED
    BY <2>1, <2>2, WakeMoves
<1>5. QED
  BY <1>1, <1>2, <1>3, <1>4, WakeGets, WakeReturns, WakeOthers DEF Next, Get, Return, Command

(* No wake-up is lost: as long as a thread sleeps, there are at least as   *)
(* many threads on their way to the queue as there are connections in it.  *)
THEOREM NoWakeupLostCorrect == Spec => []NoWakeupLost
BY InitInv, NextInv, WakeInit, WakeNext, PTL DEF Spec

(* What keeps a sleeper's hope alive, unless every connection has leaked or*)
(* the pool is stopped: another thread has a connection, or wants one and  *)
(* will find one or sleep only because a third one has it.                 *)
SleeperAwaited ==
  Asleep /\ ~b_stop /\ leaked # Conns =>
      \/ \E t \in Threads : held[t] # NoConn
      \/ Wanting # {}

LEMMA AwaitedHolds == IInv /\ NoWakeupLost => SleeperAwaited
<1> SUFFICES ASSUME IInv, NoWakeupLost, Asleep, ~b_stop, leaked # Conns, Wanting = {}
             PROVE  \E t \in Threads : held[t] # NoConn
  BY DEF SleeperAwaited
<1>1. PICK c \in Conns : c \notin leaked
  BY DEF IInv, TypeOK
<1>2. Len(connections) = 0
  BY FS_EmptySet DEF NoWakeupLost, IInv, TypeOK
<1>3. ~Has(connections, c)
  BY <1>2 DEF Has
<1>4. QED
  BY <1>1, <1>3, RedisPoolAssumption DEF IInv, PlaceInv

(* The safety that SleepersServed rests on, for any pool and any threads:  *)
(* nobody sleeps while connections lie in the pool and no one else runs.   *)
THEOREM SleeperAwaitedCorrect == Spec => []SleeperAwaited
BY InitInv, NextInv, WakeInit, WakeNext, AwaitedHolds, PTL DEF Spec
=============================================================================
