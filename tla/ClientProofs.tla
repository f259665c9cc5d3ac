---------------------------- MODULE ClientProofs ----------------------------
(***************************************************************************)
(* Proofs about the client: Client, its friends, items and page, and       *)
(* TcpFraming, the parser of its stream.                                   *)
(*                                                                         *)
(* Client's invariants are inductive only together.  A chat item is found  *)
(* by its index, so that nobody has two (ItemsOnce) is what lets the two   *)
(* copies of a conversation, and the page, agree; and that only friends    *)
(* have items (ItemsOfFriends) makes the item of a new friend a new one.   *)
(* What the recursive Among computes is proved first: one set of naturals, *)
(* or of sequences, stands for each statement proved by induction.         *)
(***************************************************************************)
EXTENDS Client, TcpFraming, SequenceTheorems, WellFoundedInduction, TLAPS

-----------------------------------------------------------------------------
(* Induction.  NatInduction takes an operator, which the provers cannot    *)
(* give it; the least element of a set takes the set of the numbers for    *)
(* which a statement fails.                                                *)
LEMMA Least ==
  ASSUME NEW T, T \subseteq Nat, T # {}
  PROVE  \E x \in T : \A y \in T : x <= y
<1> DEFINE R == OpToRel(<, Nat)
<1>1. IsWellFoundedOn(R, Nat)
  BY NatLessThanWellFounded
<1>2. \A x, y \in Nat : ~(<<y, x>> \in R) => x <= y
  BY DEF OpToRel
<1> HIDE DEF R
<1>3. PICK x \in T : \A y \in T : ~ (<<y, x>> \in R)
  BY <1>1, WFMin
<1>4. \A y \in T : x <= y
  BY <1>2, <1>3
<1>5. QED
  BY <1>4

LEMMA Induction ==
  ASSUME NEW T, T \subseteq Nat, 0 \in T, \A n \in T : n + 1 \in T
  PROVE  T = Nat
<1> SUFFICES ASSUME Nat \ T # {} PROVE FALSE
  OBVIOUS
<1>1. PICK x \in Nat \ T : \A y \in Nat \ T : x <= y
  BY Least
<1>2. x # 0 /\ x - 1 \in Nat /\ x - 1 \in T
  BY <1>1
<1>3. QED
  BY <1>1, <1>2

(* A set of sequences with the empty one, and with each the longer ones.   *)
LEMMA SeqInduction ==
  ASSUME NEW S, NEW P, <<>> \in P,
         \A s \in Seq(S) : \A x \in S : s \in P => Append(s, x) \in P
  PROVE  Seq(S) \subseteq P
<1> DEFINE T == {n \in Nat : \A s \in Seq(S) : Len(s) = n => s \in P}
<1>1. T = Nat
  <2>1. T \subseteq Nat
    OBVIOUS
  <2>2. 0 \in T
    <3>1. ASSUME NEW s \in Seq(S), Len(s) = 0 PROVE s \in P
      BY <3>1, EmptySeq
    <3>2. QED
      BY <3>1
  <2>3. ASSUME NEW n \in T PROVE n + 1 \in T
    <3>1. ASSUME NEW s \in Seq(S), Len(s) = n + 1 PROVE s \in P
      <4> DEFINE t == SubSeq(s, 1, n)  x == s[n + 1]
      <4>1. n \in Nat
        OBVIOUS
      <4>2. t \in Seq(S) /\ Len(t) = n /\ x \in S
        BY <3>1, <4>1
      <4>3. s = Append(t, x)
        <5>1. Append(t, x) \in Seq(S) /\ Len(Append(t, x)) = Len(s)
          BY <3>1, <4>1, <4>2
        <5>2. \A i \in 1..Len(s) : s[i] = Append(t, x)[i]
          BY <3>1, <4>1, <4>2
        <5>3. QED
          BY <5>1, <5>2, SeqEqual
      <4>4. t \in P
        BY <4>2
      <4> HIDE DEF t, x
      <4>5. QED
        BY <4>2, <4>3, <4>4
    <3>2. QED
      BY <3>1
  <2> HIDE DEF T
  <2>4. QED
    BY <2>1, <2>2, <2>3, Induction
<1>2. ASSUME NEW s \in Seq(S) PROVE s \in P
  <2>1. Len(s) \in Nat
    OBVIOUS
  <2>2. Len(s) \in T
    BY <1>1, <2>1
  <2>3. QED
    BY <2>2
<1>3. QED
  BY <1>2

-----------------------------------------------------------------------------
(* What Among computes.  Its recursive function exists, and is determined  *)
(* by the part of the sequence it has gone through.                        *)
IsKept(g, s, S, m) ==
    g = [n \in 0..m |-> IF n = 0 THEN <<>>
                        ELSE IF s[n] \in S THEN Append(g[n - 1], s[n]) ELSE g[n - 1]]

LEMMA KeptExists ==
  ASSUME NEW s, NEW S, NEW m \in Nat
  PROVE  \E g : IsKept(g, s, S, m)
<1> DEFINE T == {k \in Nat : \E g : IsKept(g, s, S, k)}
<1>1. 0 \in T
  <2> DEFINE g == [n \in 0..0 |-> <<>>]
  <2>1. IsKept(g, s, S, 0)
    BY DEF IsKept
  <2>2. QED
    BY <2>1
<1>2. ASSUME NEW k \in T PROVE k + 1 \in T
  <2>1. PICK g : IsKept(g, s, S, k)
    OBVIOUS
  <2>2. k \in Nat
    OBVIOUS
  <2> DEFINE h == [n \in 0..(k + 1) |->
                     IF n <= k THEN g[n]
                     ELSE IF s[k + 1] \in S THEN Append(g[k], s[k + 1]) ELSE g[k]]
             hh == [n \in 0..(k + 1) |->
                     IF n = 0 THEN <<>>
                     ELSE IF s[n] \in S THEN Append(h[n - 1], s[n]) ELSE h[n - 1]]
  <2>3. ASSUME NEW n \in 0..(k + 1)
        PROVE  h[n] = hh[n]
    <3>1. CASE n = 0
      BY <2>1, <2>2, <3>1 DEF IsKept
    <3>2. CASE n # 0 /\ n <= k
      <4>1. n \in 0..k /\ n - 1 \in 0..k /\ n - 1 <= k /\ n - 1 \in 0..(k + 1)
        BY <2>2, <3>2
      <4>2. g[n] = IF s[n] \in S THEN Append(g[n - 1], s[n]) ELSE g[n - 1]
        BY <2>1, <3>2, <4>1 DEF IsKept
      <4>3. h[n] = g[n] /\ h[n - 1] = g[n - 1]
        BY <3>2, <4>1
      <4>4. QED
        BY <3>2, <4>2, <4>3
    <3>3. CASE n = k + 1
      <4>1. ~(n <= k) /\ n # 0 /\ n - 1 = k /\ k <= k /\ k \in 0..(k + 1)
        BY <2>2, <3>3
      <4>2. h[n - 1] = g[k]
        BY <4>1
      <4>3. QED
        BY <3>3, <4>1, <4>2
    <3>4. QED
      BY <2>2, <3>1, <3>2, <3>3
  <2>4. h = hh
    BY <2>3
  <2> HIDE DEF h
  <2>5. IsKept(h, s, S, k + 1)
    BY <2>4 DEF IsKept
  <2>6. QED
    BY <2>2, <2>5
<1>3. T \subseteq Nat
  OBVIOUS
<1> HIDE DEF T
<1>4. T = Nat
  BY <1>1, <1>2, <1>3, Induction
<1>5. QED
  BY <1>4 DEF T

LEMMA AmongKept ==
  ASSUME NEW s, NEW S, Len(s) \in Nat
  PROVE  \E g : IsKept(g, s, S, Len(s)) /\ Among(s, S) = g[Len(s)]
<1> DEFINE g == CHOOSE h : IsKept(h, s, S, Len(s))
<1>1. IsKept(g, s, S, Len(s))
  BY KeptExists
<1>2. Among(s, S) = g[Len(s)]
  BY DEF Among, IsKept
<1>3. QED
  BY <1>1, <1>2

LEMMA KeptSame ==
  ASSUME NEW s, NEW t, NEW S, NEW m \in Nat, NEW k \in Nat, m <= k,
         \A i \in 1..m : s[i] = t[i],
         NEW g, IsKept(g, s, S, m), NEW h, IsKept(h, t, S, k)
  PROVE  g[m] = h[m]
<1> DEFINE T == {n \in Nat : n <= m => g[n] = h[n]}
<1>1. 0 \in T
  BY DEF IsKept
<1>2. ASSUME NEW n \in T PROVE n + 1 \in T
  <2>1. SUFFICES ASSUME n + 1 <= m PROVE g[n + 1] = h[n + 1]
    OBVIOUS
  <2>2. n + 1 \in 0..m /\ n + 1 \in 0..k /\ n + 1 \in 1..m /\ n + 1 # 0 /\ (n + 1) - 1 = n
    BY <2>1
  <2>3. g[n] = h[n]
    BY <2>1
  <2>4. g[n + 1] = IF s[n + 1] \in S THEN Append(g[n], s[n + 1]) ELSE g[n]
    BY <2>2 DEF IsKept
  <2>5. h[n + 1] = IF t[n + 1] \in S THEN Append(h[n], t[n + 1]) ELSE h[n]
    BY <2>2 DEF IsKept
  <2>6. QED
    BY <2>2, <2>3, <2>4, <2>5
<1>3. T \subseteq Nat
  OBVIOUS
<1> HIDE DEF T
<1>4. T = Nat
  BY <1>1, <1>2, <1>3, Induction
<1>5. QED
  BY <1>4 DEF T

LEMMA AmongEmpty == ASSUME NEW S PROVE Among(<<>>, S) = <<>>
<1>1. PICK g : IsKept(g, <<>>, S, 0) /\ Among(<<>>, S) = g[0]
  BY AmongKept
<1>2. QED
  BY <1>1 DEF IsKept

LEMMA AmongAppend ==
  ASSUME NEW E, NEW S, NEW s \in Seq(E), NEW x \in E
  PROVE  Among(Append(s, x), S) = IF x \in S THEN Append(Among(s, S), x) ELSE Among(s, S)
<1> DEFINE t == Append(s, x)  m == Len(s)
<1>1. m \in Nat /\ Len(t) = m + 1 /\ t[m + 1] = x /\ \A i \in 1..m : s[i] = t[i]
  OBVIOUS
<1> HIDE DEF t, m
<1>2. PICK g : IsKept(g, s, S, m) /\ Among(s, S) = g[m]
  BY <1>1, AmongKept DEF m
<1>3. PICK h : IsKept(h, t, S, m + 1) /\ Among(t, S) = h[m + 1]
  BY <1>1, AmongKept
<1>4. g[m] = h[m]
  BY <1>1, <1>2, <1>3, KeptSame
<1>5. h[m + 1] = IF t[m + 1] \in S THEN Append(h[m], t[m + 1]) ELSE h[m]
  <2>1. m + 1 \in 0..(m + 1) /\ m + 1 # 0 /\ (m + 1) - 1 = m
    BY <1>1
  <2>2. QED
    BY <1>3, <2>1 DEF IsKept
<1>6. QED
  BY <1>1, <1>2, <1>3, <1>4, <1>5 DEF t

(* Its elements are those in S, in both directions; nothing is lost of a   *)
(* sequence over S, and it takes sequences apart and together.             *)
LEMMA AmongType ==
  ASSUME NEW E, NEW S, NEW s \in Seq(E)
  PROVE  Among(s, S) \in Seq(E \intersect S) /\ Among(s, S) \in Seq(E)
<1> DEFINE F == E \intersect S  P == {t \in Seq(E) : Among(t, S) \in Seq(F)}
<1>1. <<>> \in P
  <2>1. <<>> \in Seq(E) /\ <<>> \in Seq(F)
    OBVIOUS
  <2>2. QED
    BY <2>1, AmongEmpty
<1>2. ASSUME NEW t \in Seq(E), NEW x \in E, t \in P PROVE Append(t, x) \in P
  <2>1. Append(t, x) \in Seq(E) /\ Among(t, S) \in Seq(F) /\ (x \in S => x \in F)
    BY <1>2
  <2> HIDE DEF F
  <2>2. Among(Append(t, x), S) \in Seq(F)
    BY <2>1, AmongAppend
  <2>3. QED
    BY <2>1, <2>2
<1> HIDE DEF P
<1>3. Seq(E) \subseteq P
  BY <1>1, <1>2, SeqInduction
<1>4. Among(s, S) \in Seq(F)
  BY <1>3 DEF P
<1>5. F \subseteq E
  OBVIOUS
<1> HIDE DEF F
<1>6. Among(s, S) \in Seq(E)
  BY <1>4, <1>5, SeqMonotonic
<1>7. QED
  BY <1>4, <1>6 DEF F

LEMMA AmongAll ==
  ASSUME NEW S, NEW s \in Seq(S)
  PROVE  Among(s, S) = s
<1> DEFINE P == {t \in Seq(S) : Among(t, S) = t}
<1>1. <<>> \in P
  BY AmongEmpty
<1>2. ASSUME NEW t \in Seq(S), NEW x \in S, t \in P PROVE Append(t, x) \in P
  BY <1>2, AmongAppend
<1> HIDE DEF P
<1>3. Seq(S) \subseteq P
  BY <1>1, <1>2, SeqInduction
<1>4. QED
  BY <1>3 DEF P

LEMMA AmongConcat ==
  ASSUME NEW E, NEW S, NEW s \in Seq(E), NEW t \in Seq(E)
  PROVE  Among(s \o t, S) = Among(s, S) \o Among(t, S)
<1> DEFINE P == {r \in Seq(E) : Among(s \o r, S) = Among(s, S) \o Among(r, S)}
<1>1. <<>> \in P
  <2>1. s \o <<>> = s /\ <<>> \in Seq(E)
    OBVIOUS
  <2>2. Among(s, S) \o <<>> = Among(s, S)
    BY AmongType, ConcatEmptySeq
  <2>3. QED
    BY <2>1, <2>2, AmongEmpty
<1>2. ASSUME NEW r \in Seq(E), NEW x \in E, r \in P PROVE Append(r, x) \in P
  <2> DEFINE q == s \o r  a == Among(s, S)  b == Among(r, S)
  <2>1. s \o Append(r, x) = Append(q, x) /\ q \in Seq(E) /\ Append(r, x) \in Seq(E)
    OBVIOUS
  <2>2. a \in Seq(E) /\ b \in Seq(E)
    BY AmongType
  <2>3. Among(q, S) = a \o b
    BY <1>2
  <2>4. Among(Append(r, x), S) = IF x \in S THEN Append(b, x) ELSE b
    BY AmongAppend
  <2> HIDE DEF q, a, b
  <2>5. Among(Append(q, x), S) = IF x \in S THEN Append(Among(q, S), x) ELSE Among(q, S)
    BY <2>1, AmongAppend
  <2>6. Append(a \o b, x) = a \o Append(b, x)
    <3>1. a \o b \in Seq(E) /\ <<x>> \in Seq(E)
      BY <2>2
    <3>2. Append(a \o b, x) = (a \o b) \o <<x>> /\ Append(b, x) = b \o <<x>>
      BY <2>2, <3>1, AppendIsConcat
    <3>3. (a \o b) \o <<x>> = a \o (b \o <<x>>)
      BY <2>2, <3>1, ConcatAssociative
    <3>4. QED
      BY <3>2, <3>3
  <2>7. Among(s \o Append(r, x), S) = a \o Among(Append(r, x), S)
    BY <2>1, <2>3, <2>4, <2>5, <2>6
  <2>8. QED
    BY <2>1, <2>7 DEF a
<1> HIDE DEF P
<1>3. Seq(E) \subseteq P
  BY <1>1, <1>2, SeqInduction
<1>4. QED
  BY <1>3 DEF P

LEMMA AmongElements ==
  ASSUME NEW E, NEW S, NEW s \in Seq(E)
  PROVE  ToSet(Among(s, S)) = ToSet(s) \intersect S
<1> DEFINE P == {t \in Seq(E) : ToSet(Among(t, S)) = ToSet(t) \intersect S}
<1>1. <<>> \in P
  BY AmongEmpty DEF ToSet
<1>2. ASSUME NEW F, NEW t \in Seq(F), NEW x \in F
      PROVE  ToSet(Append(t, x)) = ToSet(t) \union {x}
  <2>1. /\ Len(t) \in Nat /\ DOMAIN t = 1..Len(t) /\ DOMAIN Append(t, x) = 1..(Len(t) + 1)
        /\ \A i \in 1..Len(t) : Append(t, x)[i] = t[i] /\ i \in 1..(Len(t) + 1)
        /\ Append(t, x)[Len(t) + 1] = x /\ Len(t) + 1 \in 1..(Len(t) + 1)
        /\ \A i \in 1..(Len(t) + 1) : i \in 1..Len(t) \/ i = Len(t) + 1
    OBVIOUS
  <2>2. \A y : y \in ToSet(Append(t, x)) <=> \E i \in 1..(Len(t) + 1) : y = Append(t, x)[i]
    BY <2>1 DEF ToSet
  <2>3. \A y : y \in ToSet(t) <=> \E i \in 1..Len(t) : y = t[i]
    BY <2>1 DEF ToSet
  <2>4. \A y : y \in ToSet(Append(t, x)) <=> y \in ToSet(t) \/ y = x
    BY <2>1, <2>2, <2>3
  <2>5. QED
    BY <2>4
<1>3. ASSUME NEW t \in Seq(E), NEW x \in E, t \in P PROVE Append(t, x) \in P
  <2>1. ToSet(Append(t, x)) = ToSet(t) \union {x}
    BY <1>2
  <2>2. ToSet(Among(t, S)) = ToSet(t) \intersect S
    BY <1>3
  <2>3. CASE x \in S
    <3>1. Among(Append(t, x), S) = Append(Among(t, S), x)
      BY <2>3, AmongAppend
    <3>2. Among(t, S) \in Seq(E)
      BY AmongType
    <3>3. ToSet(Append(Among(t, S), x)) = ToSet(Among(t, S)) \union {x}
      BY <1>2, <3>2
    <3>4. ToSet(Among(Append(t, x), S)) = ToSet(Append(t, x)) \intersect S
      BY <2>1, <2>2, <2>3, <3>1, <3>3
    <3>5. Append(t, x) \in Seq(E)
      OBVIOUS
    <3>6. QED
      BY <3>4, <3>5
  <2>4. CASE x \notin S
    <3>1. Among(Append(t, x), S) = Among(t, S)
      BY <2>4, AmongAppend
    <3>2. QED
      BY <2>1, <2>2, <2>4, <3>1
  <2>5. QED
    BY <2>3, <2>4
<1> HIDE DEF P
<1>4. Seq(E) \subseteq P
  BY <1>1, <1>3, SeqInduction
<1>5. QED
  BY <1>4 DEF P

LEMMA AmongInjective ==
  ASSUME NEW E, NEW S, NEW s \in Seq(E), IsInjective(s)
  PROVE  IsInjective(Among(s, S))
<1> DEFINE P == {t \in Seq(E) : IsInjective(t) => IsInjective(Among(t, S))}
<1>1. <<>> \in P
  BY AmongEmpty DEF IsInjective
<1>2. ASSUME NEW t \in Seq(E), NEW x \in E
      PROVE  IsInjective(Append(t, x)) <=> IsInjective(t) /\ x \notin ToSet(t)
  <2>1. /\ Len(t) \in Nat /\ DOMAIN t = 1..Len(t) /\ DOMAIN Append(t, x) = 1..(Len(t) + 1)
        /\ \A i \in 1..Len(t) : Append(t, x)[i] = t[i] /\ i \in 1..(Len(t) + 1) /\ i # Len(t) + 1
        /\ Append(t, x)[Len(t) + 1] = x /\ Len(t) + 1 \in 1..(Len(t) + 1)
        /\ \A i \in 1..(Len(t) + 1) : i \in 1..Len(t) \/ i = Len(t) + 1
    OBVIOUS
  <2>2. QED
    BY <2>1 DEF IsInjective, ToSet
<1>3. ASSUME NEW t \in Seq(E), NEW x \in E, t \in P PROVE Append(t, x) \in P
  <2>1. SUFFICES ASSUME IsInjective(t), x \notin ToSet(t)
                 PROVE  IsInjective(Among(Append(t, x), S))
    BY <1>2
  <2>2. IsInjective(Among(t, S))
    BY <1>3, <2>1
  <2>3. CASE x \in S
    <3>1. Among(Append(t, x), S) = Append(Among(t, S), x)
      BY <2>3, AmongAppend
    <3>2. Among(t, S) \in Seq(E)
      BY AmongType
    <3>3. x \notin ToSet(Among(t, S))
      BY <2>1, AmongElements
    <3>4. QED
      BY <1>2, <2>2, <3>1, <3>2, <3>3
  <2>4. CASE x \notin S
    BY <2>2, <2>4, AmongAppend
  <2>5. QED
    BY <2>3, <2>4
<1> HIDE DEF P
<1>4. Seq(E) \subseteq P
  BY <1>1, <1>3, SeqInduction
<1>5. QED
  BY <1>4 DEF P

-----------------------------------------------------------------------------
(* The client: friends, items and the page.                                *)
People == Users \union {NoOne}
Conversations == Seq(Nat \ {0})
Items == [uid : People, msgs : Conversations]

TypeInv ==
    /\ friendList \in Seq(Users) /\ IsInjective(friendList)
    /\ Friends \subseteq Users /\ record \in [Friends -> Conversations]
    /\ ToSet(friendList) \subseteq Friends
    /\ chatLoaded \in 0..Len(friendList) /\ contactLoaded \in 0..Len(friendList)
    /\ contacts \in [People -> Nat]
    /\ item \in Seq(Items) /\ first \in 1..Len(item) /\ added \in [People -> 0..Len(item)]
    /\ cur \in People /\ page \in 1..Len(item) /\ shown \in Seq(Nat)
    /\ msgs \in Nat

(* Nobody has an item who is not a friend. *)
ItemsOfFriends == \A u \in Users : added[u] # 0 => IsFriend(u)

IInv == /\ TypeInv /\ ItemsOfFriends
        /\ RecordsAgree /\ PageShowsCurrent /\ ContactsOnce /\ ItemsOnce

core == <<friendList, record, chatLoaded, contactLoaded, contacts, item, first, added, cur, page,
          shown, msgs>>

(* An item is its person's, and there is no other of his. *)
LEMMA ItemOf ==
  ASSUME TypeInv, ItemsOnce, NEW u \in Users
  PROVE  /\ added[u] # 0 => added[u] \in 1..Len(item) /\ item[added[u]].uid = u
         /\ \A i \in 1..Len(item) : item[i].uid = u => added[u] = i
<1>1. DOMAIN item = 1..Len(item)
  BY DEF TypeInv
<1>2. {i \in DOMAIN item : item[i].uid = u} = {added[u]} \ {0}
  BY DEF ItemsOnce
<1>3. added[u] # 0 => added[u] \in {i \in DOMAIN item : item[i].uid = u}
  BY <1>2
<1>4. \A i \in 1..Len(item) : item[i].uid = u => i \in {added[u]} \ {0}
  BY <1>1, <1>2
<1>5. QED
  BY <1>1, <1>3, <1>4

(* Only friends have contact entries. *)
LEMMA ContactIsFriend ==
  ASSUME TypeInv, ContactsOnce, NEW u \in Users, contacts[u] > 0
  PROVE  IsFriend(u)
<1>1. contacts[u] \in Nat
  BY DEF TypeInv, People
<1>2. QED
  BY <1>1 DEF ContactsOnce

LEMMA CoreUnchanged == IInv /\ UNCHANGED core => IInv'
BY DEF IInv, core, TypeInv, ItemsOfFriends, RecordsAgree, PageShowsCurrent, ContactsOnce, ItemsOnce,
       ToLoad, Friends, IsFriend, Recorded

-----------------------------------------------------------------------------
(* Messages that are added to both copies of a conversation.               *)
LEMMA MsgsAdded ==
  ASSUME IInv, NEW u \in Users, IsFriend(u), added[u] # 0, NEW ns \in Conversations,
         record' = [record EXCEPT ![u] = @ \o ns],
         item' = [item EXCEPT ![added[u]].msgs = @ \o ns],
         shown' = (IF cur = u THEN shown \o ns ELSE shown), msgs' \in Nat,
         UNCHANGED <<friendList, chatLoaded, contactLoaded, contacts, first, added, cur, page>>
  PROVE  IInv'
<1> DEFINE k == added[u]
<1>1. k \in 1..Len(item) /\ item[k].uid = u /\ item \in Seq(Items) /\ u \in Friends
  <2>1. TypeInv /\ ItemsOnce
    BY DEF IInv
  <2>2. k \in 1..Len(item) /\ item[k].uid = u
    BY <2>1, ItemOf
  <2>3. QED
    BY <2>1, <2>2 DEF TypeInv, IsFriend
<1>2. /\ item[k] \in Items /\ item[k].msgs \in Conversations
      /\ record[u] \in Conversations /\ record[u] = item[k].msgs
  <2>1. item[k] \in Items
    BY <1>1, ElementOfSeq
  <2>2. item[k].msgs \in Conversations
    BY <2>1 DEF Items
  <2>3. record[u] = item[k].msgs
    BY <1>1 DEF IInv, RecordsAgree
  <2>4. QED
    BY <2>1, <2>2, <2>3
<1>3. item[k].msgs \o ns \in Conversations
  BY <1>2 DEF Conversations
<1>4. /\ Len(item') = Len(item) /\ item' \in Seq(Items)
      /\ \A i \in 1..Len(item) : /\ item'[i].uid = item[i].uid
                                 /\ i # k => item'[i] = item[i]
      /\ item'[k].msgs = item[k].msgs \o ns
  <2> DEFINE e == [item[k] EXCEPT !.msgs = @ \o ns]
  <2>1. e \in Items /\ e.uid = item[k].uid /\ e.msgs = item[k].msgs \o ns
    BY <1>2, <1>3 DEF Items
  <2>2. item' = [item EXCEPT ![k] = e]
    BY <1>1
  <2> HIDE DEF e
  <2>3. item' \in Seq(Items) /\ Len(item') = Len(item)
    BY <1>1, <2>1, <2>2, ExceptSeq
  <2>4. item'[k] = e /\ \A i \in 1..Len(item) : i # k => item'[i] = item[i]
    BY <1>1, <2>2
  <2>5. QED
    BY <1>1, <2>1, <2>3, <2>4
<1>5. DOMAIN record' = Friends /\ record' \in [Friends -> Conversations]
      /\ record'[u] = record[u] \o ns /\ \A v \in Friends \ {u} : record'[v] = record[v]
  BY <1>1, <1>2, <1>3 DEF IInv, TypeInv, Friends
<1>6. shown' \in Seq(Nat) /\ (cur = u => Recorded(shown)' = Recorded(shown) \o ns)
      /\ (cur # u => Recorded(shown)' = Recorded(shown))
  <2>1. shown \in Seq(Nat) /\ ns \in Seq(Nat)
    BY SeqMonotonic DEF IInv, TypeInv, Conversations
  <2>2. Recorded(shown \o ns) = Recorded(shown) \o Recorded(ns)
    BY <2>1, AmongConcat DEF Recorded
  <2>3. Recorded(ns) = ns
    BY AmongAll DEF Recorded, Conversations
  <2>4. QED
    BY <2>1, <2>2, <2>3 DEF Recorded
<1>7. TypeInv' /\ ItemsOfFriends'
  BY <1>4, <1>5, <1>6 DEF IInv, TypeInv, ItemsOfFriends, Friends, IsFriend
<1>8. \A v \in Users : v # u /\ added[v] # 0 => added[v] \in 1..Len(item) /\ added[v] # k
  BY <1>1, ItemOf DEF IInv
<1>9. RecordsAgree'
  <2>1. ASSUME NEW v \in Friends
        PROVE  record'[v] = IF added[v] = 0 THEN <<>> ELSE item'[added[v]].msgs
    <3>1. v \in Users /\ record[v] = IF added[v] = 0 THEN <<>> ELSE item[added[v]].msgs
      BY DEF IInv, TypeInv, RecordsAgree
    <3>2. CASE v = u
      BY <1>2, <1>4, <1>5, <3>2
    <3>3. CASE v # u
      BY <1>4, <1>5, <1>8, <3>1, <3>3
    <3>4. QED
      BY <3>2, <3>3
  <2>2. Friends' = Friends
    BY <1>5 DEF Friends
  <2>3. QED
    BY <2>1, <2>2 DEF RecordsAgree
<1>10. PageShowsCurrent'
  <2>1. page \in 1..Len(item) /\ item[page].uid = cur /\ item'[page].uid = cur
    BY <1>4 DEF IInv, TypeInv, PageShowsCurrent
  <2>2. ASSUME cur # NoOne
        PROVE  added[cur] = page /\ Recorded(shown)' = item'[page].msgs
    <3>1. added[cur] = page /\ Recorded(shown) = item[page].msgs /\ cur \in Users
      BY <2>2 DEF IInv, TypeInv, PageShowsCurrent, People
    <3>2. CASE cur = u
      BY <1>4, <1>6, <3>1, <3>2
    <3>3. CASE cur # u
      <4>1. page # k
        BY <1>1, <2>1, <3>3
      <4>2. QED
        BY <1>4, <1>6, <2>1, <3>1, <3>3, <4>1
    <3>4. QED
      BY <3>2, <3>3
  <2>3. QED
    BY <2>1, <2>2 DEF PageShowsCurrent, Recorded
<1>11. ContactsOnce'
  BY <1>5 DEF IInv, ContactsOnce, ToLoad, IsFriend, Friends
<1>12. ItemsOnce'
  <2>1. DOMAIN item' = 1..Len(item) /\ DOMAIN item = 1..Len(item)
    BY <1>4 DEF IInv, TypeInv
  <2>2. \A v \in Users : {i \in DOMAIN item' : item'[i].uid = v} = {i \in DOMAIN item : item[i].uid = v}
    BY <1>4, <2>1
  <2>3. \A v : IsFriend(v)' <=> IsFriend(v)
    BY <1>5 DEF IsFriend, Friends
  <2>4. QED
    BY <2>2, <2>3 DEF IInv, ItemsOnce, ToLoad
<1>13. QED
  BY <1>7, <1>9, <1>10, <1>11, <1>12 DEF IInv

-----------------------------------------------------------------------------
(* A page shows the conversation of the item it was given.                 *)
LEMMA PageOfItem ==
  ASSUME TypeInv', ItemsOnce', cur' = item'[page'].uid, shown' = item'[page'].msgs
  PROVE  PageShowsCurrent'
<1>1. item' \in Seq(Items) /\ page' \in 1..Len(item') /\ cur' \in People /\ DOMAIN item' = 1..Len(item')
  BY DEF TypeInv
<1>2. item'[page'].msgs \in Conversations
  <2>1. item'[page'] \in Items
    BY <1>1, ElementOfSeq
  <2>2. QED
    BY <2>1 DEF Items
<1>3. Recorded(shown)' = item'[page'].msgs
  BY <1>2, AmongAll DEF Recorded, Conversations
<1>4. ASSUME cur' # NoOne PROVE added'[cur'] = page'
  <2>1. cur' \in Users
    BY <1>1, <1>4 DEF People
  <2>2. {i \in DOMAIN item' : item'[i].uid = cur'} = {added'[cur']} \ {0}
    BY <2>1 DEF ItemsOnce
  <2>3. page' \in {i \in DOMAIN item' : item'[i].uid = cur'}
    BY <1>1
  <2>4. QED
    BY <2>2, <2>3
<1>5. QED
  BY <1>3, <1>4 DEF PageShowsCurrent

(* The person whose conversation is shown has an item. *)
LEMMA CurHasItem ==
  ASSUME TypeInv, PageShowsCurrent, cur # NoOne
  PROVE  cur \in Users /\ added[cur] \in 1..Len(item) /\ added[cur] # 0
BY DEF TypeInv, PageShowsCurrent, People

(* A person without an item gets one in row 0. *)
LEMMA InsertEffect ==
  ASSUME TypeInv, ItemsOnce, NEW u \in People, added[u] = 0,
         NEW ms \in Conversations, InsertItem(u, ms)
  PROVE  /\ item' \in Seq(Items) /\ Len(item') = Len(item) + 1 /\ Len(item) \in Nat
         /\ DOMAIN item' = 1..(Len(item) + 1) /\ DOMAIN item = 1..Len(item)
         /\ \A i \in 1..Len(item) : item'[i] = item[i]
         /\ item'[Len(item) + 1] = [uid |-> u, msgs |-> ms]
         /\ added' \in [People -> 0..Len(item')] /\ added'[u] = Len(item) + 1
         /\ \A v \in People \ {u} : added'[v] = added[v]
         /\ first' \in 1..Len(item')
         /\ \A v \in Users : {i \in DOMAIN item' : item'[i].uid = v} = {added'[v]} \ {0}
<1> DEFINE x == [uid |-> u, msgs |-> ms]  k == Len(item) + 1
<1>1. item \in Seq(Items) /\ x \in Items /\ item' = Append(item, x)
  BY DEF TypeInv, Items, InsertItem, ChatItem
<1>2. /\ Len(item) \in Nat /\ DOMAIN item = 1..Len(item)
      /\ item' \in Seq(Items) /\ Len(item') = k /\ DOMAIN item' = 1..k
      /\ \A i \in 1..Len(item) : item'[i] = item[i]
      /\ item'[k] = x
  BY <1>1
<1>3. /\ added' = [added EXCEPT ![u] = k] /\ first' = k
      /\ added \in [People -> 0..Len(item)]
  BY DEF TypeInv, InsertItem
<1>4. /\ added' \in [People -> 0..k] /\ added'[u] = k
      /\ \A v \in People \ {u} : added'[v] = added[v]
  BY <1>2, <1>3
<1>5. ASSUME NEW v \in Users
      PROVE  {i \in DOMAIN item' : item'[i].uid = v} = {added'[v]} \ {0}
  <2>1. {i \in DOMAIN item : item[i].uid = v} = {added[v]} \ {0}
    BY DEF ItemsOnce
  <2>2. \A i \in 1..k : i \in 1..Len(item) \/ i = k
    BY <1>2
  <2>3. \A i \in 1..Len(item) : i \in 1..k
    BY <1>2
  <2>4. v \in People /\ k \in 1..k /\ k # 0 /\ x.uid = u
    BY <1>2 DEF People
  <2>5. CASE v = u
    <3>1. \A i \in 1..Len(item) : item[i].uid # v
      BY <1>2, <2>1, <2>5
    <3>2. \A i \in 1..k : item'[i].uid = v <=> i = k
      <4>1. ASSUME NEW i \in 1..k PROVE item'[i].uid = v <=> i = k
        <5>1. CASE i = k
          BY <1>2, <2>4, <2>5, <5>1
        <5>2. CASE i # k
          BY <1>2, <2>2, <3>1, <5>2
        <5>3. QED
          BY <5>1, <5>2
      <4>2. QED
        BY <4>1
    <3>3. QED
      BY <1>2, <1>4, <2>4, <2>5, <3>2
  <2>6. CASE v # u
    <3>1. \A i \in 1..k : item'[i].uid = v <=> i \in DOMAIN item /\ item[i].uid = v
      <4>1. ASSUME NEW i \in 1..k
            PROVE  item'[i].uid = v <=> i \in DOMAIN item /\ item[i].uid = v
        <5>1. CASE i = k
          BY <1>2, <2>4, <2>6, <5>1
        <5>2. CASE i # k
          BY <1>2, <2>2, <5>2
        <5>3. QED
          BY <5>1, <5>2
      <4>2. QED
        BY <4>1
    <3>2. {i \in DOMAIN item' : item'[i].uid = v} = {i \in DOMAIN item : item[i].uid = v}
      BY <1>2, <2>3, <3>1
    <3>3. QED
      BY <1>4, <2>1, <2>4, <2>6, <3>2
  <2>7. QED
    BY <2>5, <2>6
<1>6. first' \in 1..k
  BY <1>2, <1>3
<1>7. QED
  BY <1>2, <1>4, <1>5, <1>6

(* The new item agrees with the record that its person has or gets.        *)
LEMMA Inserted ==
  ASSUME IInv, NEW u \in People, added[u] = 0, NEW ms \in Conversations, InsertItem(u, ms),
         record' \in [Friends' -> Conversations], Friends' = Friends \union ({u} \intersect Users),
         u \in Users => record'[u] = ms, \A v \in Friends \ {u} : record'[v] = record[v],
         UNCHANGED <<friendList, chatLoaded, contactLoaded>>,
         contacts' \in [People -> Nat], msgs' \in Nat,
         cur' \in People, page' \in 1..(Len(item) + 1), shown' \in Seq(Nat)
  PROVE  TypeInv' /\ ItemsOfFriends' /\ RecordsAgree' /\ ItemsOnce'
<1>1. TypeInv /\ ItemsOnce /\ ItemsOfFriends /\ RecordsAgree
  BY DEF IInv
<1>2. /\ item' \in Seq(Items) /\ Len(item') = Len(item) + 1 /\ Len(item) \in Nat
      /\ \A i \in 1..Len(item) : item'[i] = item[i]
      /\ item'[Len(item) + 1] = [uid |-> u, msgs |-> ms]
      /\ added' \in [People -> 0..Len(item')] /\ added'[u] = Len(item) + 1
      /\ \A v \in People \ {u} : added'[v] = added[v]
      /\ first' \in 1..Len(item')
      /\ \A v \in Users : {i \in DOMAIN item' : item'[i].uid = v} = {added'[v]} \ {0}
  BY <1>1, InsertEffect
<1>3. Friends \subseteq Users /\ Friends' \subseteq Users
  BY <1>1 DEF TypeInv
<1>4. TypeInv'
  <2>1. /\ friendList' \in Seq(Users) /\ IsInjective(friendList)' /\ (ToSet(friendList) \subseteq Friends)'
        /\ chatLoaded' \in 0..Len(friendList') /\ contactLoaded' \in 0..Len(friendList')
    BY <1>1 DEF TypeInv
  <2>2. QED
    BY <1>2, <1>3, <2>1 DEF TypeInv
<1>5. ItemsOfFriends'
  <2>1. ASSUME NEW v \in Users, added'[v] # 0 PROVE v \in Friends'
    <3>1. CASE v = u
      BY <3>1
    <3>2. CASE v # u
      BY <1>1, <1>2, <2>1, <3>2 DEF ItemsOfFriends, IsFriend, People
    <3>3. QED
      BY <3>1, <3>2
  <2>2. QED
    BY <2>1 DEF ItemsOfFriends, IsFriend
<1>6. RecordsAgree'
  <2>1. ASSUME NEW v \in Friends'
        PROVE  record'[v] = IF added'[v] = 0 THEN <<>> ELSE item'[added'[v]].msgs
    <3>1. v \in Users /\ v \in People
      BY <1>3 DEF People
    <3>2. CASE v = u
      BY <1>2, <3>1, <3>2
    <3>3. CASE v # u
      <4>1. v \in Friends /\ record'[v] = record[v] /\ added'[v] = added[v]
        BY <1>2, <3>1, <3>3
      <4>2. record[v] = IF added[v] = 0 THEN <<>> ELSE item[added[v]].msgs
        BY <1>1, <4>1 DEF RecordsAgree
      <4>3. added[v] # 0 => added[v] \in 1..Len(item)
        <5>1. added[v] \in 0..Len(item)
          BY <1>1, <3>1 DEF TypeInv
        <5>2. QED
          BY <1>2, <5>1
      <4>4. QED
        BY <1>2, <4>1, <4>2, <4>3
    <3>4. QED
      BY <3>2, <3>3
  <2>2. QED
    BY <2>1 DEF RecordsAgree
<1>7. ItemsOnce'
  <2>1. ASSUME NEW v \in Users, v \in Friends'
        PROVE  added'[v] # 0 \/ ToLoad(v, chatLoaded)'
    <3>1. CASE v = u
      BY <1>2, <3>1
    <3>2. CASE v # u
      <4>1. v \in Friends /\ added'[v] = added[v]
        BY <1>2, <2>1, <3>2 DEF People
      <4>2. QED
        BY <1>1, <4>1 DEF ItemsOnce, IsFriend, ToLoad
    <3>3. QED
      BY <3>1, <3>2
  <2>2. QED
    BY <1>2, <2>1 DEF ItemsOnce, IsFriend
<1>8. QED
  BY <1>4, <1>5, <1>6, <1>7

(* The page is not disturbed by the item of another person. *)
LEMMA PageKept ==
  ASSUME IInv, NEW u \in People, added[u] = 0, NEW ms \in Conversations, InsertItem(u, ms),
         UNCHANGED pageVars
  PROVE  PageShowsCurrent' /\ page' \in 1..(Len(item) + 1) /\ cur' \in People /\ shown' \in Seq(Nat)
<1>1. TypeInv /\ ItemsOnce /\ PageShowsCurrent
  BY DEF IInv
<1>2. /\ Len(item) \in Nat
      /\ \A i \in 1..Len(item) : item'[i] = item[i]
      /\ \A v \in People \ {u} : added'[v] = added[v]
  BY <1>1, InsertEffect
<1>3. page' = page /\ cur' = cur /\ shown' = shown /\ page \in 1..Len(item) /\ cur \in People
      /\ shown \in Seq(Nat)
  BY <1>1 DEF TypeInv, pageVars
<1>4. cur # NoOne => cur # u
  BY <1>1, CurHasItem
<1>5. QED
  BY <1>1, <1>2, <1>3, <1>4 DEF PageShowsCurrent, Recorded

-----------------------------------------------------------------------------
(* The pages of the friend list.                                           *)
LEMMA PageOfFriends ==
  ASSUME TypeInv, NEW loaded \in 0..Len(friendList)
  PROVE  /\ PageEnd(loaded) \in loaded..Len(friendList) /\ Len(friendList) \in Nat
         /\ PerPage(loaded) \in Seq(Users) /\ IsInjective(PerPage(loaded))
         /\ \A u : /\ ToLoad(u, loaded) <=> \/ \E i \in DOMAIN PerPage(loaded) : PerPage(loaded)[i] = u
                                            \/ ToLoad(u, PageEnd(loaded))
                   /\ ~ (/\ \E i \in DOMAIN PerPage(loaded) : PerPage(loaded)[i] = u
                         /\ ToLoad(u, PageEnd(loaded)))
<1> DEFINE e == PageEnd(loaded)  s == PerPage(loaded)
<1>1. friendList \in Seq(Users) /\ Len(friendList) \in Nat /\ loaded \in Nat /\ DOMAIN friendList = 1..Len(friendList)
  BY DEF TypeInv
<1>2. e \in loaded..Len(friendList) /\ e \in Nat
  <2>1. PageSize \in Nat
    BY ClientAssumption
  <2>2. QED
    BY <1>1, <2>1 DEF PageEnd
<1>3. /\ s \in Seq(Users) /\ Len(s) = e - loaded /\ DOMAIN s = 1..(e - loaded)
      /\ \A i \in 1..(e - loaded) : s[i] = friendList[loaded + i]
  <2>1. s = SubSeq(friendList, loaded + 1, e)
    BY DEF PerPage
  <2> HIDE DEF s, e
  <2>2. \A i \in (loaded + 1)..e : friendList[i] \in Users
    <3>1. \A i \in (loaded + 1)..e : i \in 1..Len(friendList)
      BY <1>1, <1>2
    <3>2. QED
      BY <1>1, <3>1, ElementOfSeq
  <2>3. loaded + 1 \in Int /\ e \in Int
    BY <1>1, <1>2
  <2>4. /\ SubSeq(friendList, loaded + 1, e) \in Seq(Users)
        /\ Len(SubSeq(friendList, loaded + 1, e)) = IF loaded + 1 <= e THEN e - (loaded + 1) + 1 ELSE 0
        /\ \A i \in 1..(e - (loaded + 1) + 1) :
              SubSeq(friendList, loaded + 1, e)[i] = friendList[(loaded + 1) + i - 1]
    BY <2>2, <2>3, SubSeqProperties
  <2>5. s \in Seq(Users) /\ Len(s) = e - loaded
    BY <1>1, <1>2, <2>1, <2>4
  <2>6. ASSUME NEW i \in 1..(e - loaded) PROVE s[i] = friendList[loaded + i]
    <3>1. (loaded + 1) + i - 1 = loaded + i /\ i \in 1..(e - (loaded + 1) + 1)
      BY <1>1, <1>2
    <3>2. QED
      BY <2>1, <2>4, <3>1
  <2>7. DOMAIN s = 1..(e - loaded)
    BY <2>5
  <2>8. QED
    BY <2>5, <2>6, <2>7
<1> HIDE DEF s, e
<1>4. \A i, j \in 1..Len(friendList) : friendList[i] = friendList[j] => i = j
  BY <1>1 DEF TypeInv, IsInjective
<1>5. IsInjective(s)
  <2>1. ASSUME NEW i \in 1..(e - loaded), NEW j \in 1..(e - loaded), s[i] = s[j] PROVE i = j
    <3>1. loaded + i \in 1..Len(friendList) /\ loaded + j \in 1..Len(friendList)
      BY <1>1, <1>2
    <3>2. friendList[loaded + i] = friendList[loaded + j]
      BY <1>3, <2>1
    <3>3. loaded + i = loaded + j
      BY <1>4, <3>1, <3>2
    <3>4. QED
      BY <1>1, <3>3
  <2>2. QED
    BY <1>3, <2>1 DEF IsInjective
<1>6. ASSUME NEW u
      PROVE  (\E i \in DOMAIN s : s[i] = u) <=> \E i \in (loaded + 1)..e : friendList[i] = u
  <2>1. ASSUME NEW i \in DOMAIN s, s[i] = u PROVE \E j \in (loaded + 1)..e : friendList[j] = u
    <3>1. loaded + i \in (loaded + 1)..e
      BY <1>1, <1>2, <1>3
    <3>2. QED
      BY <1>3, <2>1, <3>1
  <2>2. ASSUME NEW j \in (loaded + 1)..e, friendList[j] = u PROVE \E i \in DOMAIN s : s[i] = u
    <3>1. j - loaded \in 1..(e - loaded) /\ loaded + (j - loaded) = j
      BY <1>1, <1>2
    <3>2. s[j - loaded] = u
      BY <1>3, <2>2, <3>1
    <3>3. QED
      BY <1>3, <3>1, <3>2
  <2>3. QED
    BY <2>1, <2>2
<1>7. ASSUME NEW u
      PROVE  /\ ToLoad(u, loaded) <=> (\E i \in (loaded + 1)..e : friendList[i] = u) \/ ToLoad(u, e)
             /\ ~ ((\E i \in (loaded + 1)..e : friendList[i] = u) /\ ToLoad(u, e))
  <2>1. \A i \in (loaded + 1)..Len(friendList) : i \in (loaded + 1)..e \/ i \in (e + 1)..Len(friendList)
    BY <1>1, <1>2
  <2>2. \A i \in (loaded + 1)..e : i \in (loaded + 1)..Len(friendList)
    BY <1>1, <1>2
  <2>3. \A i \in (e + 1)..Len(friendList) : i \in (loaded + 1)..Len(friendList)
    BY <1>1, <1>2
  <2>4. \A i \in (loaded + 1)..e : \A j \in (e + 1)..Len(friendList) :
            i \in 1..Len(friendList) /\ j \in 1..Len(friendList) /\ i # j
    BY <1>1, <1>2
  <2>5. QED
    BY <1>4, <2>1, <2>2, <2>3, <2>4 DEF ToLoad
<1>8. QED
  BY <1>1, <1>2, <1>3, <1>5, <1>6, <1>7 DEF s, e

LEMMA LoadedIsFriend ==
  ASSUME TypeInv, NEW u, NEW loaded \in Nat, ToLoad(u, loaded)
  PROVE  u \in Friends
<1>1. PICK i \in (loaded + 1)..Len(friendList) : friendList[i] = u
  BY DEF ToLoad
<1>2. i \in DOMAIN friendList
  BY DEF TypeInv
<1>3. u \in ToSet(friendList)
  BY <1>1, <1>2 DEF ToSet
<1>4. QED
  BY <1>3 DEF TypeInv

(* The friends of a page who have no item get one each.                    *)
LEMMA LoadMoreChatUserKeeps == IInv /\ LoadMoreChatUser => IInv'
<1> SUFFICES ASSUME IInv, LoadMoreChatUser PROVE IInv'
  OBVIOUS
<1> DEFINE e == PageEnd(chatLoaded)  us == PerPage(chatLoaded)
           S == {u \in Users : added[u] = 0}  new == Among(us, S)
           L == Len(item)  M == Len(new)
<1>1. TypeInv /\ ItemsOfFriends /\ RecordsAgree /\ PageShowsCurrent /\ ContactsOnce /\ ItemsOnce
  BY DEF IInv
<1>2. /\ item' = item \o [i \in 1..Len(new) |-> ChatItem(new[i], record[new[i]])]
      /\ added' = [u \in DOMAIN added |->
           IF \E i \in 1..Len(new) : new[i] = u
           THEN Len(item) + CHOOSE i \in 1..Len(new) : new[i] = u ELSE added[u]]
      /\ first' = first /\ chatLoaded' = e
  BY DEF LoadMoreChatUser, AddItems, Fresh
<1>3. UNCHANGED <<friendList, record, contactLoaded, contacts, cur, page, shown, msgs>>
  BY DEF LoadMoreChatUser, Wheel, pageVars, bounds
<1>4. /\ us \in Seq(Users) /\ IsInjective(us) /\ e \in chatLoaded..Len(friendList)
      /\ Len(friendList) \in Nat /\ chatLoaded \in Nat
      /\ \A u : ToLoad(u, chatLoaded) <=> (\E i \in DOMAIN us : us[i] = u) \/ ToLoad(u, e)
  <2>1. chatLoaded \in 0..Len(friendList)
    BY <1>1 DEF TypeInv
  <2>2. chatLoaded \in Nat
    BY <2>1
  <2>3. QED
    BY <1>1, <2>1, <2>2, PageOfFriends
<1>5. /\ new \in Seq(Users) /\ IsInjective(new) /\ M \in Nat /\ DOMAIN new = 1..M
      /\ ToSet(new) = ToSet(us) \intersect S
  <2>1. new \in Seq(Users)
    BY <1>4, AmongType
  <2>2. QED
    BY <1>4, <2>1, AmongInjective, AmongElements
<1> HIDE DEF us, e, new
<1>6. ASSUME NEW i \in 1..M PROVE /\ new[i] \in Users /\ added[new[i]] = 0 /\ new[i] \in Friends
                                  /\ record[new[i]] = <<>> /\ new[i] \in People
  <2>1. new[i] \in ToSet(new)
    BY <1>5 DEF ToSet
  <2>2. new[i] \in Users /\ added[new[i]] = 0 /\ new[i] \in ToSet(us)
    BY <1>5, <2>1
  <2>3. ToLoad(new[i], chatLoaded)
    BY <1>4, <2>2 DEF ToSet
  <2>4. new[i] \in Friends
    BY <1>1, <1>4, <2>3, LoadedIsFriend
  <2>5. QED
    BY <1>1, <2>2, <2>4 DEF RecordsAgree, People
<1>7. \A i, j \in 1..M : new[i] = new[j] => i = j
  BY <1>5 DEF IsInjective
<1> DEFINE tail == [i \in 1..Len(new) |-> ChatItem(new[i], record[new[i]])]
<1>8. /\ tail \in Seq(Items) /\ Len(tail) = M
      /\ \A i \in 1..M : tail[i].uid = new[i] /\ tail[i].msgs = record[new[i]]
  <2>1. \A i \in 1..M : tail[i] = [uid |-> new[i], msgs |-> record[new[i]]]
    BY DEF ChatItem
  <2>2. \A i \in 1..M : tail[i] \in Items
    <3>1. <<>> \in Conversations
      BY DEF Conversations
    <3>2. ASSUME NEW i \in 1..M PROVE tail[i] \in Items
      <4>1. new[i] \in People /\ record[new[i]] \in Conversations
        BY <1>6, <3>1
      <4>2. [uid |-> new[i], msgs |-> record[new[i]]] \in Items
        BY <4>1 DEF Items
      <4>3. QED
        BY <2>1, <4>2
    <3>3. QED
      BY <3>2
  <2>3. DOMAIN tail = 1..M /\ M \in Nat
    BY <1>5
  <2> HIDE DEF tail
  <2>4. QED
    <3>1. tail \in [1..M -> Items]
      <4>1. tail = [i \in 1..M |-> tail[i]]
        BY DEF tail
      <4>2. QED
        BY <2>2, <4>1
    <3>2. tail \in Seq(Items) /\ Len(tail) = M
      BY <2>3, <3>1
    <3>3. ASSUME NEW i \in 1..M PROVE tail[i].uid = new[i] /\ tail[i].msgs = record[new[i]]
      <4>1. tail[i] = [uid |-> new[i], msgs |-> record[new[i]]]
        BY <2>1
      <4>2. QED
        BY <4>1
    <3>4. QED
      BY <3>2, <3>3
<1>9. item \in Seq(Items) /\ L \in Nat /\ DOMAIN item = 1..L /\ added \in [People -> 0..L]
  BY <1>1 DEF TypeInv
<1>10. /\ item' \in Seq(Items) /\ Len(item') = L + M /\ DOMAIN item' = 1..(L + M)
       /\ \A i \in 1..L : item'[i] = item[i]
       /\ \A i \in 1..M : item'[L + i].uid = new[i] /\ item'[L + i].msgs = record[new[i]]
  <2>1. item' = item \o tail
    BY <1>2
  <2> HIDE DEF tail
  <2>2. /\ item' \in Seq(Items) /\ Len(item') = L + M
        /\ \A i \in 1..(L + M) : item'[i] = IF i <= L THEN item[i] ELSE tail[i - L]
    <3>1. /\ item \o tail \in Seq(Items) /\ Len(item \o tail) = Len(item) + Len(tail)
          /\ \A i \in 1..Len(item) + Len(tail) :
                (item \o tail)[i] = IF i <= Len(item) THEN item[i] ELSE tail[i - Len(item)]
      <4>1. item \in Seq(Items) /\ tail \in Seq(Items)
        BY <1>8, <1>9
      <4>2. QED
        BY <4>1, ConcatProperties
    <3>2. Len(tail) = M
      BY <1>8
    <3>3. QED
      BY <2>1, <3>1, <3>2
  <2>3. DOMAIN item' = 1..(L + M)
    BY <2>2
  <2>4. \A i \in 1..L : i \in 1..(L + M) /\ i <= L
    BY <1>5, <1>9
  <2>5. \A i \in 1..M : L + i \in 1..(L + M) /\ ~(L + i <= L) /\ (L + i) - L = i
    BY <1>5, <1>9
  <2>6. ASSUME NEW i \in 1..L PROVE item'[i] = item[i]
    BY <2>2, <2>4
  <2>7. ASSUME NEW i \in 1..M
        PROVE  item'[L + i].uid = new[i] /\ item'[L + i].msgs = record[new[i]]
    <3>1. item'[L + i] = tail[i]
      BY <2>2, <2>5
    <3>2. QED
      BY <1>8, <3>1
  <2>8. QED
    BY <2>2, <2>3, <2>6, <2>7
<1>11. /\ DOMAIN added' = People
       /\ \A i \in 1..M : added'[new[i]] = L + i
       /\ \A v \in People : (\A i \in 1..M : new[i] # v) => added'[v] = added[v]
  <2>1. DOMAIN added = People
    BY <1>9
  <2>2. ASSUME NEW i \in 1..M PROVE added'[new[i]] = L + i
    <3>1. (CHOOSE j \in 1..M : new[j] = new[i]) = i
      BY <1>7
    <3>2. new[i] \in DOMAIN added
      BY <1>6, <2>1
    <3>3. added'[new[i]] = L + CHOOSE j \in 1..M : new[j] = new[i]
      BY <1>2, <3>2
    <3>4. QED
      BY <3>1, <3>3
  <2>3. QED
    BY <1>2, <2>1, <2>2
<1>12. TypeInv'
  <2>1. added' \in [People -> 0..Len(item')]
    <3>1. ASSUME NEW v \in People PROVE added'[v] \in 0..(L + M)
      <4>1. CASE \E i \in 1..M : new[i] = v
        BY <1>5, <1>9, <1>11, <4>1
      <4>2. CASE \A i \in 1..M : new[i] # v
        <5>1. added'[v] = added[v] /\ added[v] \in 0..L
          BY <1>9, <1>11, <4>2
        <5>2. QED
          BY <1>5, <1>9, <5>1
      <4>3. QED
        BY <4>1, <4>2
    <3>2. added' = [v \in People |-> added'[v]]
      BY <1>2, <1>11
    <3>3. QED
      BY <1>10, <3>1, <3>2
  <2>2. first' \in 1..Len(item') /\ page' \in 1..Len(item')
    <3>1. first' \in 1..L /\ page' \in 1..L
      BY <1>1, <1>2, <1>3 DEF TypeInv
    <3>2. QED
      BY <1>5, <1>9, <1>10, <3>1
  <2>3. chatLoaded' \in 0..Len(friendList')
    BY <1>2, <1>3, <1>4
  <2>4. QED
    BY <1>1, <1>3, <1>10, <2>1, <2>2, <2>3 DEF TypeInv, Friends
<1>13. ItemsOfFriends'
  <2>1. ASSUME NEW v \in Users, added'[v] # 0 PROVE v \in Friends
    <3>1. CASE \E i \in 1..M : new[i] = v
      BY <1>6, <3>1
    <3>2. CASE \A i \in 1..M : new[i] # v
      <4>1. added[v] # 0
        BY <1>11, <2>1, <3>2 DEF People
      <4>2. QED
        BY <1>1, <4>1 DEF ItemsOfFriends, IsFriend
    <3>3. QED
      BY <3>1, <3>2
  <2>2. QED
    BY <1>3, <2>1 DEF ItemsOfFriends, IsFriend, Friends
<1>14. RecordsAgree'
  <2>1. ASSUME NEW v \in Friends
        PROVE  record[v] = IF added'[v] = 0 THEN <<>> ELSE item'[added'[v]].msgs
    <3>1. v \in Users /\ v \in People
      BY <1>1 DEF TypeInv, People
    <3>2. CASE \E i \in 1..M : new[i] = v
      <4>1. PICK i \in 1..M : new[i] = v
        BY <3>2
      <4>2. added'[v] = L + i /\ item'[L + i].msgs = record[v] /\ L + i # 0
        BY <1>5, <1>9, <1>10, <1>11, <4>1
      <4>3. QED
        BY <4>2
    <3>3. CASE \A i \in 1..M : new[i] # v
      <4>1. added'[v] = added[v] /\ added[v] \in 0..L
        BY <1>9, <1>11, <3>1, <3>3
      <4>2. added[v] # 0 => item'[added[v]] = item[added[v]]
        BY <1>9, <1>10, <4>1
      <4>3. QED
        BY <1>1, <4>1, <4>2 DEF RecordsAgree
    <3>4. QED
      BY <3>2, <3>3
  <2>2. QED
    BY <1>3, <2>1 DEF RecordsAgree, Friends
<1>15. PageShowsCurrent'
  <2>1. page \in 1..L /\ item'[page] = item[page]
    BY <1>1, <1>10 DEF TypeInv
  <2>2. cur # NoOne => added'[cur] = added[cur]
    <3>1. SUFFICES ASSUME cur # NoOne PROVE added'[cur] = added[cur]
      OBVIOUS
    <3>2. cur \in Users /\ added[cur] # 0
      BY <1>1, <3>1, CurHasItem
    <3>3. \A i \in 1..M : new[i] # cur
      BY <1>6, <3>2
    <3>4. QED
      BY <1>11, <3>2, <3>3 DEF People
  <2>3. QED
    BY <1>1, <1>3, <2>1, <2>2 DEF PageShowsCurrent, Recorded
<1>16. ContactsOnce'
  BY <1>1, <1>3 DEF ContactsOnce, ToLoad, IsFriend, Friends
<1>17. ItemsOnce'
  <2>1. ASSUME NEW v \in Users
        PROVE  {i \in DOMAIN item' : item'[i].uid = v} = {added'[v]} \ {0}
    <3>1. {i \in DOMAIN item : item[i].uid = v} = {added[v]} \ {0}
      BY <1>1 DEF ItemsOnce
    <3>2. \A i \in 1..(L + M) : i \in 1..L \/ \E j \in 1..M : i = L + j
      <4>1. ASSUME NEW i \in 1..(L + M), i \notin 1..L PROVE i - L \in 1..M /\ i = L + (i - L)
        BY <1>5, <1>9, <4>1
      <4>2. QED
        BY <4>1
    <3>3. \A i \in 1..L : i \in 1..(L + M)
      BY <1>5, <1>9
    <3>4. CASE \E j \in 1..M : new[j] = v
      <4>1. PICK j \in 1..M : new[j] = v
        BY <3>4
      <4>2. added'[v] = L + j /\ L + j # 0 /\ L + j \in 1..(L + M) /\ added[v] = 0
        BY <1>5, <1>6, <1>9, <1>11, <4>1
      <4>3. \A i \in 1..L : item'[i].uid # v
        BY <1>9, <1>10, <3>1, <4>2
      <4>4. \A n \in 1..M : item'[L + n].uid = v => n = j
        BY <1>7, <1>10, <4>1
      <4>5. item'[L + j].uid = v
        BY <1>10, <4>1
      <4>6. \A i \in DOMAIN item' : item'[i].uid = v <=> i = L + j
        BY <1>10, <3>2, <4>3, <4>4, <4>5
      <4>7. QED
        BY <1>10, <4>2, <4>6
    <3>5. CASE \A j \in 1..M : new[j] # v
      <4>1. added'[v] = added[v]
        BY <1>11, <3>5 DEF People
      <4>2. \A i \in DOMAIN item' : item'[i].uid = v <=> i \in 1..L /\ item[i].uid = v
        <5>1. ASSUME NEW i \in 1..(L + M), i \notin 1..L PROVE item'[i].uid # v
          <6>1. PICK j \in 1..M : i = L + j
            BY <3>2, <5>1
          <6>2. item'[L + j].uid = new[j] /\ new[j] # v
            BY <1>10, <3>5
          <6>3. QED
            BY <6>1, <6>2
        <5>2. QED
          BY <1>10, <5>1
      <4>3. {i \in DOMAIN item' : item'[i].uid = v} = {i \in DOMAIN item : item[i].uid = v}
        BY <1>9, <1>10, <3>3, <4>2
      <4>4. QED
        BY <3>1, <4>1, <4>3
    <3>6. QED
      BY <3>4, <3>5
  <2>2. ASSUME NEW v \in Users, v \in Friends
        PROVE  added'[v] # 0 \/ ToLoad(v, e)
    <3>1. CASE \E j \in 1..M : new[j] = v
      <4>1. PICK j \in 1..M : new[j] = v
        BY <3>1
      <4>2. added'[v] = L + j /\ L + j # 0
        BY <1>5, <1>9, <1>11, <4>1
      <4>3. QED
        BY <4>2
    <3>2. CASE \A j \in 1..M : new[j] # v
      <4>1. added'[v] = added[v]
        BY <1>11, <3>2 DEF People
      <4>2. CASE added[v] = 0
        <5>1. ToLoad(v, chatLoaded)
          BY <1>1, <2>2, <4>2 DEF ItemsOnce, IsFriend
        <5>2. v \notin ToSet(new)
          BY <1>5, <3>2 DEF ToSet
        <5>3. v \notin ToSet(us)
          BY <1>5, <4>2, <5>2
        <5>4. \A i \in DOMAIN us : us[i] # v
          BY <5>3 DEF ToSet
        <5>5. QED
          BY <1>4, <5>1, <5>4
      <4>3. QED
        BY <4>1, <4>2
    <3>3. QED
      BY <3>1, <3>2
  <2>3. QED
    BY <1>2, <1>3, <2>1, <2>2 DEF ItemsOnce, ToLoad, IsFriend, Friends
<1>18. QED
  BY <1>12, <1>13, <1>14, <1>15, <1>16, <1>17 DEF IInv

LEMMA LoadMoreConUserKeeps == IInv /\ LoadMoreConUser => IInv'
<1> SUFFICES ASSUME IInv, LoadMoreConUser PROVE IInv'
  OBVIOUS
<1> DEFINE e == PageEnd(contactLoaded)
           InPage(u) == \E i \in DOMAIN PerPage(contactLoaded) : PerPage(contactLoaded)[i] = u
<1>1. TypeInv /\ ItemsOfFriends /\ RecordsAgree /\ PageShowsCurrent /\ ContactsOnce /\ ItemsOnce
  BY DEF IInv
<1>2. /\ contacts' = [u \in DOMAIN contacts |-> contacts[u] + IF InPage(u) THEN 1 ELSE 0]
      /\ contactLoaded' = e
  BY DEF LoadMoreConUser
<1>3. UNCHANGED <<friendList, record, chatLoaded, item, first, added, cur, page, shown, msgs>>
  BY DEF LoadMoreConUser, Wheel, listVars, pageVars, bounds
<1>4. /\ e \in contactLoaded..Len(friendList) /\ Len(friendList) \in Nat /\ contactLoaded \in Nat
      /\ \A u : /\ ToLoad(u, contactLoaded) <=> InPage(u) \/ ToLoad(u, e)
                /\ ~(InPage(u) /\ ToLoad(u, e))
  <2>1. contactLoaded \in 0..Len(friendList)
    BY <1>1 DEF TypeInv
  <2>2. contactLoaded \in Nat
    BY <2>1
  <2>3. QED
    BY <1>1, <2>1, <2>2, PageOfFriends
<1> HIDE DEF e, InPage
<1>5. contacts \in [People -> Nat]
  BY <1>1 DEF TypeInv
<1>6. ContactsOnce'
  <2>1. ASSUME NEW u \in Users
        PROVE  contacts'[u] + (IF ToLoad(u, e) THEN 1 ELSE 0) = IF IsFriend(u) THEN 1 ELSE 0
    <3>1. u \in People /\ contacts[u] \in Nat
      BY <1>5 DEF People
    <3>2. contacts[u] + (IF ToLoad(u, contactLoaded) THEN 1 ELSE 0) = IF IsFriend(u) THEN 1 ELSE 0
      BY <1>1 DEF ContactsOnce
    <3>3. contacts'[u] = contacts[u] + IF InPage(u) THEN 1 ELSE 0
      BY <1>2, <1>5, <3>1
    <3>4. CASE InPage(u)
      BY <1>4, <3>1, <3>2, <3>3, <3>4
    <3>5. CASE ~InPage(u)
      BY <1>4, <3>1, <3>2, <3>3, <3>5
    <3>6. QED
      BY <3>4, <3>5
  <2>2. \A u : (ToLoad(u, contactLoaded)' <=> ToLoad(u, e)) /\ (IsFriend(u)' <=> IsFriend(u))
    BY <1>2, <1>3 DEF ToLoad, IsFriend, Friends
  <2>3. QED
    BY <2>1, <2>2 DEF ContactsOnce
<1>7. contacts' \in [People -> Nat]
  BY <1>2, <1>5
<1>8. contactLoaded' \in 0..Len(friendList)
  BY <1>2, <1>4
<1>9. TypeInv'
  BY <1>1, <1>3, <1>7, <1>8 DEF TypeInv, Friends
<1>10. ItemsOfFriends' /\ RecordsAgree' /\ PageShowsCurrent' /\ ItemsOnce'
  BY <1>1, <1>3 DEF ItemsOfFriends, RecordsAgree, PageShowsCurrent, ItemsOnce, ToLoad, Friends,
                    IsFriend, Recorded
<1>11. QED
  BY <1>6, <1>9, <1>10 DEF IInv

-----------------------------------------------------------------------------
(* Clicks, texts and bubbles.                                              *)
LEMMA SlotItemClickedKeeps ==
  ASSUME IInv, NEW i \in DOMAIN item, SlotItemClicked(i)
  PROVE  IInv'
<1>1. TypeInv /\ ItemsOfFriends /\ RecordsAgree /\ ContactsOnce /\ ItemsOnce
  BY DEF IInv
<1>2. /\ UNCHANGED <<friendList, record, chatLoaded, contactLoaded, contacts, item, first, added, msgs>>
      /\ cur' = item[i].uid /\ page' = i /\ shown' = item[i].msgs
  BY DEF SlotItemClicked, ShowItem, friendVars, listVars, bounds
<1>3. i \in 1..Len(item) /\ item \in Seq(Items)
  BY <1>1 DEF TypeInv
<1>4. item[i].uid \in People /\ item[i].msgs \in Seq(Nat)
  <2>1. item[i] \in Items
    BY <1>3, ElementOfSeq
  <2>2. item[i].uid \in People /\ item[i].msgs \in Seq(Nat \ {0})
    BY <2>1 DEF Items, Conversations
  <2>3. QED
    BY <2>2, SeqMonotonic
<1>5. TypeInv'
  BY <1>1, <1>2, <1>3, <1>4 DEF TypeInv, Friends
<1>6. ItemsOfFriends' /\ RecordsAgree' /\ ContactsOnce' /\ ItemsOnce'
  BY <1>1, <1>2 DEF ItemsOfFriends, RecordsAgree, ContactsOnce, ItemsOnce, ToLoad, Friends, IsFriend
<1>7. PageShowsCurrent'
  BY <1>2, <1>5, <1>6, PageOfItem
<1>8. QED
  BY <1>5, <1>6, <1>7 DEF IInv

LEMMA SlotTextChatMsgKeeps ==
  ASSUME IInv, NEW u \in Users, NEW n \in 0..2, SlotTextChatMsg(u, n)
  PROVE  IInv'
<1>1. TypeInv /\ ItemsOfFriends /\ RecordsAgree /\ ContactsOnce /\ ItemsOnce
  BY DEF IInv
<1>2. /\ IsFriend(u) /\ record' = [record EXCEPT ![u] = @ \o NewMsgs(n)] /\ msgs' = msgs + n
      /\ UNCHANGED <<friendList, chatLoaded, contactLoaded, contacts, cur, page>>
  BY DEF SlotTextChatMsg
<1>3. NewMsgs(n) \in Conversations /\ msgs' \in Nat
  <2>1. msgs \in Nat
    BY <1>1 DEF TypeInv
  <2>2. \A i \in 1..n : msgs + i \in Nat \ {0}
    BY <2>1
  <2>3. [i \in 1..n |-> msgs + i] \in [1..n -> Nat \ {0}] /\ n \in Nat
    BY <2>2
  <2>4. [i \in 1..n |-> msgs + i] \in Seq(Nat \ {0})
    BY <2>3
  <2>5. QED
    BY <1>2, <2>1, <2>4 DEF NewMsgs, Conversations
<1>4. CASE added[u] # 0
  <2>1. /\ item' = [item EXCEPT ![added[u]].msgs = @ \o NewMsgs(n)]
        /\ shown' = (IF cur = u THEN shown \o NewMsgs(n) ELSE shown)
        /\ UNCHANGED <<first, added>>
    BY <1>4 DEF SlotTextChatMsg
  <2> DEFINE ns == NewMsgs(n)
  <2>2. record' = [record EXCEPT ![u] = @ \o ns] /\ ns \in Conversations
    BY <1>2, <1>3
  <2>3. /\ item' = [item EXCEPT ![added[u]].msgs = @ \o ns]
        /\ shown' = (IF cur = u THEN shown \o ns ELSE shown)
    BY <2>1
  <2> HIDE DEF ns
  <2>4. QED
    BY <1>2, <1>3, <1>4, <2>1, <2>2, <2>3, MsgsAdded
<1>5. CASE added[u] = 0
  <2> DEFINE ns == NewMsgs(n)
  <2>1. InsertItem(u, record[u] \o ns) /\ UNCHANGED shown
    BY <1>5 DEF SlotTextChatMsg
  <2> HIDE DEF ns
  <2>2. ns \in Conversations
    BY <1>3 DEF ns
  <2>3. record[u] = <<>> /\ record[u] \o ns = ns
    <3>1. record[u] = <<>>
      BY <1>1, <1>2, <1>5 DEF RecordsAgree, IsFriend
    <3>2. <<>> \o ns = ns
      BY <2>2, ConcatEmptySeq DEF Conversations
    <3>3. QED
      BY <3>1, <3>2
  <2>4. InsertItem(u, ns)
    BY <2>1, <2>3
  <2>5. u \in People /\ u \in Friends /\ record \in [Friends -> Conversations]
    BY <1>1, <1>2 DEF TypeInv, People, IsFriend
  <2>6. record' \in [Friends -> Conversations] /\ record'[u] = ns
        /\ \A v \in Friends \ {u} : record'[v] = record[v]
    <3>1. record' = [record EXCEPT ![u] = ns]
      BY <1>2, <2>3 DEF ns
    <3>2. QED
      BY <2>2, <2>5, <3>1
  <2>7. Friends' = Friends /\ Friends' = Friends \union ({u} \intersect Users)
    <3>1. Friends' = Friends
      BY <2>6 DEF Friends
    <3>2. QED
      BY <2>5, <3>1
  <2>8. PageShowsCurrent' /\ page' \in 1..(Len(item) + 1) /\ cur' \in People /\ shown' \in Seq(Nat)
    BY <1>2, <1>5, <2>1, <2>2, <2>4, <2>5, PageKept DEF pageVars
  <2>9. TypeInv' /\ ItemsOfFriends' /\ RecordsAgree' /\ ItemsOnce'
    <3>1. contacts' \in [People -> Nat]
      BY <1>1, <1>2 DEF TypeInv
    <3>2. QED
      BY <1>2, <1>3, <1>5, <2>2, <2>4, <2>5, <2>6, <2>7, <2>8, <3>1, Inserted
  <2>10. ContactsOnce'
    BY <1>1, <1>2, <2>7 DEF ContactsOnce, ToLoad, IsFriend
  <2>11. QED
    BY <2>8, <2>9, <2>10 DEF IInv
<1>6. QED
  BY <1>4, <1>5

LEMMA SendTextKeeps == IInv /\ SendText => IInv'
<1> SUFFICES ASSUME IInv, SendText PROVE IInv'
  OBVIOUS
<1> DEFINE m == msgs + 1
<1>1. TypeInv /\ ItemsOfFriends /\ RecordsAgree /\ PageShowsCurrent /\ ContactsOnce /\ ItemsOnce
  BY DEF IInv
<1>2. /\ UNCHANGED <<friendList, chatLoaded, contactLoaded, contacts, first, added, cur, page>>
      /\ msgs' = m /\ shown' = Append(shown, m)
  BY DEF SendText
<1>3. msgs \in Nat /\ m \in Nat \ {0} /\ shown \in Seq(Nat) /\ msgs' \in Nat
  BY <1>1, <1>2 DEF TypeInv
<1>4. Append(shown, m) = shown \o <<m>> /\ <<m>> \in Conversations
  <2>1. m \in Nat
    BY <1>3
  <2> HIDE DEF m
  <2>2. QED
    BY <1>3, <2>1, AppendIsConcat DEF Conversations
<1>5. CASE cur # NoOne
  <2>1. cur \in Users /\ added[cur] # 0 /\ added[cur] \in 1..Len(item)
    BY <1>1, <1>5, CurHasItem
  <2>2. IsFriend(cur) /\ cur \in Friends
    BY <1>1, <2>1 DEF ItemsOfFriends, IsFriend
  <2>3. /\ item' = [item EXCEPT ![added[cur]].msgs = Append(item[added[cur]].msgs, m)]
        /\ record' = [record EXCEPT ![cur] = Append(record[cur], m)]
    <3>1. record \in [Friends -> Conversations] /\ item \in Seq(Items)
      BY <1>1 DEF TypeInv
    <3>2. QED
      BY <1>5, <2>1, <2>2, <3>1 DEF SendText
  <2>4. item[added[cur]].msgs \in Conversations /\ record[cur] \in Conversations
    <3>1. item[added[cur]] \in Items
      BY <1>1, <2>1, ElementOfSeq DEF TypeInv
    <3>2. QED
      BY <1>1, <2>2, <3>1 DEF TypeInv, Items
  <2> DEFINE ns == <<m>>
  <2>5. /\ Append(item[added[cur]].msgs, m) = item[added[cur]].msgs \o ns
        /\ Append(record[cur], m) = record[cur] \o ns
    <3> HIDE DEF m
    <3>1. QED
      BY <1>3, <2>4, AppendIsConcat DEF Conversations
  <2>6. ns \in Conversations /\ shown' = shown \o ns
    BY <1>2, <1>4
  <2> HIDE DEF ns
  <2>7. /\ item' = [item EXCEPT ![added[cur]].msgs = @ \o ns]
        /\ record' = [record EXCEPT ![cur] = @ \o ns]
    BY <2>3, <2>5
  <2>8. shown' = IF cur = cur THEN shown \o ns ELSE shown
    BY <2>6
  <2>9. QED
    BY <1>2, <1>3, <2>1, <2>2, <2>6, <2>7, <2>8, MsgsAdded
<1>6. CASE cur = NoOne
  <2>1. UNCHANGED <<item, record>>
    BY <1>6 DEF SendText
  <2>2. shown' \in Seq(Nat)
    BY <1>2, <1>3
  <2>3. TypeInv'
    BY <1>1, <1>2, <1>3, <2>1, <2>2 DEF TypeInv, Friends
  <2>4. ItemsOfFriends' /\ RecordsAgree' /\ ContactsOnce' /\ ItemsOnce'
    BY <1>1, <1>2, <2>1 DEF ItemsOfFriends, RecordsAgree, ContactsOnce, ItemsOnce, ToLoad, Friends, IsFriend
  <2>5. PageShowsCurrent'
    BY <1>1, <1>2, <1>6, <2>1 DEF PageShowsCurrent
  <2>6. QED
    BY <2>3, <2>4, <2>5 DEF IInv
<1>7. QED
  BY <1>5, <1>6

LEMMA ShowBubbleKeeps == IInv /\ ShowBubble => IInv'
<1> SUFFICES ASSUME IInv, ShowBubble PROVE IInv'
  OBVIOUS
<1>1. TypeInv /\ ItemsOfFriends /\ RecordsAgree /\ PageShowsCurrent /\ ContactsOnce /\ ItemsOnce
  BY DEF IInv
<1>2. /\ UNCHANGED <<friendList, record, chatLoaded, contactLoaded, contacts, item, first, added,
                     cur, page, msgs>>
      /\ shown' = Append(shown, 0)
  BY DEF ShowBubble, friendVars, listVars
<1>3. shown \in Seq(Nat) /\ shown' \in Seq(Nat)
  BY <1>1, <1>2 DEF TypeInv
<1>4. Recorded(shown)' = Recorded(shown)
  BY <1>2, <1>3, AmongAppend DEF Recorded
<1>5. TypeInv'
  BY <1>1, <1>2, <1>3 DEF TypeInv, Friends
<1>6. ItemsOfFriends' /\ RecordsAgree' /\ ContactsOnce' /\ ItemsOnce'
  BY <1>1, <1>2 DEF ItemsOfFriends, RecordsAgree, ContactsOnce, ItemsOnce, ToLoad, Friends, IsFriend
<1>7. PageShowsCurrent'
  BY <1>1, <1>2, <1>4 DEF PageShowsCurrent
<1>8. QED
  BY <1>5, <1>6, <1>7 DEF IInv

-----------------------------------------------------------------------------
(* New friends.  Whichever notice of him comes first makes the friend, and *)
(* the other finds one.                                                    *)
LEMMA BefriendKeeps ==
  ASSUME IInv, NEW u \in Users, Befriend(u),
         UNCHANGED <<friendList, chatLoaded, contactLoaded, pageVars, msgs>>
  PROVE  IInv'
<1>1. TypeInv /\ ItemsOfFriends /\ RecordsAgree /\ PageShowsCurrent /\ ContactsOnce /\ ItemsOnce
  BY DEF IInv
<1>2. /\ record' = [v \in Friends \union {u} |-> IF IsFriend(v) THEN record[v] ELSE <<>>]
      /\ record \in [Friends -> Conversations]
  BY <1>1 DEF Befriend, TypeInv
<1>3. CASE IsFriend(u)
  <2>1. UNCHANGED <<contacts, item, first, added>>
    BY <1>3 DEF Befriend, AddContact, listVars
  <2>2. record' = record
    <3>1. Friends \union {u} = Friends
      BY <1>3 DEF IsFriend
    <3>2. record' = [v \in Friends |-> record[v]]
      BY <1>2, <3>1 DEF IsFriend
    <3>3. QED
      BY <1>2, <3>2
  <2>3. UNCHANGED core
    BY <2>1, <2>2 DEF core, pageVars
  <2>4. QED
    BY <2>3, CoreUnchanged
<1>4. CASE ~IsFriend(u)
  <2>1. added[u] = 0 /\ u \in People /\ u \notin Friends
    BY <1>1, <1>4 DEF ItemsOfFriends, IsFriend, People
  <2>2. InsertItem(u, <<>>) /\ contacts' = [contacts EXCEPT ![u] = @ + 1]
    BY <1>4 DEF Befriend, AddContact
  <2>3. <<>> \in Conversations
    BY DEF Conversations
  <2>4. /\ record' \in [Friends \union {u} -> Conversations] /\ record'[u] = <<>>
        /\ \A v \in Friends \ {u} : record'[v] = record[v]
    BY <1>2, <1>4, <2>3 DEF IsFriend
  <2>5. Friends' = Friends \union {u} /\ Friends' = Friends \union ({u} \intersect Users)
    BY <2>4 DEF Friends
  <2>6. contacts \in [People -> Nat] /\ contacts' \in [People -> Nat]
    BY <1>1, <2>1, <2>2 DEF TypeInv
  <2>7. PageShowsCurrent' /\ page' \in 1..(Len(item) + 1) /\ cur' \in People /\ shown' \in Seq(Nat)
    BY <2>1, <2>2, <2>3, PageKept
  <2>8. TypeInv' /\ ItemsOfFriends' /\ RecordsAgree' /\ ItemsOnce'
    <3>1. record' \in [Friends' -> Conversations] /\ msgs' \in Nat
      BY <1>1, <2>4, <2>5 DEF TypeInv
    <3>2. QED
      BY <2>1, <2>2, <2>3, <2>4, <2>5, <2>6, <2>7, <3>1, Inserted
  <2>9. ContactsOnce'
    <3>1. ASSUME NEW v \in Users
          PROVE  contacts'[v] + (IF ToLoad(v, contactLoaded) THEN 1 ELSE 0)
                   = IF v \in Friends' THEN 1 ELSE 0
      <4>1. contacts[v] + (IF ToLoad(v, contactLoaded) THEN 1 ELSE 0) = IF v \in Friends THEN 1 ELSE 0
        BY <1>1 DEF ContactsOnce, IsFriend
      <4>2. v \in People /\ contacts[v] \in Nat
        BY <2>6 DEF People
      <4>3. CASE v = u
        <5>1. contacts[v] = 0 /\ ~ToLoad(v, contactLoaded)
          BY <2>1, <4>1, <4>2, <4>3
        <5>2. contacts'[v] = 1
          BY <2>2, <2>6, <4>2, <4>3, <5>1
        <5>3. QED
          BY <2>5, <4>3, <5>1, <5>2
      <4>4. CASE v # u
        BY <2>2, <2>5, <2>6, <4>1, <4>2, <4>4
      <4>5. QED
        BY <4>3, <4>4
    <3>2. QED
      BY <3>1 DEF ContactsOnce, ToLoad, IsFriend
  <2>10. QED
    BY <2>7, <2>8, <2>9 DEF IInv
<1>5. QED
  BY <1>3, <1>4

-----------------------------------------------------------------------------
(* A jump goes to a friend, or to a simulated entry.                       *)
LEMMA JumpToKeeps ==
  ASSUME IInv, NEW u \in People, u \in Users => IsFriend(u), JumpTo(u)
  PROVE  IInv'
<1>1. TypeInv /\ ItemsOfFriends /\ RecordsAgree /\ PageShowsCurrent /\ ContactsOnce /\ ItemsOnce
  BY DEF IInv
<1>2. UNCHANGED <<friendList, record, chatLoaded, contactLoaded, contacts, msgs>>
  BY DEF JumpTo, friendVars, bounds
<1>3. item \in Seq(Items) /\ added \in [People -> 0..Len(item)] /\ first \in 1..Len(item)
      /\ Len(item) \in Nat
  BY <1>1 DEF TypeInv
<1>4. CASE added[u] # 0
  <2> DEFINE i == IF u = NoOne THEN first ELSE added[u]
  <2>1. i \in 1..Len(item)
    <3>1. added[u] \in 0..Len(item)
      BY <1>3
    <3>2. QED
      BY <1>3, <1>4, <3>1
  <2>2. cur' = item[i].uid /\ page' = i /\ shown' = item[i].msgs /\ UNCHANGED <<item, first, added>>
    BY <1>4 DEF JumpTo, Select, ShowItem, listVars
  <2> HIDE DEF i
  <2>3. item[i].uid \in People /\ item[i].msgs \in Seq(Nat)
    <3>1. item[i] \in Items
      BY <1>3, <2>1, ElementOfSeq
    <3>2. item[i].uid \in People /\ item[i].msgs \in Seq(Nat \ {0})
      BY <3>1 DEF Items, Conversations
    <3>3. QED
      BY <3>2, SeqMonotonic
  <2>4. TypeInv'
    BY <1>1, <1>2, <2>1, <2>2, <2>3 DEF TypeInv, Friends
  <2>5. ItemsOfFriends' /\ RecordsAgree' /\ ContactsOnce' /\ ItemsOnce'
    BY <1>1, <1>2, <2>2 DEF ItemsOfFriends, RecordsAgree, ContactsOnce, ItemsOnce, ToLoad, Friends,
                            IsFriend
  <2>6. PageShowsCurrent'
    BY <2>2, <2>4, <2>5, PageOfItem
  <2>7. QED
    BY <2>4, <2>5, <2>6 DEF IInv
<1>5. CASE added[u] = 0
  <2>1. InsertItem(u, <<>>) /\ <<>> \in Conversations
    BY <1>5 DEF JumpTo, Conversations
  <2>2. /\ cur' = item'[Len(item) + 1].uid /\ page' = Len(item) + 1
        /\ shown' = item'[Len(item) + 1].msgs
    BY <1>5 DEF JumpTo, Select, ShowItem
  <2>3. item'[Len(item) + 1] = [uid |-> u, msgs |-> <<>>]
    BY <1>1, <1>5, <2>1, InsertEffect
  <2>4. cur' \in People /\ page' \in 1..(Len(item) + 1) /\ shown' \in Seq(Nat)
    BY <1>3, <2>2, <2>3
  <2>5. Friends' = Friends /\ Friends' = Friends \union ({u} \intersect Users)
    <3>1. {u} \intersect Users \subseteq Friends
      BY DEF IsFriend
    <3>2. Friends' = Friends
      BY <1>2 DEF Friends
    <3>3. QED
      BY <3>1, <3>2
  <2>6. u \in Users => record'[u] = <<>>
    BY <1>1, <1>2, <1>5 DEF RecordsAgree, IsFriend
  <2>7. /\ record' \in [Friends' -> Conversations] /\ contacts' \in [People -> Nat] /\ msgs' \in Nat
        /\ \A v \in Friends \ {u} : record'[v] = record[v]
    BY <1>1, <1>2, <2>5 DEF TypeInv
  <2>8. TypeInv' /\ ItemsOfFriends' /\ RecordsAgree' /\ ItemsOnce'
    BY <1>2, <1>5, <2>1, <2>4, <2>5, <2>6, <2>7, Inserted
  <2>9. ContactsOnce'
    BY <1>1, <1>2, <2>5 DEF ContactsOnce, ToLoad, IsFriend
  <2>10. PageShowsCurrent'
    BY <2>2, <2>8, PageOfItem
  <2>11. QED
    BY <2>8, <2>9, <2>10 DEF IInv
<1>6. QED
  BY <1>4, <1>5

-----------------------------------------------------------------------------
(* The steps together.                                                     *)
LEMMA StepInv == IInv /\ [Next]_vars => IInv'
<1> SUFFICES ASSUME IInv, [Next]_vars PROVE IInv'
  OBVIOUS
<1>1. CASE LoadMoreChatUser
  BY <1>1, LoadMoreChatUserKeeps
<1>2. CASE LoadMoreConUser
  BY <1>2, LoadMoreConUserKeeps
<1>3. CASE Quit
  BY <1>3, CoreUnchanged DEF Quit, core, friendVars, listVars, pageVars, bounds
<1>4. CASE SendText
  BY <1>4, SendTextKeeps
<1>5. CASE ShowBubble
  BY <1>5, ShowBubbleKeeps
<1>6. ASSUME NEW i \in DOMAIN item, SlotItemClicked(i) PROVE IInv'
  BY <1>6, SlotItemClickedKeeps
<1>7. ASSUME NEW u \in Users, NEW n \in 0..2, SlotTextChatMsg(u, n) PROVE IInv'
  BY <1>7, SlotTextChatMsgKeeps
<1>8. ASSUME NEW u \in Users, SlotAddAuthFriend(u) PROVE IInv'
  BY <1>8, BefriendKeeps DEF SlotAddAuthFriend
<1>9. ASSUME NEW u \in Users, AuthFriend(u) PROVE IInv'
  BY <1>9, CoreUnchanged DEF AuthFriend, core, friendVars, listVars, pageVars
<1>10. ASSUME NEW u \in Users, SlotAuthRsp(u) PROVE IInv'
  BY <1>10, BefriendKeeps DEF SlotAuthRsp, bounds
<1>11. ASSUME NEW u \in Users, SlotApplyFriend(u) PROVE IInv'
  BY <1>11, CoreUnchanged DEF SlotApplyFriend, core, friendVars, listVars, pageVars
<1>12. ASSUME NEW u \in Users, SlotUserSearch(u) PROVE IInv'
  BY <1>12, JumpToKeeps DEF SlotUserSearch, People
<1>13. ASSUME NEW u \in Users \union {NoOne}, SlotJumpFromInfoPage(u) PROVE IInv'
  <2>1. contacts[u] > 0 /\ JumpTo(u) /\ u \in People /\ TypeInv /\ ContactsOnce
    BY <1>13 DEF SlotJumpFromInfoPage, People, IInv
  <2>2. u \in Users => IsFriend(u)
    BY <2>1, ContactIsFriend
  <2>3. QED
    BY <2>1, <2>2, JumpToKeeps
<1>14. CASE UNCHANGED vars
  BY <1>14, CoreUnchanged DEF vars, core, friendVars, listVars, pageVars, bounds
<1>15. ASSUME NEW u \in Users, StrangerTexts(u) PROVE IInv'
  BY <1>15, CoreUnchanged DEF StrangerTexts, core, friendVars, listVars, pageVars, bounds
<1>16. QED
  BY <1>1, <1>2, <1>3, <1>4, <1>5, <1>6, <1>7, <1>8, <1>9, <1>10, <1>11, <1>12, <1>13, <1>14,
     <1>15 DEF Next

(* The login's answer, and the dialog that is built from it.               *)
LEMMA InitInv == Init => IInv
<1> SUFFICES ASSUME Init PROVE IInv
  OBVIOUS
<1> DEFINE e == PageEnd(0)  s == [i \in 1..e |-> ChatItem(friendList[i], <<>>)]
           x == ChatItem(NoOne, <<>>)
<1>1. friendList \in Seq(Users) /\ IsInjective(friendList) /\ NoOne \notin Users
  BY ClientAssumption DEF Init
<1>2. Len(friendList) \in Nat /\ DOMAIN friendList = 1..Len(friendList)
  BY <1>1
<1>3. e \in 0..Len(friendList) /\ e \in Nat
  <2>1. PageSize \in Nat
    BY ClientAssumption
  <2>2. QED
    BY <1>2, <2>1 DEF PageEnd
<1>4. \A i \in 1..e : i \in 1..Len(friendList) /\ friendList[i] \in Users /\ friendList[i] # NoOne
  <2>1. ASSUME NEW i \in 1..e
        PROVE  i \in 1..Len(friendList) /\ friendList[i] \in Users /\ friendList[i] # NoOne
    <3>1. i \in 1..Len(friendList)
      BY <1>2, <1>3
    <3>2. QED
      BY <1>1, <3>1, ElementOfSeq
  <2>2. QED
    BY <2>1
<1>5. \A i, j \in 1..e : friendList[i] = friendList[j] => i = j
  BY <1>1, <1>2, <1>4 DEF IsInjective
<1>6. /\ record = [u \in ToSet(friendList) |-> <<>>]
      /\ chatLoaded = e /\ contactLoaded = e
      /\ contacts = [u \in People |-> IF u = NoOne \/ \E i \in 1..e : friendList[i] = u THEN 1 ELSE 0]
      /\ item = Append(s, x)
      /\ added = [u \in People |->
           IF \E i \in 1..e : friendList[i] = u
           THEN CHOOSE i \in 1..e : friendList[i] = u ELSE 0]
      /\ first = 1 /\ page = 1 /\ cur = item[1].uid /\ shown = <<>> /\ msgs = 0
  BY DEF Init, People
<1> HIDE DEF e
<1>7. <<>> \in Conversations /\ x \in Items /\ x = [uid |-> NoOne, msgs |-> <<>>]
      /\ NoOne \in People
  BY DEF Conversations, Items, People, ChatItem
<1>8. s \in Seq(Items) /\ Len(s) = e /\ \A i \in 1..e : s[i] = [uid |-> friendList[i], msgs |-> <<>>]
  <2>1. \A i \in 1..e : s[i] = [uid |-> friendList[i], msgs |-> <<>>]
    BY DEF ChatItem
  <2>2. ASSUME NEW i \in 1..e PROVE s[i] \in Items
    <3>1. friendList[i] \in People
      BY <1>4 DEF People
    <3>2. [uid |-> friendList[i], msgs |-> <<>>] \in Items
      BY <1>7, <3>1 DEF Items
    <3>3. QED
      BY <2>1, <3>2
  <2>3. s = [i \in 1..e |-> s[i]]
    OBVIOUS
  <2> HIDE DEF s
  <2>4. s \in [1..e -> Items]
    BY <2>2, <2>3
  <2>5. QED
    BY <1>3, <2>1, <2>4
<1> HIDE DEF s, x
<1>9. /\ item \in Seq(Items) /\ Len(item) = e + 1 /\ DOMAIN item = 1..(e + 1)
      /\ \A i \in 1..e : item[i] = [uid |-> friendList[i], msgs |-> <<>>]
      /\ item[e + 1] = [uid |-> NoOne, msgs |-> <<>>]
  <2>1. /\ item \in Seq(Items) /\ Len(item) = e + 1 /\ DOMAIN item = 1..(e + 1)
        /\ \A i \in 1..e : item[i] = s[i]
        /\ item[e + 1] = x
    BY <1>3, <1>6, <1>7, <1>8
  <2>2. QED
    BY <1>7, <1>8, <2>1
<1>10. \A i \in 1..(e + 1) : item[i].msgs = <<>>
  <2>1. \A i \in 1..(e + 1) : i \in 1..e \/ i = e + 1
    BY <1>3
  <2>2. ASSUME NEW i \in 1..(e + 1) PROVE item[i].msgs = <<>>
    <3>1. CASE i = e + 1
      BY <1>9, <3>1
    <3>2. CASE i \in 1..e
      <4>1. item[i] = [uid |-> friendList[i], msgs |-> <<>>]
        BY <1>9, <3>2
      <4>2. QED
        BY <4>1
    <3>3. QED
      BY <2>1, <3>1, <3>2
  <2>3. QED
    BY <2>2
<1>11. ASSUME NEW u \in People
       PROVE  /\ \A i \in 1..e : friendList[i] = u => added[u] = i
              /\ (\A i \in 1..e : friendList[i] # u) => added[u] = 0
  <2>1. ASSUME NEW i \in 1..e, friendList[i] = u PROVE added[u] = i
    <3>1. (CHOOSE j \in 1..e : friendList[j] = u) = i
      BY <1>5, <2>1
    <3>2. QED
      BY <1>6, <2>1, <3>1
  <2>2. QED
    BY <1>6, <2>1
<1>12. Friends = ToSet(friendList) /\ ToSet(friendList) \subseteq Users
       /\ \A u : u \in Friends <=> \E i \in 1..Len(friendList) : friendList[i] = u
  <2>1. Friends = ToSet(friendList)
    BY <1>6 DEF Friends
  <2>2. \A i \in 1..Len(friendList) : friendList[i] \in Users
    BY <1>1, ElementOfSeq
  <2>3. ToSet(friendList) = {friendList[i] : i \in 1..Len(friendList)}
    BY <1>2 DEF ToSet
  <2>4. QED
    BY <2>1, <2>2, <2>3
<1>13. ASSUME NEW u
       PROVE  u \in Friends <=> (\E i \in 1..e : friendList[i] = u) \/ ToLoad(u, e)
  <2>1. \A i \in 1..Len(friendList) : i \in 1..e \/ i \in (e + 1)..Len(friendList)
    BY <1>2, <1>3
  <2>2. \A i \in (e + 1)..Len(friendList) : i \in 1..Len(friendList)
    BY <1>2, <1>3
  <2>3. QED
    BY <1>4, <1>12, <2>1, <2>2 DEF ToLoad
<1>14. ASSUME NEW u, \E i \in 1..e : friendList[i] = u PROVE ~ToLoad(u, e)
  <2>1. PICK i \in 1..e : friendList[i] = u
    BY <1>14
  <2>2. ASSUME NEW j \in (e + 1)..Len(friendList) PROVE friendList[j] # u
    <3>1. j \in 1..Len(friendList) /\ i # j /\ i \in 1..Len(friendList)
      BY <1>2, <1>3, <1>4
    <3>2. QED
      BY <1>1, <1>2, <2>1, <3>1 DEF IsInjective
  <2>3. QED
    BY <2>2 DEF ToLoad
<1>15. TypeInv
  <2>1. record \in [Friends -> Conversations]
    BY <1>6, <1>7, <1>12
  <2>2. added \in [People -> 0..Len(item)]
    <3>1. ASSUME NEW u \in People PROVE added[u] \in 0..(e + 1)
      <4>1. CASE \E i \in 1..e : friendList[i] = u
        <5>1. PICK i \in 1..e : friendList[i] = u
          BY <4>1
        <5>2. added[u] = i
          BY <1>11, <5>1
        <5>3. QED
          BY <1>3, <5>2
      <4>2. CASE \A i \in 1..e : friendList[i] # u
        BY <1>3, <1>11, <4>2
      <4>3. QED
        BY <4>1, <4>2
    <3>2. added = [u \in People |-> added[u]]
      BY <1>6
    <3>3. QED
      BY <1>9, <3>1, <3>2
  <2>3. 1 \in 1..Len(item)
    BY <1>3, <1>9
  <2>4. cur \in People
    <3>1. item[1] \in Items
      BY <1>9, <2>3, ElementOfSeq
    <3>2. QED
      BY <1>6, <3>1 DEF Items
  <2>5. contacts \in [People -> Nat] /\ shown \in Seq(Nat) /\ msgs \in Nat
    BY <1>6
  <2>6. chatLoaded \in 0..Len(friendList) /\ contactLoaded \in 0..Len(friendList)
    BY <1>3, <1>6
  <2>7. QED
    BY <1>1, <1>6, <1>9, <1>12, <2>1, <2>2, <2>3, <2>4, <2>5, <2>6 DEF TypeInv
<1>16. ItemsOfFriends
  <2>1. ASSUME NEW u \in Users, added[u] # 0 PROVE u \in Friends
    <3>1. \E i \in 1..e : friendList[i] = u
      BY <1>11, <2>1 DEF People
    <3>2. QED
      BY <1>13, <3>1
  <2>2. QED
    BY <2>1 DEF ItemsOfFriends, IsFriend
<1>17. RecordsAgree
  <2>1. ASSUME NEW u \in Friends
        PROVE  record[u] = IF added[u] = 0 THEN <<>> ELSE item[added[u]].msgs
    <3>1. record[u] = <<>> /\ u \in People
      BY <1>6, <1>12 DEF People
    <3>2. ASSUME added[u] # 0 PROVE item[added[u]].msgs = <<>>
      <4>1. added[u] \in 1..(e + 1)
        BY <1>3, <1>9, <1>15, <3>1, <3>2 DEF TypeInv
      <4>2. QED
        BY <1>10, <4>1
    <3>3. QED
      BY <3>1, <3>2
  <2>2. QED
    BY <2>1 DEF RecordsAgree
<1>18. ContactsOnce
  <2>1. ASSUME NEW u \in Users
        PROVE  contacts[u] + (IF ToLoad(u, e) THEN 1 ELSE 0) = IF u \in Friends THEN 1 ELSE 0
    <3>1. u # NoOne /\ u \in People
      BY <1>1 DEF People
    <3>2. CASE \E i \in 1..e : friendList[i] = u
      BY <1>6, <1>13, <1>14, <3>1, <3>2
    <3>3. CASE ~ \E i \in 1..e : friendList[i] = u
      BY <1>6, <1>13, <3>1, <3>3
    <3>4. QED
      BY <3>2, <3>3
  <2>2. QED
    BY <1>6, <2>1 DEF ContactsOnce, IsFriend
<1>19. ItemsOnce
  <2>1. \A i \in 1..(e + 1) : i \in 1..e \/ i = e + 1
    BY <1>3
  <2>2. \A i \in 1..e : i \in 1..(e + 1) /\ i # 0
    BY <1>3
  <2>3. ASSUME NEW u \in Users
        PROVE  {i \in DOMAIN item : item[i].uid = u} = {added[u]} \ {0}
    <3>1. \A i \in DOMAIN item : item[i].uid = u <=> i \in 1..e /\ friendList[i] = u
      <4>1. ASSUME NEW i \in 1..(e + 1) PROVE item[i].uid = u <=> i \in 1..e /\ friendList[i] = u
        <5>1. CASE i \in 1..e
          <6>1. item[i] = [uid |-> friendList[i], msgs |-> <<>>]
            BY <1>9, <5>1
          <6>2. QED
            BY <5>1, <6>1
        <5>2. CASE i \notin 1..e
          BY <1>1, <1>9, <2>1, <5>2
        <5>3. QED
          BY <5>1, <5>2
      <4>2. QED
        BY <1>9, <4>1
    <3>2. CASE \E i \in 1..e : friendList[i] = u
      <4>1. PICK i \in 1..e : friendList[i] = u
        BY <3>2
      <4>2. added[u] = i /\ i # 0
        BY <1>11, <2>2, <4>1 DEF People
      <4>3. \A j \in DOMAIN item : item[j].uid = u <=> j = i
        BY <1>5, <1>9, <2>2, <3>1, <4>1
      <4>4. QED
        BY <1>9, <2>2, <4>2, <4>3
    <3>3. CASE \A i \in 1..e : friendList[i] # u
      <4>1. added[u] = 0
        BY <1>11, <3>3 DEF People
      <4>2. QED
        BY <3>1, <3>3, <4>1
    <3>4. QED
      BY <3>2, <3>3
  <2>4. ASSUME NEW u \in Friends PROVE added[u] # 0 \/ ToLoad(u, e)
    <3>1. CASE \E i \in 1..e : friendList[i] = u
      <4>1. PICK i \in 1..e : friendList[i] = u
        BY <3>1
      <4>2. u \in People
        BY <1>12 DEF People
      <4>3. added[u] = i
        BY <1>11, <4>1, <4>2
      <4>4. QED
        BY <2>2, <4>3
    <3>2. CASE ~ \E i \in 1..e : friendList[i] = u
      BY <1>13, <3>2
    <3>3. QED
      BY <3>1, <3>2
  <2>5. QED
    BY <1>6, <2>3, <2>4 DEF ItemsOnce, IsFriend
<1>20. PageShowsCurrent
  <2>1. page = 1 /\ item[page].uid = cur /\ item[page].msgs = <<>> /\ Recorded(shown) = <<>>
    <3>1. 1 \in 1..(e + 1)
      BY <1>3
    <3>2. QED
      BY <1>6, <1>10, <3>1, AmongEmpty DEF Recorded
  <2>2. ASSUME cur # NoOne PROVE added[cur] = page
    <3>1. cur \in Users
      BY <1>15, <2>2 DEF TypeInv, People
    <3>2. 1 \in {i \in DOMAIN item : item[i].uid = cur}
      BY <1>3, <1>9, <2>1
    <3>3. {i \in DOMAIN item : item[i].uid = cur} = {added[cur]} \ {0}
      BY <1>19, <3>1 DEF ItemsOnce
    <3>4. QED
      BY <2>1, <3>2, <3>3
  <2>3. QED
    BY <2>1, <2>2 DEF PageShowsCurrent
<1>21. QED
  BY <1>15, <1>16, <1>17, <1>18, <1>19, <1>20 DEF IInv

LEMMA Invariant == Spec => []IInv
<1>1. Init => IInv
  BY InitInv
<1>2. IInv /\ [Next]_vars => IInv'
  BY StepInv
<1>3. QED
  BY <1>1, <1>2, PTL DEF Spec

-----------------------------------------------------------------------------
(* Records only grow.                                                      *)
LEMMA PrefixOf ==
  ASSUME NEW S, NEW s \in Seq(S), NEW t \in Seq(S)
  PROVE  IsPrefix(s, s) /\ IsPrefix(s, s \o t)
<1>1. Len(s) \in Nat /\ Len(s) <= Len(s)
  OBVIOUS
<1>2. IsPrefix(s, s)
  BY <1>1 DEF IsPrefix
<1>3. s \o t \in Seq(S) /\ Len(s \o t) = Len(s) + Len(t) /\ Len(t) \in Nat
  OBVIOUS
<1>4. SubSeq(s, 1, Len(s)) = SubSeq(s \o t, 1, Len(s))
  <2>1. CASE s = <<>>
    <3>1. Len(s) = 0
      BY <2>1
    <3>2. SubSeq(s, 1, 0) = <<>> /\ SubSeq(s \o t, 1, 0) = <<>>
      BY SubSeqEmpty
    <3>3. QED
      BY <3>1, <3>2
  <2>2. CASE s # <<>>
    <3>1. 1 \in 1..Len(s) /\ Len(s) \in 1..Len(s)
      BY <1>1, <2>2, EmptySeq
    <3>2. QED
      BY <3>1, SubSeqOfConcat1
  <2>3. QED
    BY <2>1, <2>2
<1>5. QED
  BY <1>1, <1>2, <1>3, <1>4 DEF IsPrefix

LEMMA StepRecordsKept ==
  IInv /\ [Next]_vars => \A u \in Friends : u \in DOMAIN record' /\ IsPrefix(record[u], record'[u])
<1> SUFFICES ASSUME IInv, [Next]_vars, NEW u \in Friends
             PROVE  u \in DOMAIN record' /\ IsPrefix(record[u], record'[u])
  OBVIOUS
<1>1. record \in [Friends -> Conversations] /\ record[u] \in Seq(Nat \ {0}) /\ msgs \in Nat
  BY DEF IInv, TypeInv, Conversations
<1>2. ASSUME record' = record PROVE u \in DOMAIN record' /\ IsPrefix(record[u], record'[u])
  BY <1>1, <1>2, PrefixOf
<1>3. ASSUME NEW v \in Users, NEW n \in 0..2, SlotTextChatMsg(v, n)
      PROVE  u \in DOMAIN record' /\ IsPrefix(record[u], record'[u])
  <2>1. record' = [record EXCEPT ![v] = @ \o NewMsgs(n)]
    BY <1>3 DEF SlotTextChatMsg
  <2>2. NewMsgs(n) \in Seq(Nat \ {0})
    <3>1. \A i \in 1..n : msgs + i \in Nat \ {0}
      BY <1>1
    <3>2. [i \in 1..n |-> msgs + i] \in [1..n -> Nat \ {0}] /\ n \in Nat
      BY <3>1
    <3>3. QED
      BY <3>2 DEF NewMsgs
  <2> DEFINE ns == NewMsgs(n)
  <2>3. record' = [record EXCEPT ![v] = @ \o ns] /\ ns \in Seq(Nat \ {0})
    BY <2>1, <2>2
  <2> HIDE DEF ns
  <2>4. IsPrefix(record[u], record[u]) /\ IsPrefix(record[u], record[u] \o ns)
    BY <1>1, <2>3, PrefixOf
  <2>5. QED
    BY <1>1, <2>3, <2>4
<1>4. CASE SendText
  <2> DEFINE m == msgs + 1
  <2>1. record' = record \/ record' = [record EXCEPT ![cur] = Append(@, m)]
    BY <1>4 DEF SendText
  <2>2. m \in Nat \ {0}
    BY <1>1
  <2> HIDE DEF m
  <2>3. Append(record[u], m) = record[u] \o <<m>> /\ <<m>> \in Seq(Nat \ {0})
    BY <1>1, <2>2, AppendIsConcat
  <2>4. IsPrefix(record[u], record[u]) /\ IsPrefix(record[u], Append(record[u], m))
    BY <1>1, <2>3, PrefixOf
  <2>5. QED
    BY <1>1, <2>1, <2>4
<1>5. ASSUME NEW v \in Users, Befriend(v)
      PROVE  u \in DOMAIN record' /\ IsPrefix(record[u], record'[u])
  <2>1. u \in DOMAIN record' /\ record'[u] = record[u]
    BY <1>5 DEF Befriend, IsFriend
  <2>2. QED
    BY <1>1, <2>1, PrefixOf
<1>6. CASE LoadMoreChatUser \/ LoadMoreConUser \/ Quit \/ ShowBubble \/ UNCHANGED vars
  <2>1. record' = record
    BY <1>6 DEF LoadMoreChatUser, LoadMoreConUser, Wheel, Quit, ShowBubble, vars, friendVars
  <2>2. QED
    BY <1>2, <2>1
<1>7. CASE \E i \in DOMAIN item : SlotItemClicked(i)
  BY <1>2, <1>7 DEF SlotItemClicked, friendVars
<1>8. CASE \E v \in Users : AuthFriend(v) \/ SlotApplyFriend(v) \/ SlotUserSearch(v)
                           \/ StrangerTexts(v)
  BY <1>2, <1>8 DEF StrangerTexts, AuthFriend, SlotApplyFriend, SlotUserSearch, JumpTo, friendVars
<1>9. CASE \E v \in Users \union {NoOne} : SlotJumpFromInfoPage(v)
  BY <1>2, <1>9 DEF SlotJumpFromInfoPage, JumpTo, friendVars
<1>10. CASE \E v \in Users : SlotAddAuthFriend(v) \/ SlotAuthRsp(v)
  BY <1>5, <1>10 DEF SlotAddAuthFriend, SlotAuthRsp
<1>11. QED
  BY <1>3, <1>4, <1>6, <1>7, <1>8, <1>9, <1>10 DEF Next

-----------------------------------------------------------------------------
(* The variables keep their types: item, page and row numbers stay within  *)
(* the list, which is what the pointers into the list widgets rely on, and *)
(* only friends have chat items.                                           *)
THEOREM ClientTypesCorrect == Spec => [](TypeInv /\ ItemsOfFriends)
<1>1. IInv => TypeInv /\ ItemsOfFriends
  BY DEF IInv
<1>2. QED
  BY <1>1, Invariant, PTL

(* The two copies of every conversation, in FriendInfo and in the UserInfo *)
(* of the chat item, agree whatever the order in which pages were loaded,  *)
(* friends made, texts received and sent (slot_text_chat_msg,              *)
(* slot_append_send_chat_msg and the four places that make a chat item).   *)
THEOREM RecordsAgreeCorrect == Spec => []RecordsAgree
<1>1. IInv => RecordsAgree
  BY DEF IInv
<1>2. QED
  BY <1>1, Invariant, PTL

(* The page shows the conversation of the person whom a sent text is       *)
(* recorded for, and all of it (SetSelectChatPage, slot_item_clicked,      *)
(* UpdateChatMsg, ChatPage::SetUserInfo).                                  *)
THEOREM PageCorrect == Spec => []PageShowsCurrent
<1>1. IInv => PageShowsCurrent
  BY DEF IInv
<1>2. QED
  BY <1>1, Invariant, PTL

(* A friend has one contact entry, or gets it with a page that is still to *)
(* be loaded, and nobody else has one: although two notices may announce   *)
(* him, and both widgets' slots ask whether he is a friend already         *)
(* (ContactUserList::slot_add_auth_firend, slot_auth_rsp).                 *)
THEOREM ContactsCorrect == Spec => []ContactsOnce
<1>1. IInv => ContactsOnce
  BY DEF IInv
<1>2. QED
  BY <1>1, Invariant, PTL

(* A person has one chat item at most, the one that _chat_items_added      *)
(* finds, and a friend has one or gets it with a page still to be loaded.  *)
THEOREM ItemsCorrect == Spec => []ItemsOnce
<1>1. IInv => ItemsOnce
  BY DEF IInv
<1>2. QED
  BY <1>1, Invariant, PTL

(* No step forgets or reorders a message of a friend's record: the empty   *)
(* record that AddFriend starts is never given to a friend.                *)
THEOREM RecordsKeptCorrect == Spec => RecordsKept
<1>1. IInv /\ [Next]_vars =>
        [\A u \in Friends : u \in DOMAIN record' /\ IsPrefix(record[u], record'[u])]_vars
  BY StepRecordsKept
<1>2. QED
  BY <1>1, Invariant, PTL DEF Spec, RecordsKept

-----------------------------------------------------------------------------
(* The parser of the TCP stream, for any number of frames of any lengths   *)
(* and any cuts of the stream.  As long as no call has read a second       *)
(* header the front of the buffer is known: it is the beginning of the     *)
(* frame after the last one handled, or, once its header has been read, of *)
(* its body.                                                               *)
NextFrame == Len(handled) + 1

InBody == at = "body" \/ recv_pending

(* A header has been read, and it is the next frame's. *)
BodyKnown ==
    /\ NextFrame <= N
    /\ consumed = Offset[NextFrame] + HEAD
    /\ message = NextFrame
    /\ message_len = BodyLen(NextFrame)

FrontKnown == NextFrame <= N + 1 /\ consumed = Offset[NextFrame]

Aligned ==
    ~reread =>
        /\ InOrder
        /\ InBody => BodyKnown
        /\ ~InBody => FrontKnown

(* A call returns only when the next frame, or its header, is incomplete. *)
Waiting ==
    at = "idle" =>
        /\ recv_pending => BufferSize < message_len
        /\ ~recv_pending => BufferSize < HEAD

BodyAfterHeader == at = "body" => ~recv_pending

TcpInv == TcpTypeOK /\ CutsWithinBuffer /\ BodyAfterHeader /\ Aligned /\ Waiting

-----------------------------------------------------------------------------
(* A frame has room for its header; the stream ends after all frames.      *)
LEMMA OffsetFacts ==
  /\ \A i \in 1..N + 1 : Offset[i] \in Nat /\ Offset[i] <= Offset[N + 1]
  /\ \A i \in 1..N : BodyLen(i) \in Nat /\ Offset[i] + HEAD + BodyLen(i) = Offset[i + 1]
  /\ \A i, j \in 1..N + 1 : Offset[i] = Offset[j] => i = j
BY TcpFramingAssumption DEF BodyLen, HEAD

LEMMA TcpInitInv == TcpInit => TcpInv
<1> SUFFICES ASSUME TcpInit PROVE TcpInv
  OBVIOUS
<1>0. N \in Nat /\ Offset[N + 1] \in Nat
  BY TcpFramingAssumption, OffsetFacts
<1>1. TcpTypeOK /\ CutsWithinBuffer /\ BodyAfterHeader
  <2>1. received \in 0..Offset[N + 1] /\ message \in 0..N
    BY <1>0 DEF TcpInit
  <2>2. handled \in Seq(0..N)
    BY DEF TcpInit
  <2>3. consumed \in Nat /\ pos \in Nat /\ message_len \in Nat /\ consumed <= received
    BY DEF TcpInit
  <2>4. recv_pending \in BOOLEAN /\ reread \in BOOLEAN
    BY DEF TcpInit
  <2>5. QED
    BY <2>1, <2>2, <2>3, <2>4 DEF TcpInit, TcpTypeOK, CutsWithinBuffer, BodyAfterHeader
<1>2. Aligned
  BY TcpFramingAssumption DEF TcpInit, Aligned, InOrder, InBody, FrontKnown, NextFrame
<1>3. Waiting
  BY DEF TcpInit, Waiting, BufferSize, HEAD
<1>4. QED
  BY <1>1, <1>2, <1>3 DEF TcpInv

LEMMA ReadyReadInv == TcpInv /\ ReadyRead => TcpInv'
<1> SUFFICES ASSUME TcpInv, ReadyRead PROVE TcpInv'
  OBVIOUS
<1>1. received' \in 0..Offset[N + 1] /\ received <= received'
  BY OffsetFacts, TcpFramingAssumption DEF ReadyRead, TcpInv, TcpTypeOK
<1>2. TcpTypeOK' /\ CutsWithinBuffer'
  BY <1>1 DEF ReadyRead, TcpInv, TcpTypeOK, CutsWithinBuffer
<1>3. BodyAfterHeader' /\ Waiting'
  BY DEF ReadyRead, BodyAfterHeader, Waiting
<1>4. Aligned'
  BY DEF ReadyRead, TcpInv, Aligned, InOrder, InBody, BodyKnown, FrontKnown, NextFrame
<1>5. QED
  BY <1>2, <1>3, <1>4 DEF TcpInv

LEMMA WaitsInv == TcpInv /\ (WaitsForHeader \/ WaitsForBody) => TcpInv'
<1> SUFFICES ASSUME TcpInv, WaitsForHeader \/ WaitsForBody PROVE TcpInv'
  OBVIOUS
<1>1. TcpTypeOK' /\ CutsWithinBuffer' /\ BodyAfterHeader'
  BY DEF WaitsForHeader, WaitsForBody, TcpInv, TcpTypeOK, CutsWithinBuffer, BodyAfterHeader
<1>2. Waiting'
  BY DEF WaitsForHeader, WaitsForBody, Incomplete, Waiting, BufferSize
<1>3. Aligned'
  BY DEF WaitsForHeader, WaitsForBody, AtBody, TcpInv, Aligned, InOrder, InBody, BodyKnown,
         FrontKnown, NextFrame, BodyAfterHeader
<1>4. QED
  BY <1>1, <1>2, <1>3 DEF TcpInv

(* A header read at the front of the buffer is that of the next frame.     *)
LEMMA FrontHeader ==
  ASSUME TcpInv, ReadsHeader, ~reread'
  PROVE  /\ NextFrame \in 1..N
         /\ consumed = Offset[NextFrame]
         /\ message' = NextFrame /\ message_len' = BodyLen(NextFrame)
<1>1. ~reread /\ pos = 0 /\ ~InBody
  <2>1. reread' = (reread \/ pos > 0) /\ at = "loop" /\ ~recv_pending
    BY DEF ReadsHeader
  <2>2. ~reread /\ ~(pos > 0)
    BY <2>1
  <2>3. QED
    BY <2>1, <2>2 DEF TcpInv, TcpTypeOK, InBody
<1>2. NextFrame \in 1..N + 1 /\ consumed = Offset[NextFrame]
  BY <1>1 DEF TcpInv, TcpTypeOK, Aligned, FrontKnown, NextFrame
<1>3. consumed + HEAD <= received /\ received <= Offset[N + 1]
  BY OffsetFacts, TcpFramingAssumption DEF ReadsHeader, BufferSize, HEAD, TcpInv, TcpTypeOK
<1>4. NextFrame \in 1..N
  BY <1>2, <1>3, OffsetFacts, TcpFramingAssumption DEF HEAD, TcpInv, TcpTypeOK
<1>5. HeaderAt(consumed, message', message_len')
  BY <1>1 DEF ReadsHeader, TcpInv, TcpTypeOK
<1>6. PICK i \in 1..N : Offset[i] = consumed /\ message' = i /\ message_len' = BodyLen(i)
  BY <1>2, <1>3, <1>4, <1>5, OffsetFacts DEF HeaderAt, HEAD, TcpInv, TcpTypeOK
<1>7. i = NextFrame
  BY <1>2, <1>4, <1>6, OffsetFacts, TcpFramingAssumption
<1>8. QED
  BY <1>2, <1>4, <1>6, <1>7

LEMMA ReadsHeaderInv == TcpInv /\ ReadsHeader => TcpInv'
<1> SUFFICES ASSUME TcpInv, ReadsHeader PROVE TcpInv'
  OBVIOUS
<1>1. message' \in 0..N /\ message_len' \in Nat
  <2>1. HeaderAt(consumed + pos, message', message_len')
    BY DEF ReadsHeader
  <2>2. N \in Nat /\ BadLens \subseteq Nat /\ \A i \in 1..N : BodyLen(i) \in Nat
    BY OffsetFacts, TcpFramingAssumption
  <2>3. message' = 0 \/ \E i \in 1..N : message' = i
    BY <2>1 DEF HeaderAt
  <2>4. message_len' = 0 \/ message_len' \in BadLens \/ \E i \in 1..N : message_len' = BodyLen(i)
    BY <2>1 DEF HeaderAt
  <2>5. message' \in 0..N
    BY <2>2, <2>3
  <2>6. message_len' \in Nat
    <3>1. CASE message_len' \in BadLens
      BY <2>2, <3>1
    <3>2. CASE \E i \in 1..N : message_len' = BodyLen(i)
      BY <2>2, <3>2
    <3>3. CASE message_len' = 0
      BY <3>3
    <3>4. QED
      BY <2>4, <3>1, <3>2, <3>3
  <2>7. QED
    BY <2>5, <2>6
<1>2. consumed' \in Nat /\ consumed' <= received
  BY OffsetFacts, TcpFramingAssumption DEF ReadsHeader, BufferSize, HEAD, TcpInv, TcpTypeOK
<1>3. TcpTypeOK'
  BY <1>1, <1>2 DEF ReadsHeader, HEAD, TcpInv, TcpTypeOK
<1>4. CutsWithinBuffer' /\ BodyAfterHeader' /\ Waiting'
  BY <1>2 DEF ReadsHeader, CutsWithinBuffer, BodyAfterHeader, Waiting
<1>5. ASSUME ~reread' PROVE InOrder' /\ BodyKnown' /\ InBody'
  <2>1. ~reread
    BY <1>5 DEF ReadsHeader
  <2>2. InOrder'
    BY <2>1 DEF ReadsHeader, TcpInv, Aligned, InOrder
  <2>3. BodyKnown' /\ InBody'
    BY <1>5, FrontHeader DEF ReadsHeader, BodyKnown, InBody, NextFrame, BodyLen, TcpInv, TcpTypeOK
  <2>4. QED
    BY <2>2, <2>3
<1>6. QED
  BY <1>3, <1>4, <1>5 DEF TcpInv, Aligned

LEMMA HandlesMsgInv == TcpInv /\ HandlesMsg => TcpInv'
<1> SUFFICES ASSUME TcpInv, HandlesMsg PROVE TcpInv'
  OBVIOUS
<1> DEFINE m == IF IsBody(message) THEN message ELSE 0
<1>1. m \in 0..N /\ handled \in Seq(0..N)
  BY TcpFramingAssumption DEF TcpInv, TcpTypeOK
<1>2. /\ handled' \in Seq(0..N) /\ Len(handled') = Len(handled) + 1
      /\ \A i \in DOMAIN handled' :
            handled'[i] = IF i = Len(handled) + 1 THEN m ELSE handled[i]
  BY <1>1 DEF HandlesMsg
<1>3. consumed' \in Nat /\ consumed' <= received
  BY OffsetFacts, TcpFramingAssumption DEF HandlesMsg, Incomplete, BufferSize, CutsWithinBuffer, TcpInv, TcpTypeOK
<1>4. TcpTypeOK'
  BY <1>2, <1>3 DEF HandlesMsg, TcpInv, TcpTypeOK
<1>5. CutsWithinBuffer' /\ BodyAfterHeader' /\ Waiting'
  BY <1>3 DEF HandlesMsg, CutsWithinBuffer, BodyAfterHeader, Waiting
<1>6. ASSUME ~reread' PROVE InOrder' /\ FrontKnown' /\ ~InBody'
  <2>1. InOrder /\ BodyKnown
    BY <1>6 DEF HandlesMsg, AtBody, InBody, TcpInv, Aligned
  <2>2. NextFrame \in 1..N
    BY <2>1 DEF BodyKnown, NextFrame, TcpInv, TcpTypeOK
  <2>3. m = NextFrame
    BY <2>1, <2>2 DEF BodyKnown, IsBody
  <2>4. InOrder'
    BY <1>1, <1>2, <2>1, <2>3 DEF InOrder, NextFrame
  <2>5. consumed' = Offset[NextFrame + 1]
    BY <2>1, <2>2, OffsetFacts, TcpFramingAssumption DEF HandlesMsg, BodyKnown
  <2>6. NextFrame' = NextFrame + 1 /\ NextFrame' <= N + 1
    BY <1>1, <1>2, <2>2, TcpFramingAssumption DEF NextFrame
  <2>7. FrontKnown' /\ ~InBody'
    BY <2>5, <2>6 DEF HandlesMsg, FrontKnown, InBody
  <2>8. QED
    BY <2>4, <2>7
<1>7. QED
  BY <1>4, <1>5, <1>6 DEF TcpInv, Aligned

LEMMA TcpStepInv == TcpInv /\ [TcpNext]_tcp_vars => TcpInv'
<1> SUFFICES ASSUME TcpInv, [TcpNext]_tcp_vars PROVE TcpInv'
  OBVIOUS
<1>1. CASE UNCHANGED tcp_vars
  BY <1>1 DEF tcp_vars, TcpInv, TcpTypeOK, CutsWithinBuffer, BodyAfterHeader, Aligned, Waiting, InOrder,
              InBody, BodyKnown, FrontKnown, NextFrame, BufferSize
<1>2. CASE TcpNext
  BY <1>2, ReadyReadInv, WaitsInv, ReadsHeaderInv, HandlesMsgInv DEF TcpNext, Loop
<1>3. QED
  BY <1>1, <1>2

LEMMA TcpInvariant == TcpSpec => []TcpInv
<1>1. QED
  BY TcpInitInv, TcpStepInv, PTL DEF TcpSpec

-----------------------------------------------------------------------------
(* The variables of the parser keep their types, and the buffer is never   *)
(* cut beyond its end, also after a header has been misread.               *)
THEOREM BufferCorrect == TcpSpec => [](TcpTypeOK /\ CutsWithinBuffer)
<1>1. TcpInv => TcpTypeOK /\ CutsWithinBuffer
  BY DEF TcpInv
<1>2. QED
  BY <1>1, TcpInvariant, PTL

(* While no call has read two headers, frames of any lengths are handled   *)
(* whole and in order, however TCP cuts the stream.                        *)
THEOREM OrderCorrect == TcpSpec => []HandledInOrder
<1>1. TcpInv => HandledInOrder
  BY DEF TcpInv, Aligned, HandledInOrder
<1>2. QED
  BY <1>1, TcpInvariant, PTL

(* ... and when a call returns every complete frame has been handled.      *)
THEOREM NothingWithheldCorrect == TcpSpec => []NothingWithheld
<1>1. TcpInv => NothingWithheld
  <2> SUFFICES ASSUME TcpInv, at = "idle", ~reread,
                      NEW i \in 1..N, Offset[i + 1] <= received
               PROVE  i <= Len(handled)
    BY DEF NothingWithheld
  <2>1. Len(handled) \in Nat /\ received \in Nat /\ consumed \in Nat
    BY OffsetFacts, TcpFramingAssumption DEF TcpInv, TcpTypeOK
  <2>2. Offset[i] + HEAD <= received
    BY <2>1, OffsetFacts, TcpFramingAssumption DEF HEAD
  <2>3. CASE recv_pending
    <3>1. BodyKnown /\ received - consumed < message_len
      BY <2>3 DEF TcpInv, Aligned, InBody, Waiting, BufferSize
    <3>2. NextFrame \in 1..N
      BY <2>1, <3>1 DEF BodyKnown, NextFrame
    <3>3. received < Offset[NextFrame + 1]
      BY <2>1, <3>1, <3>2, OffsetFacts, TcpFramingAssumption DEF BodyKnown, HEAD
    <3>4. ~(NextFrame < i + 1)  \/ i = NextFrame
      BY <2>1, <3>2, <3>3, OffsetFacts, TcpFramingAssumption DEF HEAD
    <3>5. i # NextFrame
      BY <2>1, <3>3, OffsetFacts, TcpFramingAssumption
    <3>6. QED
      BY <2>1, <3>4, <3>5 DEF NextFrame
  <2>4. CASE ~recv_pending
    <3>1. FrontKnown /\ received - consumed < HEAD
      BY <2>4 DEF TcpInv, Aligned, InBody, Waiting, BufferSize
    <3>2. NextFrame \in 1..N + 1 /\ received < Offset[NextFrame] + HEAD
      BY <2>1, <3>1, OffsetFacts DEF FrontKnown, NextFrame, HEAD
    <3>3. ~(NextFrame <= i)
      BY <2>1, <2>2, <3>2, OffsetFacts, TcpFramingAssumption DEF HEAD
    <3>4. QED
      BY <2>1, <3>2, <3>3 DEF NextFrame
  <2>5. QED
    BY <2>3, <2>4
<1>2. QED
  BY <1>1, TcpInvariant, PTL

(* What is left to do in a call, in bytes of the buffer and because a body *)
(* comes before the next header.                                           *)
Left == 2 * BufferSize + IF AtBody THEN 1 ELSE 0
Advances == Left' \in Nat /\ (at' = "idle" \/ Left' < Left)

LEMMA LoopAdvances == TcpInv /\ TcpInv' /\ Loop => Advances
<1> SUFFICES ASSUME TcpInv, TcpInv', Loop PROVE Advances
  OBVIOUS
<1>1. /\ received' \in Nat /\ consumed' \in Nat /\ consumed' <= received'
      /\ received \in Nat /\ consumed \in Nat /\ message_len \in Nat
  BY OffsetFacts, TcpFramingAssumption DEF TcpInv, TcpTypeOK, CutsWithinBuffer
<1>2. Left' \in Nat
  <2>1. \A p, q \in Nat : q <= p => p - q \in Nat
    OBVIOUS
  <2>2. BufferSize' \in Nat
    BY <1>1, <2>1 DEF BufferSize
  <2>3. \A p \in Nat : 2 * p \in Nat /\ 2 * p + 1 \in Nat /\ 2 * p + 0 \in Nat
    OBVIOUS
  <2>4. 2 * BufferSize' + 1 \in Nat /\ 2 * BufferSize' + 0 \in Nat
    BY <2>2, <2>3
  <2>5. Left' = 2 * BufferSize' + IF AtBody' THEN 1 ELSE 0
    BY DEF Left
  <2>6. QED
    BY <2>4, <2>5
<1>3. CASE WaitsForHeader \/ WaitsForBody
  BY <1>2, <1>3 DEF Advances, WaitsForHeader, WaitsForBody
<1>4. CASE ReadsHeader
  <2>1. ~AtBody /\ BufferSize' = BufferSize - HEAD /\ BufferSize \in Int
    BY <1>1, <1>4 DEF ReadsHeader, AtBody, BufferSize, HEAD
  <2>2. QED
    BY <1>2, <2>1 DEF Advances, Left, HEAD
<1>5. CASE HandlesMsg
  <2>1. AtBody /\ ~AtBody' /\ BufferSize' = BufferSize - message_len /\ BufferSize \in Int
    BY <1>1, <1>5 DEF HandlesMsg, AtBody, BufferSize
  <2>2. QED
    BY <1>1, <1>2, <2>1 DEF Advances, Left
<1>6. QED
  BY <1>3, <1>4, <1>5 DEF Loop

(* Why a call returns (CallReturns, which needs the fairness of its turns):*)
(* every turn of the handler's loop ends the call or leaves less to do.    *)
THEOREM CallAdvances == TcpSpec => [][Loop => Advances]_tcp_vars
<1>1. TcpInv /\ TcpInv' /\ [TcpNext]_tcp_vars => [Loop => Advances]_tcp_vars
  BY LoopAdvances
<1>2. QED
  BY <1>1, TcpInvariant, PTL DEF TcpSpec
=============================================================================
