-------------------------- MODULE TurnQueue_proofs --------------------------
(***************************************************************************)
(* For every number of callers, every bound of the line and every number   *)
(* of tickets: the tickets admit one caller at a time, the line never      *)
(* stops at a ticket nobody holds, its length is counted exactly, and the  *)
(* tickets implement Line.  IInv of TurnQueue is the inductive invariant:  *)
(* it pairs the tickets from `serving` on with the callers in line, which  *)
(* none of these says alone.                                               *)
(***************************************************************************)
EXTENDS TurnQueue, FiniteSetTheorems, FunctionTheorems, SequenceTheorems, SequencesExt, TLAPS

\* The invariant holds in the initial state.
LEMMA InitIInv == Init => IInv
  BY QueueAssumption DEF Init, IInv, TypeOK, Places, LiveTickets, TicketsApart,
     GoneAhead, EveryTicketAccounted

\* Taking a ticket keeps the pairing: the new ticket is the caller's alone.
LEMMA EnterIInv == ASSUME NEW c \in Callers, IInv, Enter(c) PROVE IInv'
<1> USE QueueAssumption DEF IInv, TypeOK, Enter, Places
<1>1. /\ next_ticket \in Nat /\ serving \in Nat /\ MaxTickets \in Nat
      /\ serving <= next_ticket /\ next_ticket < MaxTickets
      /\ next_ticket' = next_ticket + 1
      /\ pc' \in [Callers -> Places] /\ ticket' \in [Callers -> 0..MaxTickets]
  OBVIOUS
<1>2. TypeOK' /\ (serving <= next_ticket)'
  BY <1>1
<1>3. LiveTickets'
  BY <1>1 DEF LiveTickets, GoneAhead
<1>4. TicketsApart'
  BY <1>1 DEF TicketsApart, LiveTickets
<1>5. GoneAhead'
  BY <1>1 DEF GoneAhead
<1>6. EveryTicketAccounted'
  <2> SUFFICES ASSUME NEW t \in serving..next_ticket, t \notin gone
               PROVE  \E d \in Callers : pc'[d] # "idle" /\ ticket'[d] = t
    BY <1>1 DEF EveryTicketAccounted
  <2>1. CASE t = next_ticket
    BY <2>1, <1>1
  <2>2. CASE t # next_ticket
    <3>1. PICK d \in Callers : pc[d] # "idle" /\ ticket[d] = t
      BY <2>2, <1>1 DEF EveryTicketAccounted
    <3>2. d # c
      BY <3>1
    <3> QED BY <3>1, <3>2
  <2> QED BY <2>1, <2>2
<1> QED BY <1>2, <1>3, <1>4, <1>5, <1>6

\* A step that only moves a caller between two live places, and to "running"
\* only at its turn, keeps the pairing.
LEMMA MoveIInv ==
  ASSUME NEW c \in Callers, IInv, pc[c] # "idle",
         NEW p \in {"waiting", "asking", "running"},
         pc' = [pc EXCEPT ![c] = p],
         p = "running" => serving = ticket[c],
         UNCHANGED <<next_ticket, serving, gone, ticket, turned_away>>
  PROVE  IInv'
<1> USE QueueAssumption DEF IInv, TypeOK, Places
<1>1. TypeOK' /\ (serving <= next_ticket)' /\ GoneAhead'
  BY DEF GoneAhead
<1>2. LiveTickets'
  BY DEF LiveTickets
<1>3. TicketsApart'
  BY DEF TicketsApart
<1>4. EveryTicketAccounted'
  BY DEF EveryTicketAccounted
<1> QED BY <1>1, <1>2, <1>3, <1>4

\* Giving a place back keeps the pairing: the ticket moves from the caller to
\* `gone`, and it is not the one being served.
LEMMA AnswerGoneIInv == ASSUME NEW c \in Callers, IInv, AnswerGone(c) PROVE IInv'
<1> USE QueueAssumption DEF IInv, TypeOK, AnswerGone, Places
<1>1. TypeOK' /\ (serving <= next_ticket)'
  OBVIOUS
<1>2. LiveTickets'
  BY DEF LiveTickets, TicketsApart
<1>3. TicketsApart'
  BY DEF TicketsApart
<1>4. GoneAhead'
  BY DEF GoneAhead, LiveTickets
<1>5. EveryTicketAccounted'
  BY DEF EveryTicketAccounted
<1> QED BY <1>1, <1>2, <1>3, <1>4, <1>5

\* Leaving keeps the pairing: the tickets passed over were all given up.
LEMMA LeaveIInv == ASSUME NEW c \in Callers, IInv, Leave(c) PROVE IInv'
<1> USE QueueAssumption DEF IInv, TypeOK, Leave, Places
<1>1. PICK t \in 0..next_ticket : /\ SkipsTo(serving + 1, t)
                                  /\ serving' = t
                                  /\ gone' = gone \ ((serving + 1)..(t - 1))
  OBVIOUS
<1>2. /\ t \in Nat /\ serving \in Nat /\ next_ticket \in Nat
      /\ t >= serving + 1 /\ t \notin gone
      /\ \A u \in (serving + 1)..(t - 1) : u \in gone
      /\ ticket[c] = serving
  BY <1>1 DEF SkipsTo, LiveTickets
<1>3. TypeOK' /\ (serving <= next_ticket)'
  BY <1>1, <1>2
<1>4. ASSUME NEW d \in Callers, pc'[d] # "idle"
      PROVE  d # c /\ pc[d] # "idle" /\ ticket[d] >= t /\ pc[d] # "running"
  <2>1. d # c /\ pc[d] # "idle"
    BY <1>4
  <2>2. ticket[d] # serving
    BY <2>1, <1>2 DEF TicketsApart, LiveTickets
  <2>3. ticket[d] \in Nat /\ ticket[d] > serving /\ ticket[d] \notin gone
    BY <2>1, <2>2 DEF LiveTickets
  <2> QED BY <2>1, <2>2, <2>3, <1>2 DEF LiveTickets
<1>5. LiveTickets'
  BY <1>1, <1>2, <1>4 DEF LiveTickets
<1>6. TicketsApart'
  BY <1>4 DEF TicketsApart
<1>7. GoneAhead'
  BY <1>1, <1>2 DEF GoneAhead
<1>8. EveryTicketAccounted'
  <2> SUFFICES ASSUME NEW u \in t..(next_ticket - 1), u \notin gone'
               PROVE  \E d \in Callers : pc'[d] # "idle" /\ ticket'[d] = u
    BY <1>1 DEF EveryTicketAccounted
  <2>1. u \notin gone /\ u \in serving..(next_ticket - 1)
    BY <1>1, <1>2
  <2>2. PICK d \in Callers : pc[d] # "idle" /\ ticket[d] = u
    BY <2>1 DEF EveryTicketAccounted
  <2>3. d # c
    BY <2>2, <1>2
  <2> QED BY <2>2, <2>3
<1> QED BY <1>3, <1>5, <1>6, <1>7, <1>8

\* Every step of the line keeps the invariant.
LEMMA NextIInv == IInv /\ [Next]_vars => IInv'
<1> SUFFICES ASSUME IInv, [Next]_vars PROVE IInv'
  OBVIOUS
<1>1. ASSUME UNCHANGED vars PROVE IInv'
  BY <1>1 DEF vars, IInv, TypeOK, LiveTickets, TicketsApart, GoneAhead, EveryTicketAccounted
<1>2. ASSUME NEW c \in Callers, EnterFull(c) PROVE IInv'
  BY <1>2 DEF EnterFull, IInv, TypeOK, LiveTickets, TicketsApart, GoneAhead, EveryTicketAccounted
<1>3. ASSUME NEW c \in Callers, Enter(c) PROVE IInv'
  BY <1>3, EnterIInv
<1>4. ASSUME NEW c \in Callers, WakeServed(c) PROVE IInv'
  BY <1>4, MoveIInv DEF WakeServed
<1>5. ASSUME NEW c \in Callers, WakeAsk(c) PROVE IInv'
  BY <1>5, MoveIInv DEF WakeAsk
<1>6. ASSUME NEW c \in Callers, AnswerStay(c) PROVE IInv'
  <2>1. CASE serving = ticket[c]
    BY <1>6, <2>1, MoveIInv DEF AnswerStay
  <2>2. CASE serving # ticket[c]
    BY <1>6, <2>2, MoveIInv DEF AnswerStay
  <2> QED BY <2>1, <2>2
<1>7. ASSUME NEW c \in Callers, AnswerGone(c) PROVE IInv'
  BY <1>7, AnswerGoneIInv
<1>8. ASSUME NEW c \in Callers, Leave(c) PROVE IInv'
  BY <1>8, LeaveIInv
<1> QED BY <1>1, <1>2, <1>3, <1>4, <1>5, <1>6, <1>7, <1>8 DEF Next, Step, Exhausted

\* The inductive invariant holds in every reachable state.
THEOREM Invariant == Spec => []IInv
  BY InitIInv, NextIInv, PTL DEF Spec

\* Variables keep their types.
THEOREM TypeCorrect == Spec => []TypeOK
<1>1. IInv => TypeOK
  BY DEF IInv
<1> QED BY <1>1, Invariant, PTL

\* At most one caller has the turn, for any number of callers.
THEOREM OneTurnHolds == Spec => []OneTurn
<1>1. IInv => OneTurn
  BY DEF IInv, TypeOK, OneTurn, LiveTickets, TicketsApart
<1> QED BY <1>1, Invariant, PTL

\* The line never stops at a ticket nobody holds.
THEOREM NeverStalledHolds == Spec => []NeverStalled
<1>1. IInv => NeverStalled
  <2> SUFFICES ASSUME IInv, serving < next_ticket
               PROVE  \E c \in Live : ticket[c] = serving
    BY DEF NeverStalled
  <2>1. serving \in Nat /\ next_ticket \in Nat /\ serving \notin gone
    BY QueueAssumption DEF IInv, TypeOK, GoneAhead
  <2>2. PICK c \in Callers : pc[c] # "idle" /\ ticket[c] = serving
    BY <2>1 DEF IInv, EveryTicketAccounted
  <2> QED BY <2>2 DEF Live
<1> QED BY <1>1, Invariant, PTL

----------------------------------------------------------------------------
(***************************************************************************)
(* Listing callers in the order of their tickets: there is one way.        *)
(***************************************************************************)
\* s lists S in the order of the tickets k.
Ordered(s, S, k) ==
    /\ s \in [1..Cardinality(S) -> S]
    /\ \A i, j \in 1..Cardinality(S) : i < j => k[s[i]] < k[s[j]]

\* The holders of tickets up to d's.
Upto(d, S, k) == {e \in S : k[e] <= k[d]}

\* Who holds an earlier ticket has fewer before it, and places are between 1 and the number of all.
LEMMA PlacesInOrder ==
  ASSUME NEW S, IsFiniteSet(S), NEW k, \A d \in S : k[d] \in Nat,
         \A d, e \in S : k[d] = k[e] => d = e
  PROVE  /\ \A d \in S : Cardinality(Upto(d, S, k)) \in 1..Cardinality(S)
         /\ \A d, e \in S : k[d] < k[e] => Cardinality(Upto(d, S, k)) < Cardinality(Upto(e, S, k))
         /\ \A d, e \in S : Cardinality(Upto(d, S, k)) = Cardinality(Upto(e, S, k)) => d = e
<1>1. ASSUME NEW d \in S
      PROVE  /\ Upto(d, S, k) \in SUBSET S /\ IsFiniteSet(Upto(d, S, k))
             /\ Cardinality(Upto(d, S, k)) \in Nat /\ Cardinality(Upto(d, S, k)) <= Cardinality(S)
             /\ Cardinality(Upto(d, S, k)) # 0
  <2>1. Upto(d, S, k) \in SUBSET S /\ d \in Upto(d, S, k)
    BY DEF Upto
  <2>2. IsFiniteSet(Upto(d, S, k)) /\ Cardinality(Upto(d, S, k)) <= Cardinality(S)
    BY <2>1, FS_Subset
  <2>3. Cardinality(Upto(d, S, k)) # 0
    BY <2>1, <2>2, FS_EmptySet
  <2> QED BY <2>1, <2>2, <2>3, FS_CardinalityType
<1>2. ASSUME NEW d \in S, NEW e \in S, k[d] < k[e]
      PROVE  Cardinality(Upto(d, S, k)) < Cardinality(Upto(e, S, k))
  <2>1. Upto(d, S, k) \in SUBSET Upto(e, S, k) /\ e \in Upto(e, S, k) /\ e \notin Upto(d, S, k)
    BY <1>2 DEF Upto
  <2>2. /\ Cardinality(Upto(d, S, k)) <= Cardinality(Upto(e, S, k))
        /\ Cardinality(Upto(e, S, k)) = Cardinality(Upto(d, S, k)) => Upto(e, S, k) = Upto(d, S, k)
    BY <2>1, <1>1, FS_Subset
  <2> QED BY <2>1, <2>2, <1>1
<1>3. ASSUME NEW d \in S, NEW e \in S, Cardinality(Upto(d, S, k)) = Cardinality(Upto(e, S, k))
      PROVE  d = e
  <2>1. ~ (k[d] < k[e]) /\ ~ (k[e] < k[d])
    BY <1>1, <1>2, <1>3
  <2> QED BY <2>1
<1>4. Cardinality(S) \in Nat
  BY FS_CardinalityType
<1> QED BY <1>1, <1>2, <1>3, <1>4

\* There is a list in that order.
LEMMA OrderExists ==
  ASSUME NEW S, IsFiniteSet(S), NEW k, \A d \in S : k[d] \in Nat,
         \A d, e \in S : k[d] = k[e] => d = e
  PROVE  \E s : Ordered(s, S, k)
<1> DEFINE n == Cardinality(S)
           r == [d \in S |-> Cardinality(Upto(d, S, k))]
<1>1. /\ \A d \in S : r[d] \in 1..n
      /\ \A d, e \in S : k[d] < k[e] => r[d] < r[e]
      /\ \A d, e \in S : r[d] = r[e] => d = e
  BY PlacesInOrder
<1>2. n \in Nat /\ IsFiniteSet(1..n) /\ Cardinality(1..n) = n
  BY FS_CardinalityType, FS_Interval
<1>3. r \in [S -> 1..n]
  BY <1>1
<1>4. r \in Injection(S, 1..n)
  BY <1>1, <1>3 DEF Injection, IsInjective
<1>5. r \in Surjection(S, 1..n)
  BY <1>2, <1>4, FS_Injection
<1>6. \A i \in 1..n : \E d \in S : r[d] = i
  BY <1>5 DEF Surjection
<1> HIDE DEF r
<1> DEFINE s == [i \in 1..n |-> CHOOSE d \in S : r[d] = i]
<1>7. \A i \in 1..n : s[i] \in S /\ r[s[i]] = i
  BY <1>6
<1>8. s \in [1..n -> S]
  BY <1>7
<1> HIDE DEF s
<1>9. ASSUME NEW i \in 1..n, NEW j \in 1..n, i < j PROVE k[s[i]] < k[s[j]]
  <2>1. s[i] \in S /\ s[j] \in S /\ r[s[i]] = i /\ r[s[j]] = j
    BY <1>7
  <2>2. ~ (k[s[j]] < k[s[i]])
    BY <2>1, <1>1, <1>9
  <2>3. k[s[j]] # k[s[i]]
    BY <2>1, <1>9
  <2> QED BY <2>1, <2>2, <2>3
<1> QED BY <1>8, <1>9 DEF Ordered

\* A list in that order has everybody, each at the place that counts those up to it.
LEMMA OrderedFacts ==
  ASSUME NEW S, IsFiniteSet(S), NEW k, \A d \in S : k[d] \in Nat,
         \A d, e \in S : k[d] = k[e] => d = e,
         NEW s, Ordered(s, S, k)
  PROVE  /\ Cardinality(S) \in Nat
         /\ \A d \in S : \E i \in 1..Cardinality(S) : s[i] = d
         /\ \A i, j \in 1..Cardinality(S) : s[i] = s[j] => i = j
         /\ \A i \in 1..Cardinality(S) : Cardinality(Upto(s[i], S, k)) = i
<1> DEFINE n == Cardinality(S)
<1>1. n \in Nat /\ IsFiniteSet(1..n) /\ Cardinality(1..n) = n
  BY FS_CardinalityType, FS_Interval
<1>2. s \in [1..n -> S] /\ \A i, j \in 1..n : i < j => k[s[i]] < k[s[j]]
  BY DEF Ordered
<1>3. ASSUME NEW i \in 1..n, NEW j \in 1..n, s[i] = s[j] PROVE i = j
  <2>1. k[s[i]] \in Nat /\ k[s[j]] = k[s[i]]
    BY <1>2, <1>3
  <2>2. ~ (i < j) /\ ~ (j < i)
    BY <2>1, <1>2
  <2> QED BY <2>2
<1>4. s \in Injection(1..n, S)
  BY <1>2, <1>3 DEF Injection, IsInjective
<1>5. s \in Surjection(1..n, S)
  BY <1>1, <1>4, FS_Injection
<1>6. \A d \in S : \E i \in 1..n : s[i] = d
  BY <1>5 DEF Surjection
<1>7. ASSUME NEW i \in 1..n PROVE Cardinality(Upto(s[i], S, k)) = i
  <2> DEFINE u == Upto(s[i], S, k)
             t == [j \in 1..i |-> s[j]]
  <2>1. \A j \in 1..i : j \in 1..n /\ t[j] \in S /\ t[j] = s[j]
    BY <1>1, <1>2
  <2>2. ASSUME NEW j \in 1..n PROVE s[j] \in u <=> j <= i
    <3>1. k[s[i]] \in Nat /\ k[s[j]] \in Nat /\ s[i] \in S /\ s[j] \in S
      BY <1>2
    <3>2. j < i => k[s[j]] < k[s[i]]
      BY <1>2
    <3>3. i < j => k[s[i]] < k[s[j]]
      BY <1>2
    <3> QED BY <3>1, <3>2, <3>3 DEF Upto
  <2>3. t \in [1..i -> u]
    BY <2>1, <2>2
  <2>4. \A d \in u : \E j \in 1..i : t[j] = d
    <3> SUFFICES ASSUME NEW d \in u PROVE \E j \in 1..i : t[j] = d
      OBVIOUS
    <3>1. d \in S
      BY DEF Upto
    <3>2. PICK j \in 1..n : s[j] = d
      BY <3>1, <1>6
    <3>3. j \in 1..i
      BY <2>2, <3>2
    <3> QED BY <2>1, <3>2, <3>3
  <2>5. \A j, l \in 1..i : t[j] = t[l] => j = l
    BY <2>1, <1>3
  <2> HIDE DEF t, u
  <2>6. t \in Bijection(1..i, u)
    BY <2>3, <2>4, <2>5 DEF Bijection, Injection, Surjection, IsInjective
  <2>7. ExistsBijection(1..i, u)
    BY <2>6 DEF ExistsBijection
  <2>8. IsFiniteSet(1..i) /\ Cardinality(1..i) = i
    BY FS_Interval
  <2>9. Cardinality(u) = Cardinality(1..i)
    BY <2>7, <2>8, FS_Bijection
  <2> QED BY <2>8, <2>9 DEF u
<1> QED BY <1>1, <1>3, <1>6, <1>7

\* There is only one.
LEMMA OneOrder ==
  ASSUME NEW S, IsFiniteSet(S), NEW k, \A d \in S : k[d] \in Nat,
         \A d, e \in S : k[d] = k[e] => d = e,
         NEW s, Ordered(s, S, k), NEW t, Ordered(t, S, k)
  PROVE  s = t
<1> DEFINE n == Cardinality(S)
<1>1. s \in [1..n -> S] /\ t \in [1..n -> S]
  BY DEF Ordered
<1>2. ASSUME NEW i \in 1..n PROVE s[i] = t[i]
  <2>1. Cardinality(Upto(s[i], S, k)) = i /\ Cardinality(Upto(t[i], S, k)) = i
    BY OrderedFacts
  <2>2. s[i] \in S /\ t[i] \in S
    BY <1>1
  <2> QED BY <2>1, <2>2, PlacesInOrder
<1> HIDE DEF n
<1>3. s = [i \in 1..n |-> s[i]] /\ t = [i \in 1..n |-> t[i]]
  BY <1>1, Zenon
<1>4. [i \in 1..n |-> s[i]] = [i \in 1..n |-> t[i]]
  BY <1>2, Zenon
<1> QED BY <1>3, <1>4, Zenon

----------------------------------------------------------------------------
(***************************************************************************)
(* A list with a member less or more.                                      *)
(***************************************************************************)
\* What the sequence operators leave when a member is taken out.
LEMMA RemoveFacts ==
  ASSUME NEW S, NEW s \in Seq(S), NEW i \in 1..Len(s)
  PROVE  /\ RemoveAt(s, i) = [j \in 1..(Len(s) - 1) |-> IF j < i THEN s[j] ELSE s[j + 1]]
         /\ Tail(s) = [j \in 1..(Len(s) - 1) |-> IF j < 1 THEN s[j] ELSE s[j + 1]]
<1> DEFINE n == Len(s)
           a == SubSeq(s, 1, i - 1)
           b == SubSeq(s, i + 1, n)
           r == a \o b
<1>1. n \in Nat /\ i \in 1..n
  OBVIOUS
<1>2. a \in Seq(S) /\ Len(a) = i - 1 /\ \A j \in 1..(i - 1) : a[j] = s[j]
  BY <1>1
<1>3. b \in Seq(S) /\ Len(b) = n - i /\ \A j \in 1..(n - i) : b[j] = s[i + j]
  BY <1>1
<1> HIDE DEF a, b
<1>0. a \in Seq(S) /\ b \in Seq(S)
  BY <1>2, <1>3
<1>4. r \in Seq(S) /\ Len(r) = Len(a) + Len(b)
  BY <1>0
<1>5. \A j \in 1..Len(a) : r[j] = a[j]
  BY <1>0
<1>6. \A j \in 1..Len(b) : r[Len(a) + j] = b[j]
  BY <1>0
<1> HIDE DEF r
<1>7. Len(r) = n - 1
  BY <1>1, <1>2, <1>3, <1>4
<1>8. ASSUME NEW j \in 1..(n - 1) PROVE r[j] = IF j < i THEN s[j] ELSE s[j + 1]
  <2>1. CASE j < i
    BY <2>1, <1>1, <1>2, <1>5
  <2>2. CASE ~ (j < i)
    <3>1. j - (i - 1) \in 1..(n - i) /\ (i - 1) + (j - (i - 1)) = j /\ i + (j - (i - 1)) = j + 1
      BY <2>2, <1>1
    <3>2. r[(i - 1) + (j - (i - 1))] = b[j - (i - 1)] /\ b[j - (i - 1)] = s[i + (j - (i - 1))]
      BY <3>1, <1>2, <1>3, <1>6
    <3> QED BY <2>2, <3>1, <3>2
  <2> QED BY <2>1, <2>2
<1>9. r = [j \in 1..(n - 1) |-> r[j]]
  BY <1>4, <1>7
<1>10. RemoveAt(s, i) = r
  BY DEF RemoveAt, r, a, b
<1>11. Tail(s) = [j \in 1..(n - 1) |-> s[j + 1]]
  <2> DEFINE u == Tail(s)
  <2>1. s # <<>>
    BY <1>1
  <2>2. u \in Seq(S) /\ Len(u) = n - 1 /\ \A j \in 1..Len(u) : u[j] = s[j + 1]
    BY <2>1, HeadTailProperties
  <2> HIDE DEF u
  <2>3. u = [j \in 1..(n - 1) |-> u[j]]
    BY <2>2
  <2>4. u = [j \in 1..(n - 1) |-> s[j + 1]]
    BY <2>2, <2>3, Zenon
  <2> QED BY <2>4 DEF u
<1>12. [j \in 1..(n - 1) |-> IF j < 1 THEN s[j] ELSE s[j + 1]] = [j \in 1..(n - 1) |-> s[j + 1]]
  BY <1>1
<1>13. r = [j \in 1..(n - 1) |-> IF j < i THEN s[j] ELSE s[j + 1]]
  BY <1>8, <1>9, Zenon
<1> QED BY <1>10, <1>11, <1>12, <1>13

\* Without its i-th member, the list lists the others.
LEMMA OneSkipped ==
  ASSUME NEW S, IsFiniteSet(S), NEW k, \A d \in S : k[d] \in Nat,
         \A d, e \in S : k[d] = k[e] => d = e,
         NEW s, Ordered(s, S, k), NEW i \in 1..Cardinality(S)
  PROVE  Ordered([j \in 1..(Cardinality(S) - 1) |-> IF j < i THEN s[j] ELSE s[j + 1]], S \ {s[i]}, k)
<1> DEFINE n == Cardinality(S)
           at(j) == IF j < i THEN j ELSE j + 1
           t == [j \in 1..(n - 1) |-> IF j < i THEN s[j] ELSE s[j + 1]]
<1>1. n \in Nat /\ \A j, l \in 1..n : s[j] = s[l] => j = l
  BY OrderedFacts
<1>2. s \in [1..n -> S] /\ \A j, l \in 1..n : j < l => k[s[j]] < k[s[l]]
  BY DEF Ordered
<1>3. Cardinality(S \ {s[i]}) = n - 1
  BY <1>2, FS_RemoveElement
<1>4. \A j \in 1..(n - 1) : at(j) \in 1..n /\ at(j) # i /\ t[j] = s[at(j)]
  BY <1>1
<1>5. \A j, l \in 1..(n - 1) : j < l => at(j) < at(l)
  BY <1>1
<1>6. DOMAIN t = 1..(n - 1)
  OBVIOUS
<1>7. t = [j \in 1..(n - 1) |-> t[j]]
  BY <1>6
<1> HIDE DEF t, at, n
<1>8. \A j \in 1..(n - 1) : t[j] \in S \ {s[i]}
  BY <1>1, <1>2, <1>4 DEF n
<1>9. t \in [1..(n - 1) -> S \ {s[i]}]
  BY <1>7, <1>8
<1>10. \A j, l \in 1..(n - 1) : j < l => k[t[j]] < k[t[l]]
  BY <1>2, <1>4, <1>5
<1> QED BY <1>3, <1>9, <1>10 DEF Ordered, t, n

\* With one of a later ticket at its end, it lists it too.
LEMMA OneAdded ==
  ASSUME NEW S, IsFiniteSet(S), NEW k, NEW s, Ordered(s, S, k),
         NEW c, c \notin S, NEW l, \A d \in S : l[d] = k[d] /\ l[d] < l[c]
  PROVE  Ordered(Append(s, c), S \cup {c}, l)
<1> DEFINE n == Cardinality(S)
           t == Append(s, c)
<1>1. n \in Nat /\ Cardinality(S \cup {c}) = n + 1
  BY FS_CardinalityType, FS_AddElement
<1>2. s \in [1..n -> S] /\ \A i, j \in 1..n : i < j => k[s[i]] < k[s[j]]
  BY DEF Ordered
<1> HIDE DEF n
<1>3. s \in Seq(S) /\ Len(s) = n
  BY <1>1, <1>2
<1>4. t \in Seq(S \cup {c}) /\ Len(t) = n + 1 /\ t[n + 1] = c /\ \A i \in 1..n : t[i] = s[i]
  BY <1>1, <1>3
<1> HIDE DEF t
<1>5. t \in [1..(n + 1) -> S \cup {c}]
  <2>1. t \in [1..Len(t) -> S \cup {c}]
    BY <1>4
  <2> QED BY <2>1, <1>4
<1>6. ASSUME NEW i \in 1..(n + 1), NEW j \in 1..(n + 1), i < j PROVE l[t[i]] < l[t[j]]
  <2>1. i \in 1..n /\ s[i] \in S /\ t[i] = s[i] /\ l[s[i]] = k[s[i]]
    BY <1>1, <1>2, <1>4, <1>6
  <2>2. CASE j = n + 1
    BY <2>1, <2>2, <1>4
  <2>3. CASE j # n + 1
    <3>1. j \in 1..n
      BY <2>3, <1>1
    <3>2. s[j] \in S /\ t[j] = s[j] /\ l[s[j]] = k[s[j]]
      BY <3>1, <1>2, <1>4
    <3> QED BY <2>1, <3>1, <3>2, <1>2, <1>6
  <2> QED BY <2>2, <2>3
<1> QED BY <1>1, <1>5, <1>6 DEF Ordered, t, n

\* Tickets tell the callers in line apart, and there are finitely many.
LEMMA LiveFacts ==
  ASSUME IInv
  PROVE  /\ IsFiniteSet(Live) /\ Live \subseteq Callers
         /\ \A d \in Live : ticket[d] \in Nat
         /\ \A d, e \in Live : ticket[d] = ticket[e] => d = e
<1>1. IsFiniteSet(Live)
  BY QueueAssumption, FS_Subset DEF Live
<1> QED BY <1>1, QueueAssumption DEF IInv, TypeOK, TicketsApart, Live

\* The line is the one list of the callers in the order of their tickets.
LEMMA LineFacts == IInv => /\ Ordered(LineOf, Live, ticket)
                          /\ \A s : Ordered(s, Live, ticket) => LineOf = s
<1> SUFFICES ASSUME IInv PROVE /\ Ordered(LineOf, Live, ticket)
                               /\ \A s : Ordered(s, Live, ticket) => LineOf = s
  OBVIOUS
<1>1. \E s : Ordered(s, Live, ticket)
  BY LiveFacts, OrderExists
<1>2. \A s : Ordered(s, Live, ticket) <=>
               /\ s \in [1..Cardinality(Live) -> Live]
               /\ \A i, j \in DOMAIN s : i < j => ticket[s[i]] < ticket[s[j]]
  BY DEF Ordered
<1>3. Ordered(LineOf, Live, ticket)
  BY <1>1, <1>2 DEF LineOf
<1>4. ASSUME NEW s, Ordered(s, Live, ticket) PROVE LineOf = s
  BY <1>3, <1>4, LiveFacts, OneOrder
<1> QED BY <1>3, <1>4

\* As a sequence: everybody in line, each once.
LEMMA LineSeq ==
  ASSUME IInv
  PROVE  /\ LineOf \in Seq(Live) /\ Len(LineOf) = Cardinality(Live)
         /\ \A d \in Live : \E i \in 1..Len(LineOf) : LineOf[i] = d
         /\ \A i, j \in 1..Len(LineOf) : LineOf[i] = LineOf[j] => i = j
         /\ \A i, j \in 1..Len(LineOf) : i < j => ticket[LineOf[i]] < ticket[LineOf[j]]
<1>1. Cardinality(Live) \in Nat
  BY LiveFacts, FS_CardinalityType
<1>2. LineOf \in [1..Cardinality(Live) -> Live]
  BY LineFacts DEF Ordered
<1>3. LineOf \in Seq(Live) /\ Len(LineOf) = Cardinality(Live)
  BY <1>1, <1>2
<1>4. /\ \A d \in Live : \E i \in 1..Cardinality(Live) : LineOf[i] = d
      /\ \A i, j \in 1..Cardinality(Live) : LineOf[i] = LineOf[j] => i = j
  BY LiveFacts, LineFacts, OrderedFacts
<1> QED BY <1>3, <1>4, LineFacts DEF Ordered

\* Whatever lists the callers in line in the order of their tickets is the line.
ListsAreLine == \A s : Ordered(s, Live, ticket) => LineOf = s

\* So it is in the state after a step.
LEMMA LineNext == IInv' => \A s : Ordered(s, Live', ticket') => LineOf' = s
<1>1. IInv => ListsAreLine
  BY LineFacts DEF ListsAreLine
<1>2. IInv' => ListsAreLine'
  BY <1>1, PTL
<1> QED BY <1>2 DEF ListsAreLine

\* The tickets from serving on are those given up and those of the callers in line.
LEMMA TicketsCount == ASSUME IInv PROVE InLine = Cardinality(Live)
<1> DEFINE K == serving..(next_ticket - 1)
           f == [d \in Live |-> ticket[d]]
<1>1. serving \in Nat /\ next_ticket \in Nat /\ serving <= next_ticket
  BY QueueAssumption DEF IInv, TypeOK
<1>2. IsFiniteSet(K) /\ Cardinality(K) = next_ticket - serving
  <2>1. serving \in Int /\ next_ticket - 1 \in Int
    BY <1>1
  <2>2. /\ IsFiniteSet(K)
        /\ Cardinality(K) = IF serving > next_ticket - 1 THEN 0 ELSE (next_ticket - 1) - serving + 1
    BY <2>1, FS_Interval
  <2> QED BY <2>2, <1>1
<1>3. K \cap gone = gone
  <2>1. ASSUME NEW t \in gone PROVE t \in K
    <3>1. t \in Nat /\ serving < t /\ t < next_ticket
      BY QueueAssumption DEF IInv, TypeOK, GoneAhead
    <3> QED BY <3>1, <1>1
  <2> QED BY <2>1
<1>4. IsFiniteSet(K \ gone) /\ Cardinality(K \ gone) = (next_ticket - serving) - Cardinality(gone)
  <2>1. IsFiniteSet(K \ gone) /\ Cardinality(K \ gone) = Cardinality(K) - Cardinality(K \cap gone)
    BY <1>2, FS_Difference
  <2> QED BY <2>1, <1>2, <1>3
<1>5. \A d \in Live : ticket[d] \in K \ gone
  BY <1>1, LiveFacts DEF IInv, LiveTickets, Live
<1>6. \A t \in K \ gone : \E d \in Live : ticket[d] = t
  BY DEF IInv, EveryTicketAccounted, Live
<1> HIDE DEF K
<1>7. f \in [Live -> K \ gone] /\ \A d \in Live : f[d] = ticket[d]
  BY <1>5
<1> HIDE DEF f
<1>8. f \in Bijection(Live, K \ gone)
  BY <1>6, <1>7, LiveFacts DEF Bijection, Injection, Surjection, IsInjective
<1>9. Cardinality(K \ gone) = Cardinality(Live)
  BY <1>8, LiveFacts, FS_Bijection DEF ExistsBijection
<1> QED BY <1>4, <1>9 DEF InLine

\* The one whose ticket is served is at the head, and nobody else is at its turn.
LEMMA HeadIsServed ==
  ASSUME IInv, NEW c \in Live, ticket[c] = serving
  PROVE  LineOf # <<>> /\ Head(LineOf) = c /\ LineOf[1] = c
<1>1. PICK i \in 1..Len(LineOf) : LineOf[i] = c
  BY LineSeq
<1>2. LineOf \in Seq(Live) /\ Len(LineOf) \in Nat /\ 1 \in 1..Len(LineOf) /\ LineOf[1] \in Live
  BY <1>1, LineSeq
<1>3. serving \in Nat /\ ticket[LineOf[1]] \in Nat /\ serving <= ticket[LineOf[1]]
  BY <1>2, LiveFacts, QueueAssumption DEF IInv, TypeOK, LiveTickets, Live
<1>4. ~ (1 < i)
  BY <1>1, <1>2, <1>3, LineSeq
<1>5. i = 1
  BY <1>1, <1>2, <1>4
<1> QED BY <1>1, <1>2, <1>5

\* While somebody is in line, the one at the head has the ticket being served.
LEMMA ServedIsHead ==
  ASSUME IInv, LineOf # <<>>
  PROVE  Head(LineOf) \in Live /\ ticket[Head(LineOf)] = serving
<1>1. LineOf \in Seq(Live) /\ 1 \in 1..Len(LineOf) /\ LineOf[1] \in Live
  BY LineSeq
<1>2. serving \in Nat /\ next_ticket \in Nat /\ serving < next_ticket /\ serving \notin gone
  BY <1>1, LiveFacts, QueueAssumption DEF IInv, TypeOK, LiveTickets, GoneAhead, Live
<1>3. PICK c \in Callers : pc[c] # "idle" /\ ticket[c] = serving
  BY <1>2 DEF IInv, EveryTicketAccounted
<1>4. c \in Live
  BY <1>3 DEF Live
<1> QED BY <1>3, <1>4, HeadIsServed

\* Who has the turn holds the ticket being served.
Running == {c \in Callers : pc[c] = "running"}

\* There is one such caller at most, and it is in line.
LEMMA RunningFacts ==
  ASSUME IInv, NEW c \in Callers, pc[c] # "idle", ticket[c] = serving
  PROVE  Running \subseteq {c}
  BY DEF IInv, LiveTickets, TicketsApart, Running

----------------------------------------------------------------------------
(***************************************************************************)
(* Each step of enter() and leave() against the line.                      *)
(***************************************************************************)
\* Taking a ticket is joining the line's tail, and beginning at once where it was empty.
LEMMA EnterJoins ==
  ASSUME IInv, IInv', NEW c \in Callers, Enter(c)
  PROVE  Abstract!Join(c)
<1> DEFINE s == LineOf
<1>1. /\ next_ticket \in Nat /\ serving \in Nat /\ serving <= next_ticket
      /\ pc[c] = "idle" /\ InLine <= MaxWaiting
      /\ ticket \in [Callers -> 0..MaxTickets] /\ pc \in [Callers -> Places]
      /\ ticket' = [ticket EXCEPT ![c] = next_ticket]
      /\ pc' = [pc EXCEPT ![c] = IF serving = next_ticket THEN "running" ELSE "waiting"]
  BY QueueAssumption DEF IInv, TypeOK, Enter
<1>2. c \notin Live /\ Live' = Live \cup {c}
  BY <1>1 DEF Live
<1>3. s \in Seq(Live) /\ Len(s) = Cardinality(Live)
  BY LineSeq
<1>4. c \notin {s[i] : i \in DOMAIN s}
  BY <1>2, <1>3
<1>5. Len(s) <= MaxWaiting
  BY <1>1, <1>3, TicketsCount
<1>6. \A d \in Live : ticket'[d] = ticket[d] /\ ticket'[d] < ticket'[c]
  BY <1>1, <1>2 DEF Live, IInv, LiveTickets
<1>7. Ordered(Append(s, c), Live', ticket')
  BY <1>2, <1>6, LiveFacts, LineFacts, OneAdded
<1>8. LineOf' = Append(s, c)
  BY <1>7, LineNext
<1>9. CASE s = <<>>
  <2>1. Live = {}
    BY <1>9, LineSeq
  <2>2. serving = next_ticket
    BY <2>1, <1>1 DEF IInv, EveryTicketAccounted, GoneAhead, Live
  <2>3. Running = {} /\ Running' = {c}
    BY <2>1, <2>2, <1>1 DEF Running, Live
  <2> QED BY <2>3, <1>4, <1>5, <1>8, <1>9 DEF Abstract!Join, Abstract!Range, Running
<1>10. CASE s # <<>>
  <2>1. PICK d \in Live : ticket[d] = serving
    BY <1>10, ServedIsHead
  <2>2. serving < next_ticket
    BY <2>1 DEF IInv, LiveTickets, Live
  <2>3. Running' = Running
    BY <2>2, <1>1 DEF Running
  <2> QED BY <2>3, <1>4, <1>5, <1>8, <1>10 DEF Abstract!Join, Abstract!Range, Running
<1> QED BY <1>9, <1>10

\* A caller that finds its ticket served begins its turn.
LEMMA ServedBegins ==
  ASSUME IInv, NEW c \in Callers, pc[c] \in {"waiting", "asking"}, ticket[c] = serving,
         pc' = [pc EXCEPT ![c] = "running"], UNCHANGED ticket
  PROVE  Abstract!Begin
<1>1. pc \in [Callers -> Places]
  BY DEF IInv, TypeOK
<1>2. c \in Live /\ Live' = Live
  BY <1>1 DEF Live
<1>3. LineOf' = LineOf
  BY <1>2 DEF LineOf
<1>4. LineOf # <<>> /\ Head(LineOf) = c
  BY <1>2, HeadIsServed
<1>5. Running \subseteq {c}
  BY RunningFacts
<1>6. Running = {} /\ Running' = {c}
  BY <1>1, <1>5 DEF Running
<1> QED BY <1>3, <1>4, <1>6 DEF Abstract!Begin, Running

\* A caller that moves between waiting and asking leaves the line as it is.
LEMMA WaitingStays ==
  ASSUME IInv, NEW c \in Callers, pc[c] \in {"waiting", "asking"},
         NEW p \in {"waiting", "asking"}, pc' = [pc EXCEPT ![c] = p], UNCHANGED ticket
  PROVE  UNCHANGED Abstract!vars
<1>1. pc \in [Callers -> Places]
  BY DEF IInv, TypeOK
<1>2. Live' = Live /\ Running' = Running
  BY <1>1 DEF Live, Running
<1>3. LineOf' = LineOf
  BY <1>2 DEF LineOf
<1> QED BY <1>2, <1>3 DEF Abstract!vars, Running

\* A place that is given back is not the head's, and leaves the others in their order.
LEMMA GoneGivesUp ==
  ASSUME IInv, IInv', NEW c \in Callers, AnswerGone(c)
  PROVE  Abstract!GiveUp(c)
<1> DEFINE s == LineOf
<1>1. pc[c] = "asking" /\ serving # ticket[c] /\ pc' = [pc EXCEPT ![c] = "idle"] /\ ticket' = ticket
  BY DEF AnswerGone
<1>2. pc \in [Callers -> Places]
  BY DEF IInv, TypeOK
<1>3. c \in Live /\ Live' = Live \ {c} /\ Running' = Running
  BY <1>1, <1>2 DEF Live, Running
<1>4. /\ s \in Seq(Live) /\ Len(s) = Cardinality(Live) /\ Len(s) \in Nat
      /\ \E i \in 1..Len(s) : s[i] = c
  BY <1>3, LineSeq
<1>5. PICK i \in 1..Len(s) : s[i] = c
  BY <1>4
<1>6. s # <<>> /\ Head(s) = s[1]
  BY <1>4, <1>5
<1>7. i # 1
  BY <1>1, <1>5, <1>6, ServedIsHead
<1>8. Ordered([j \in 1..(Len(s) - 1) |-> IF j < i THEN s[j] ELSE s[j + 1]], Live', ticket')
  BY <1>1, <1>3, <1>4, <1>5, LiveFacts, LineFacts, OneSkipped
<1>9. LineOf' = [j \in 1..(Len(s) - 1) |-> IF j < i THEN s[j] ELSE s[j + 1]]
  BY <1>8, LineNext
<1>10. RemoveAt(s, i) = [j \in 1..(Len(s) - 1) |-> IF j < i THEN s[j] ELSE s[j + 1]]
  BY <1>4, <1>5, RemoveFacts
<1>11. LineOf' = Abstract!RemoveAt(s, i)
  BY <1>9, <1>10, Zenon DEF Abstract!RemoveAt, RemoveAt
<1>12. i \in 2..Len(s)
  BY <1>4, <1>5, <1>7
<1> QED BY <1>3, <1>5, <1>11, <1>12, Zenon DEF Abstract!GiveUp, Running

\* A turn that ends is the head's, and leaves the others in their order.
LEMMA LeaveFinishes ==
  ASSUME IInv, IInv', NEW c \in Callers, Leave(c)
  PROVE  Abstract!Finish
<1> DEFINE s == LineOf
<1>1. pc[c] = "running" /\ pc' = [pc EXCEPT ![c] = "idle"] /\ ticket' = ticket
  BY DEF Leave
<1>2. pc \in [Callers -> Places] /\ ticket[c] = serving
  BY <1>1 DEF IInv, TypeOK, LiveTickets
<1>3. c \in Live /\ Live' = Live \ {c}
  BY <1>1, <1>2 DEF Live
<1>4. Running \subseteq {c}
  BY <1>1, <1>2, RunningFacts
<1>5. Running = {c} /\ Running' = {}
  BY <1>1, <1>2, <1>4 DEF Running
<1>6. s # <<>> /\ Head(s) = c /\ s[1] = c
  BY <1>2, <1>3, HeadIsServed
<1>7. s \in Seq(Live) /\ Len(s) = Cardinality(Live) /\ Len(s) \in Nat /\ 1 \in 1..Len(s)
  BY <1>6, LineSeq
<1>8. Ordered([j \in 1..(Len(s) - 1) |-> IF j < 1 THEN s[j] ELSE s[j + 1]], Live', ticket')
  BY <1>1, <1>3, <1>6, <1>7, LiveFacts, LineFacts, OneSkipped
<1>9. LineOf' = [j \in 1..(Len(s) - 1) |-> IF j < 1 THEN s[j] ELSE s[j + 1]]
  BY <1>8, LineNext
<1>10. Tail(s) = [j \in 1..(Len(s) - 1) |-> IF j < 1 THEN s[j] ELSE s[j + 1]]
  BY <1>7, RemoveFacts
<1> QED BY <1>5, <1>6, <1>9, <1>10 DEF Abstract!Finish, Running

\* Whoever holds up the line: every step is one of the line's or changes nothing there.
LEMMA LineStep == IInv /\ IInv' /\ [Next]_vars => [Abstract!Next]_Abstract!vars
<1> SUFFICES ASSUME IInv, IInv', [Next]_vars PROVE Abstract!Next \/ UNCHANGED Abstract!vars
  OBVIOUS
<1>1. ASSUME pc' = pc, ticket' = ticket PROVE UNCHANGED Abstract!vars
  <2>1. Live' = Live /\ Running' = Running
    BY <1>1 DEF Live, Running
  <2>2. LineOf' = LineOf
    BY <2>1, <1>1 DEF LineOf
  <2> QED BY <2>1, <2>2 DEF Abstract!vars, Running
<1>2. CASE UNCHANGED vars \/ Exhausted \/ \E c \in Callers : EnterFull(c)
  BY <1>1, <1>2 DEF vars, Exhausted, EnterFull
<1>3. ASSUME NEW c \in Callers, Enter(c) PROVE Abstract!Next
  BY <1>3, EnterJoins DEF Abstract!Next
<1>4. ASSUME NEW c \in Callers, WakeServed(c) PROVE Abstract!Next
  BY <1>4, ServedBegins DEF WakeServed, Abstract!Next
<1>5. ASSUME NEW c \in Callers, WakeAsk(c) PROVE UNCHANGED Abstract!vars
  BY <1>5, WaitingStays DEF WakeAsk
<1>6. ASSUME NEW c \in Callers, AnswerStay(c) PROVE Abstract!Next \/ UNCHANGED Abstract!vars
  <2>1. CASE serving = ticket[c]
    BY <1>6, <2>1, ServedBegins DEF AnswerStay, Abstract!Next
  <2>2. CASE serving # ticket[c]
    BY <1>6, <2>2, WaitingStays DEF AnswerStay
  <2> QED BY <2>1, <2>2
<1>7. ASSUME NEW c \in Callers, AnswerGone(c) PROVE Abstract!Next
  BY <1>7, GoneGivesUp DEF Abstract!Next
<1>8. ASSUME NEW c \in Callers, Leave(c) PROVE Abstract!Next
  BY <1>8, LeaveFinishes DEF Abstract!Next
<1> QED BY <1>2, <1>3, <1>4, <1>5, <1>6, <1>7, <1>8 DEF Next, Step

\* At the start nobody is in line.
LEMMA LineInit == Init => Abstract!Init
<1> SUFFICES ASSUME Init PROVE Abstract!Init
  OBVIOUS
<1>1. IInv
  BY InitIInv
<1>2. Live = {} /\ Running = {}
  BY DEF Init, Live, Running
<1>3. LineOf = <<>>
  BY <1>1, <1>2, LineSeq
<1> QED BY <1>2, <1>3 DEF Abstract!Init, Running

\* ImplementsLine: the tickets are the line, whatever callers give up and when: nobody overtakes.
THEOREM TicketsAreTheLine == Spec => ImplementsLine
<1>1. IInv /\ IInv' /\ [Next]_vars => [Abstract!Next]_Abstract!vars
  BY LineStep
<1>2. Init => Abstract!Init
  BY LineInit
<1> QED BY <1>1, <1>2, Invariant, PTL DEF Spec, ImplementsLine, Abstract!Spec

\* CountIsExact: the subtraction of enter() counts the callers in line.
THEOREM CountHolds == Spec => []CountIsExact
<1>1. IInv => CountIsExact
  BY TicketsCount DEF CountIsExact
<1> QED BY <1>1, Invariant, PTL

\* A place is taken only where the count says there is one.
LEMMA BoundedNext == IInv /\ Bounded /\ [Next]_vars => Bounded'
<1> SUFFICES ASSUME IInv, Bounded, [Next]_vars PROVE Bounded'
  OBVIOUS
<1>1. pc \in [Callers -> Places] /\ IsFiniteSet(Live) /\ Cardinality(Live) \in Nat /\ MaxWaiting \in Nat
  BY LiveFacts, FS_CardinalityType, QueueAssumption DEF IInv, TypeOK
<1>2. CASE Live' \subseteq Live
  <2>1. Cardinality(Live') <= Cardinality(Live) /\ IsFiniteSet(Live')
    BY <1>1, <1>2, FS_Subset
  <2>2. Cardinality(Live') \in Nat
    BY <2>1, FS_CardinalityType
  <2> QED BY <2>1, <2>2, <1>1 DEF Bounded
<1>3. ASSUME NEW c \in Callers, Enter(c) PROVE Bounded'
  <2>1. c \notin Live /\ Live' = Live \cup {c}
    BY <1>1, <1>3 DEF Enter, Live
  <2>2. Cardinality(Live') = Cardinality(Live) + 1
    BY <2>1, <1>1, FS_AddElement
  <2>3. Cardinality(Live) <= MaxWaiting
    BY <1>3, TicketsCount DEF Enter
  <2> QED BY <2>2, <2>3, <1>1 DEF Bounded
<1>4. ASSUME NEW c \in Callers, pc[c] # "idle", NEW p, pc' = [pc EXCEPT ![c] = p] PROVE Live' \subseteq Live
  BY <1>1, <1>4 DEF Live
<1>5. ASSUME NEW c \in Callers,
             WakeServed(c) \/ WakeAsk(c) \/ AnswerStay(c) \/ AnswerGone(c) \/ Leave(c)
      PROVE  Live' \subseteq Live
  BY <1>4, <1>5 DEF WakeServed, WakeAsk, AnswerStay, AnswerGone, Leave
<1>6. ASSUME pc' = pc PROVE Live' \subseteq Live
  BY <1>6 DEF Live
<1>7. CASE UNCHANGED vars \/ Exhausted \/ \E c \in Callers : EnterFull(c)
  BY <1>2, <1>6, <1>7 DEF vars, Exhausted, EnterFull
<1> QED BY <1>2, <1>3, <1>5, <1>7 DEF Next, Step

\* Bounded: never more than MaxWaiting callers behind the one whose turn it is.
THEOREM BoundHolds == Spec => []Bounded
<1>1. Init => Bounded
  <2>1. Init => Live = {}
    BY DEF Init, Live
  <2> QED BY <2>1, FS_EmptySet, QueueAssumption DEF Bounded
<1> QED BY <1>1, BoundedNext, Invariant, PTL DEF Spec
=============================================================================
