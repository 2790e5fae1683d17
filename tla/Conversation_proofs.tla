----------------------- MODULE Conversation_proofs -----------------------
(***************************************************************************)
(* Proofs about Conversation, for every vocabulary, number of draft        *)
(* tokens, of checkpoints and of words of an answer, and whatever cuts a   *)
(* memory refuses.  A turn is followed by its record (kv): what is there   *)
(* begins the context (ctx) while speculation runs ahead of it and is the  *)
(* context again when the turn is over, on each of its ways out.  What a   *)
(* turn undoes to, what a checkpoint describes and where the draft's memory *)
(* stands are said relative to that record.                                *)
(***************************************************************************)
EXTENDS Conversation, WellFoundedInduction, TLAPS

----------------------------------------------------------------------------
(***************************************************************************)
(* Sequences and the functions that build them: what the loops of the      *)
(* model's operators return, stated once.                                  *)
(***************************************************************************)
\* Every nonempty set of naturals has a least element.
LEMMA LeastNumber ==
  ASSUME NEW P \in SUBSET Nat, P # {}
  PROVE  \E n \in P : \A m \in P : n <= m
<1>1. IsWellFoundedOn(OpToRel(<, Nat), Nat)
  BY NatLessThanWellFounded
<1>2. PICK n \in P : \A m \in P : ~ (<<m, n>> \in OpToRel(<, Nat))
  BY <1>1, WFMin, Zenon
<1>3. ASSUME NEW m \in P PROVE n <= m
  <2>1. <<m, n>> \notin OpToRel(<, Nat)
    BY <1>2
  <2>2. m \in Nat /\ n \in Nat
    OBVIOUS
  <2>3. ~ (m < n)
    BY <2>1, <2>2, Zenon DEF OpToRel
  <2> QED BY <2>2, <2>3
<1> QED BY <1>3

\* What holds of 0, and of a number with its predecessor, holds up to any bound.
LEMMA UpTo ==
  ASSUME NEW N \in Nat, NEW G, 0 \in G, \A n \in 1..N : n - 1 \in G => n \in G
  PROVE  \A n \in 0..N : n \in G
<1> DEFINE Bad == {n \in 0..N : n \notin G}
<1> SUFFICES ASSUME Bad # {} PROVE FALSE
  OBVIOUS
<1>1. Bad \in SUBSET Nat
  OBVIOUS
<1>2. PICK n \in Bad : \A m \in Bad : n <= m
  BY <1>1, LeastNumber
<1> HIDE DEF Bad
<1>3. n \in 0..N /\ n \notin G
  BY <1>2 DEF Bad
<1>4. n # 0
  BY <1>3
<1>5. n \in 1..N /\ n - 1 \in 0..N
  BY <1>3, <1>4
<1>6. n - 1 \notin Bad
  BY <1>2, <1>5
<1>7. n - 1 \in G
  BY <1>5, <1>6 DEF Bad
<1> QED BY <1>3, <1>5, <1>7

\* What a loop of N steps has after each of them.
Unrolled(f, R, N, base, step) ==
    /\ f \in [0..N -> R]
    /\ f[0] = base
    /\ \A i \in 1..N : f[i] = step[<<i, f[i - 1]>>]

\* Every loop can be unrolled.
LEMMA LoopUnrolls ==
  ASSUME NEW R, NEW N \in Nat, NEW base \in R, NEW step \in [(1..N) \X R -> R]
  PROVE  \E f : Unrolled(f, R, N, base, step)
<1> DEFINE Eq(g, n) == g[0] = base /\ \A i \in 1..n : g[i] = step[<<i, g[i - 1]>>]
           G == {n \in 0..N : \E g \in [0..n -> R] : Eq(g, n)}
<1>1. 0 \in G
  <2>1. [i \in 0..0 |-> base] \in [0..0 -> R] /\ Eq([i \in 0..0 |-> base], 0)
    OBVIOUS
  <2>2. 0 \in 0..N
    OBVIOUS
  <2> QED BY <2>1, <2>2, Zenon
<1>2. ASSUME NEW n \in 1..N, n - 1 \in G PROVE n \in G
  <2>1. PICK g \in [0..(n - 1) -> R] : Eq(g, n - 1)
    BY <1>2
  <2> DEFINE h == [i \in 0..n |-> IF i < n THEN g[i] ELSE step[<<n, g[n - 1]>>]]
  <2>2. g[n - 1] \in R
    OBVIOUS
  <2>3. step[<<n, g[n - 1]>>] \in R
    BY <2>2
  <2>4. h \in [0..n -> R]
    BY <2>3
  <2>5. \A i \in 0..(n - 1) : h[i] = g[i]
    OBVIOUS
  <2>6. h[n] = step[<<n, g[n - 1]>>]
    OBVIOUS
  <2> HIDE DEF h
  <2>7. h[0] = base
    BY <2>1, <2>5
  <2>8. ASSUME NEW i \in 1..n PROVE h[i] = step[<<i, h[i - 1]>>]
    <3>1. CASE i = n
      <4>1. h[i - 1] = g[n - 1]
        BY <3>1, <2>5
      <4> QED BY <3>1, <4>1, <2>6
    <3>2. CASE i # n
      <4>1. i \in 1..(n - 1) /\ i - 1 \in 0..(n - 1) /\ i \in 0..(n - 1)
        BY <3>2
      <4> QED BY <4>1, <2>1, <2>5
    <3> QED BY <3>1, <3>2
  <2>9. Eq(h, n)
    BY <2>7, <2>8
  <2>10. n \in 0..N
    OBVIOUS
  <2> QED BY <2>4, <2>9, <2>10
<1>3. N \in G
  <2> HIDE DEF G
  <2>1. \A n \in 0..N : n \in G
    BY <1>1, <1>2, UpTo
  <2> QED BY <2>1
<1>4. PICK g \in [0..N -> R] : Eq(g, N)
  BY <1>3
<1>5. Unrolled(g, R, N, base, step)
  BY <1>4 DEF Unrolled
<1> QED BY <1>5, Zenon

\* The elements of a sequence.
LEMMA ToSetFacts ==
  /\ ToSet(<<>>) = {}
  /\ \A E : \A s \in Seq(E) :
        /\ ToSet(s) = {s[i] : i \in 1..Len(s)}
        /\ ToSet(s) \subseteq E
<1>1. ASSUME NEW E, NEW s \in Seq(E)
      PROVE  /\ ToSet(s) = {s[i] : i \in 1..Len(s)}
             /\ ToSet(s) \subseteq E
  <2>1. DOMAIN s = 1..Len(s) /\ s \in [1..Len(s) -> E] /\ Len(s) \in Nat
    OBVIOUS
  <2>2. ToSet(s) = {s[i] : i \in 1..Len(s)}
    BY <2>1 DEF ToSet
  <2>3. ToSet(s) \subseteq E
    BY <2>2, <2>1
  <2> QED BY <2>2, <2>3
<1>2. ToSet(<<>>) = {}
  BY DEF ToSet
<1> QED BY <1>1, <1>2, Zenon

\* Appending adds one element.
LEMMA AppendFacts ==
  ASSUME NEW E, NEW s \in Seq(E), NEW x \in E
  PROVE  /\ Append(s, x) \in Seq(E) /\ Len(Append(s, x)) = Len(s) + 1
         /\ ToSet(Append(s, x)) = ToSet(s) \union {x}
<1> DEFINE t == Append(s, x)
<1>1. t \in Seq(E) /\ Len(t) = Len(s) + 1 /\ Len(s) \in Nat
      /\ t[Len(s) + 1] = x /\ \A i \in 1..Len(s) : t[i] = s[i]
  OBVIOUS
<1> HIDE DEF t
<1>2. /\ ToSet(s) = {s[i] : i \in 1..Len(s)} /\ ToSet(t) = {t[i] : i \in 1..Len(t)}
  BY <1>1, ToSetFacts
<1>3. 1..Len(t) = 1..Len(s) \union {Len(s) + 1}
  BY <1>1
<1>4. ToSet(t) = ToSet(s) \union {x}
  <2>1. ASSUME NEW y \in ToSet(t) PROVE y \in ToSet(s) \union {x}
    BY <1>1, <1>2, <1>3
  <2>2. ASSUME NEW y \in ToSet(s) PROVE y \in ToSet(t)
    BY <1>1, <1>2, <1>3
  <2>3. x \in ToSet(t)
    BY <1>1, <1>2, <1>3
  <2> QED BY <2>1, <2>2, <2>3
<1> QED BY <1>1, <1>4 DEF t

\* What is kept of a list.
LEMMA OnlyFacts ==
  ASSUME NEW E, NEW s \in Seq(E), NEW T
  PROVE  /\ Only(s, T) \in Seq(E)
         /\ ToSet(Only(s, T)) = ToSet(s) \intersect T
         /\ Len(Only(s, T)) <= Len(s)
<1> DEFINE N == Len(s)
           step == [x \in (1..N) \X Seq(E) |-> IF s[x[1]] \in T THEN Append(x[2], s[x[1]]) ELSE x[2]]
<1>1. N \in Nat /\ \A i \in 1..N : s[i] \in E
  OBVIOUS
<1>2. step \in [(1..N) \X Seq(E) -> Seq(E)]
  <2>1. ASSUME NEW x \in (1..N) \X Seq(E)
        PROVE  (IF s[x[1]] \in T THEN Append(x[2], s[x[1]]) ELSE x[2]) \in Seq(E)
    <3>1. s[x[1]] \in E /\ x[2] \in Seq(E)
      BY <1>1
    <3> QED BY <3>1
  <2> QED BY <2>1
<1>3. \A i \in 1..N, q \in Seq(E) : step[<<i, q>>] = IF s[i] \in T THEN Append(q, s[i]) ELSE q
  OBVIOUS
<1>4. <<>> \in Seq(E)
  OBVIOUS
<1>5. PICK f \in [0..N -> Seq(E)] : f[0] = <<>> /\ \A i \in 1..N : f[i] = step[<<i, f[i - 1]>>]
  <2> HIDE DEF step, N
  <2>1. \E f : Unrolled(f, Seq(E), N, <<>>, step)
    BY <1>1, <1>2, <1>4, LoopUnrolls, Zenon
  <2> QED BY <2>1, Zenon DEF Unrolled
<1>6. \A i \in 1..N : f[i - 1] \in Seq(E)
  OBVIOUS
<1>7. \A i \in 1..N : f[i] = IF s[i] \in T THEN Append(f[i - 1], s[i]) ELSE f[i - 1]
  BY <1>3, <1>5, <1>6
<1> HIDE DEF step
<1> DEFINE Def(g) == g = [i \in 0..N |->
                           IF i = 0 THEN <<>>
                           ELSE IF s[i] \in T THEN Append(g[i - 1], s[i]) ELSE g[i - 1]]
           only == CHOOSE g : Def(g)
<1>8. Def(f)
  <2> DEFINE r == [i \in 0..N |-> IF i = 0 THEN <<>>
                                  ELSE IF s[i] \in T THEN Append(f[i - 1], s[i]) ELSE f[i - 1]]
  <2>1. ASSUME NEW i \in 0..N PROVE f[i] = r[i]
    <3>1. CASE i = 0
      BY <3>1, <1>5
    <3>2. CASE i # 0
      <4>1. i \in 1..N
        BY <3>2, <1>1
      <4> QED BY <3>2, <4>1, <1>7, Zenon
    <3> QED BY <3>1, <3>2, Zenon
  <2> QED BY <2>1, Zenon
<1>9. Def(only)
  BY <1>8, Zenon
<1>10. Only(s, T) = only[N]
  BY Zenon DEF Only
<1> HIDE DEF only
<1>11. only[0] = <<>> /\ \A i \in 1..N : only[i] = IF s[i] \in T THEN Append(only[i - 1], s[i]) ELSE only[i - 1]
  <2>1. 0 \in 0..N /\ \A i \in 1..N : i \in 0..N /\ i # 0
    BY <1>1
  <2>2. \A i \in 0..N : only[i] = IF i = 0 THEN <<>>
                                 ELSE IF s[i] \in T THEN Append(only[i - 1], s[i]) ELSE only[i - 1]
    BY <1>9, Zenon
  <2> HIDE DEF Def, N
  <2>3. only[0] = <<>>
    BY <2>1, <2>2
  <2>4. \A i \in 1..N : only[i] = IF s[i] \in T THEN Append(only[i - 1], s[i]) ELSE only[i - 1]
    BY <2>1, <2>2
  <2> QED BY <2>3, <2>4
<1> HIDE DEF Def
<1> DEFINE G == {i \in 0..N : /\ only[i] = f[i]
                              /\ \A x : x \in ToSet(f[i]) <=> x \in T /\ \E j \in 1..i : s[j] = x
                              /\ Len(f[i]) <= i}
<1>12. 0 \in G
  BY <1>5, <1>11, ToSetFacts
<1>13. ASSUME NEW n \in 1..N, n - 1 \in G PROVE n \in G
  <2>1. n \in 0..N /\ n - 1 \in 0..N /\ f[n - 1] \in Seq(E) /\ s[n] \in E
    BY <1>1
  <2>2. only[n] = f[n]
    BY <1>7, <1>11, <1>13
  <2>3. \A x : (\E j \in 1..n : s[j] = x) <=> (s[n] = x \/ \E j \in 1..(n - 1) : s[j] = x)
    BY <1>1
  <2>4. CASE s[n] \in T
    <3>1. f[n] = Append(f[n - 1], s[n])
      BY <1>7, <2>4
    <3>2. ToSet(f[n]) = ToSet(f[n - 1]) \union {s[n]}
      BY <2>1, <3>1, AppendFacts
    <3>3. \A x : x \in ToSet(f[n]) <=> x \in T /\ \E j \in 1..n : s[j] = x
      BY <1>13, <2>3, <2>4, <3>2
    <3>4. Len(f[n]) <= n
      BY <1>13, <2>1, <3>1
    <3> QED BY <2>1, <2>2, <3>3, <3>4
  <2>5. CASE s[n] \notin T
    <3>1. f[n] = f[n - 1]
      BY <1>7, <2>5
    <3>2. \A x : x \in ToSet(f[n]) <=> x \in T /\ \E j \in 1..n : s[j] = x
      BY <1>13, <2>3, <2>5, <3>1
    <3> QED BY <1>13, <2>1, <2>2, <3>1, <3>2
  <2> QED BY <2>4, <2>5
<1>14. N \in G
  <2> HIDE DEF G, N
  <2>1. \A n \in 0..N : n \in G
    BY <1>1, <1>12, <1>13, UpTo
  <2> QED BY <2>1, <1>1
<1>15. Only(s, T) = f[N] /\ f[N] \in Seq(E) /\ Len(f[N]) <= N
  BY <1>10, <1>14, <1>1
<1>16. ToSet(f[N]) = ToSet(s) \intersect T
  <2>1. ToSet(s) = {s[i] : i \in 1..N}
    BY ToSetFacts
  <2>2. \A x : x \in ToSet(f[N]) <=> x \in T /\ \E j \in 1..N : s[j] = x
    BY <1>14
  <2> QED BY <2>1, <2>2
<1> QED BY <1>15, <1>16

----------------------------------------------------------------------------
(***************************************************************************)
(* Texts: a word is a token or the end of an answer; beginnings, cuts and  *)
(* concatenations of texts.                                                *)
(***************************************************************************)
Word == Tokens \cup {Eog}
\* c is how t begins.
Begins(c, t) == Len(c) <= Len(t) /\ \A i \in 1..Len(c) : c[i] = t[i]

\* The beginning of a sequence.
LEMMA FirstFacts ==
  ASSUME NEW E, NEW s \in Seq(E), NEW n \in 0..Len(s)
  PROVE  First(s, n) \in Seq(E) /\ Len(First(s, n)) = n /\ Begins(First(s, n), s)
<1>1. Len(s) \in Nat
  OBVIOUS
<1>2. First(s, n) \in Seq(E) /\ Len(First(s, n)) = n
  BY <1>1 DEF First
<1>3. ASSUME NEW i \in 1..n PROVE First(s, n)[i] = s[i]
  BY <1>1 DEF First
<1> QED BY <1>1, <1>2, <1>3 DEF Begins

\* Two beginnings of one sequence.
LEMMA BeginsFacts ==
  ASSUME NEW E, NEW a \in Seq(E), NEW b \in Seq(E), NEW c \in Seq(E)
  PROVE  /\ Begins(a, a) /\ Begins(<<>>, a)
         /\ Begins(a, b) /\ Begins(b, c) => Begins(a, c)
         /\ Begins(a, c) /\ Begins(b, c) /\ Len(a) <= Len(b) => Begins(a, b)
         /\ Begins(a, b) /\ Len(a) >= Len(b) => a = b
         /\ Begins(a, b) => IsPrefix(a, b)
<1>0. Len(a) \in Nat /\ Len(b) \in Nat /\ Len(c) \in Nat
  OBVIOUS
<1>1. Begins(a, a) /\ Begins(<<>>, a)
  BY <1>0 DEF Begins
<1>2. Begins(a, b) /\ Begins(b, c) => Begins(a, c)
  BY <1>0 DEF Begins
<1>3. Begins(a, c) /\ Begins(b, c) /\ Len(a) <= Len(b) => Begins(a, b)
  BY <1>0 DEF Begins
<1>4. ASSUME Begins(a, b), Len(a) >= Len(b) PROVE a = b
  <2>1. Len(a) = Len(b) /\ \A i \in 1..Len(a) : a[i] = b[i]
    BY <1>0, <1>4 DEF Begins
  <2>2. a \in [1..Len(a) -> E] /\ b \in [1..Len(a) -> E]
    BY <2>1
  <2> QED BY <2>1, <2>2
<1>5. ASSUME Begins(a, b) PROVE IsPrefix(a, b)
  <2> DEFINE u == SubSeq(a, 1, Len(a))
             v == SubSeq(b, 1, Len(a))
  <2>1. u \in [1..Len(a) -> E] /\ v \in [1..Len(a) -> E]
    <3>1. Len(a) \in 0..Len(a) /\ Len(a) \in 0..Len(b)
      BY <1>0, <1>5 DEF Begins
    <3>2. First(a, Len(a)) \in Seq(E) /\ Len(First(a, Len(a))) = Len(a)
      BY <3>1, FirstFacts
    <3>3. First(b, Len(a)) \in Seq(E) /\ Len(First(b, Len(a))) = Len(a)
      BY <3>1, FirstFacts
    <3>4. u \in Seq(E) /\ Len(u) = Len(a) /\ v \in Seq(E) /\ Len(v) = Len(a)
      BY <3>2, <3>3 DEF First
    <3> HIDE DEF u, v
    <3> QED BY <3>4
  <2>2. \A i \in 1..Len(a) : u[i] = a[i] /\ v[i] = b[i]
    BY <1>0, <1>5 DEF Begins
  <2> HIDE DEF u, v
  <2>3. u = v
    BY <2>1, <2>2, <1>5 DEF Begins
  <2> QED BY <2>3, <1>5 DEF Begins, IsPrefix, u, v
<1> QED BY <1>1, <1>2, <1>3, <1>4, <1>5

\* One sequence behind another.
LEMMA ConcatFacts ==
  ASSUME NEW E, NEW s \in Seq(E), NEW t \in Seq(E)
  PROVE  /\ s \o t \in Seq(E) /\ Len(s \o t) = Len(s) + Len(t)
         /\ Begins(s, s \o t)
         /\ \A i \in 1..Len(s) : (s \o t)[i] = s[i]
         /\ \A i \in 1..Len(t) : (s \o t)[Len(s) + i] = t[i]
<1>1. /\ s \o t \in Seq(E) /\ Len(s \o t) = Len(s) + Len(t) /\ Len(s) \in Nat /\ Len(t) \in Nat
  OBVIOUS
<1>2. \A i \in 1..Len(s) : (s \o t)[i] = s[i]
  OBVIOUS
<1>3. \A i \in 1..Len(t) : (s \o t)[Len(s) + i] = t[i]
  OBVIOUS
<1> QED BY <1>1, <1>2, <1>3 DEF Begins

\* What is added to the beginning of a sequence, and continues it.
LEMMA Continues ==
  ASSUME NEW E, NEW s \in Seq(E), NEW t \in Seq(E), NEW u \in Seq(E),
         Begins(s, u), Len(s) + Len(t) <= Len(u),
         \A i \in 1..Len(t) : t[i] = u[Len(s) + i]
  PROVE  Begins(s \o t, u)
<1> DEFINE w == s \o t
<1>1. /\ w \in Seq(E) /\ Len(w) = Len(s) + Len(t) /\ Len(s) \in Nat /\ Len(t) \in Nat /\ Len(u) \in Nat
      /\ \A i \in 1..Len(s) : w[i] = s[i]
      /\ \A i \in 1..Len(t) : w[Len(s) + i] = t[i]
  BY ConcatFacts
<1> HIDE DEF w
<1>2. ASSUME NEW i \in 1..Len(w) PROVE w[i] = u[i]
  <2>1. CASE i \in 1..Len(s)
    BY <2>1, <1>1 DEF Begins
  <2>2. CASE i \notin 1..Len(s)
    <3>1. i - Len(s) \in 1..Len(t) /\ Len(s) + (i - Len(s)) = i
      BY <2>2, <1>1
    <3> QED BY <3>1, <1>1
  <2> QED BY <2>1, <2>2
<1>3. Begins(w, u)
  BY <1>1, <1>2 DEF Begins
<1> QED BY <1>3 DEF w

\* A stretch of a sequence.
LEMMA StretchFacts ==
  ASSUME NEW E, NEW s \in Seq(E), NEW a \in Nat, NEW b \in Nat, a <= b, b <= Len(s)
  PROVE  /\ SubSeq(s, a + 1, b) \in Seq(E) /\ Len(SubSeq(s, a + 1, b)) = b - a
         /\ \A i \in 1..(b - a) : SubSeq(s, a + 1, b)[i] = s[a + i]
<1>1. Len(s) \in Nat
  OBVIOUS
<1>2. \A i \in 1..(b - a) : a + i \in 1..Len(s)
  BY <1>1
<1>3. SubSeq(s, a + 1, b) \in Seq(E) /\ Len(SubSeq(s, a + 1, b)) = b - a
  BY <1>1
<1>4. ASSUME NEW i \in 1..(b - a) PROVE SubSeq(s, a + 1, b)[i] = s[a + i]
  <2>1. SubSeq(s, a + 1, b)[i] = s[((a + 1) + i) - 1]
    BY <1>1
  <2>2. ((a + 1) + i) - 1 = a + i
    OBVIOUS
  <2> QED BY <2>1, <2>2
<1> QED BY <1>3, <1>4

\* Two beginnings of one sequence have a common one.
LEMMA Shorter ==
  ASSUME NEW E, NEW a \in Seq(E), NEW b \in Seq(E), Begins(a, b), NEW n \in 0..Len(a)
  PROVE  First(a, n) = First(b, n)
<1>1. Len(a) \in Nat /\ Len(b) \in Nat /\ n \in 0..Len(b)
  BY DEF Begins
<1> DEFINE u == First(a, n)
           v == First(b, n)
<1>2. u \in Seq(E) /\ Len(u) = n /\ Begins(u, a) /\ v \in Seq(E) /\ Len(v) = n /\ Begins(v, b)
  BY <1>1, FirstFacts
<1> HIDE DEF u, v
<1>3. Begins(u, b)
  BY <1>2, BeginsFacts
<1>4. Begins(u, v)
  BY <1>2, <1>3, BeginsFacts
<1>5. u = v
  BY <1>2, <1>4, BeginsFacts
<1> QED BY <1>5 DEF u, v

\* What a cut leaves.
LEMMA CutFacts ==
  ASSUME NEW E, NEW m \in Seq(E), NEW n \in Nat
  PROVE  /\ CutTo(m, n) \in Seq(E)
         /\ Begins(CutTo(m, n), m)
         /\ Gap \notin E => Len(CutTo(m, n)) = Least(n, Len(m))
         /\ \/ Len(CutTo(m, n)) = Least(n, Len(m))
            \/ CutTo(m, n) = <<>> /\ \A i \in 1..Least(n, Len(m)) : m[i] = Gap
<1> DEFINE left == IF n < Len(m) THEN First(m, n) ELSE m
<1>1. Len(m) \in Nat
  OBVIOUS
<1>2. left \in Seq(E) /\ Len(left) = Least(n, Len(m)) /\ Begins(left, m)
  <2>1. CASE n < Len(m)
    BY <1>1, <2>1, FirstFacts DEF Least
  <2>2. CASE ~ n < Len(m)
    BY <1>1, <2>2, BeginsFacts DEF Least
  <2> QED BY <2>1, <2>2
<1>3. CutTo(m, n) = IF \A i \in DOMAIN left : left[i] = Gap THEN <<>> ELSE left
  BY DEF CutTo
<1> HIDE DEF left
<1>4. DOMAIN left = 1..Len(left) /\ \A i \in 1..Len(left) : left[i] \in E
  BY <1>2
<1>5. Least(n, Len(m)) \in Nat
  BY <1>1 DEF Least
<1>6. CASE \A i \in DOMAIN left : left[i] = Gap
  <2>1. CutTo(m, n) = <<>> /\ Begins(<<>>, m)
    BY <1>3, <1>6, BeginsFacts
  <2>2. \A i \in 1..Least(n, Len(m)) : m[i] = Gap
    BY <1>2, <1>4, <1>6 DEF Begins
  <2>3. Gap \notin E => Len(left) = 0
    <3> SUFFICES ASSUME Gap \notin E, Len(left) # 0 PROVE FALSE
      OBVIOUS
    <3>1. 1 \in 1..Len(left)
      BY <1>2, <1>5
    <3> QED BY <3>1, <1>4, <1>6
  <2>4. Len(<<>>) = 0 /\ <<>> \in Seq(E)
    OBVIOUS
  <2> QED BY <2>1, <2>2, <2>3, <2>4, <1>2
<1>7. CASE ~ \A i \in DOMAIN left : left[i] = Gap
  <2>1. CutTo(m, n) = left
    BY <1>3, <1>7
  <2> QED BY <2>1, <1>2
<1> QED BY <1>6, <1>7

\* The words of a context are no gaps, so a cut to n leaves the first n of them.
LEMMA CutWords ==
  ASSUME NEW m \in Seq(Word), NEW n \in 0..Len(m)
  PROVE  CutTo(m, n) \in Seq(Word) /\ Len(CutTo(m, n)) = n /\ CutTo(m, n) = First(m, n)
<1>1. Gap \notin Word /\ Len(m) \in Nat /\ n \in Nat
  BY ConversationAssumption DEF Word
<1>2. Least(n, Len(m)) = n
  BY <1>1 DEF Least
<1> DEFINE u == CutTo(m, n)
           v == First(m, n)
<1>3. u \in Seq(Word) /\ Len(u) = n /\ Begins(u, m)
  BY <1>1, <1>2, CutFacts
<1>4. v \in Seq(Word) /\ Len(v) = n /\ Begins(v, m)
  BY FirstFacts
<1> HIDE DEF u, v
<1>5. Begins(u, v)
  BY <1>3, <1>4, BeginsFacts
<1>6. u = v
  BY <1>3, <1>4, <1>5, BeginsFacts
<1> QED BY <1>3, <1>6 DEF u, v

----------------------------------------------------------------------------
(***************************************************************************)
(* Memories and checkpoints: their kinds, and what a checkpoint describes. *)
(***************************************************************************)
Cell == Word \cup {Gap}
Checkpoint == [n : Nat, tgt : Seq(Word), dft : Seq(Cell)]
Memories == [ctx : Seq(Word), dft : Seq(Cell), kv : Seq(Word), cps : Seq(Checkpoint)]

\* Every checkpoint holds a beginning of the text t.
Describe(cps, t) == \A c \in ToSet(cps) : c.n = Len(c.tgt) /\ Begins(c.tgt, t)
\* The record is a beginning of what the context holds and of the text t.
Recorded(m, t) == Begins(m.kv, m.ctx) /\ Begins(m.kv, t) /\ Describe(m.cps, t)
\* Nothing but the record is in the context.
Agreed(m) == m.ctx = m.kv /\ Describe(m.cps, m.kv)

\* What drop_after leaves.
LEMMA DropAfterFacts ==
  ASSUME NEW cps \in Seq(Checkpoint), NEW n \in Nat
  PROVE  /\ DropAfter(cps, n) \in Seq(Checkpoint)
         /\ Len(DropAfter(cps, n)) <= Len(cps)
         /\ ToSet(DropAfter(cps, n)) = {c \in ToSet(cps) : c.n <= n}
<1> DEFINE T == {c \in ToSet(cps) : c.n <= n}
<1>1. Only(cps, T) \in Seq(Checkpoint) /\ Len(Only(cps, T)) <= Len(cps)
      /\ ToSet(Only(cps, T)) = ToSet(cps) \intersect T
  BY OnlyFacts
<1> QED BY <1>1 DEF DropAfter

\* The last element of a list is one of it.
LEMMA LastFacts ==
  ASSUME NEW E, NEW s \in Seq(E), s # <<>>
  PROVE  Last(s) \in E /\ Last(s) \in ToSet(s) /\ Len(s) > 0
<1>1. Len(s) \in Nat /\ Len(s) > 0 /\ Len(s) \in 1..Len(s)
  OBVIOUS
<1>2. s[Len(s)] \in ToSet(s)
  BY <1>1, ToSetFacts
<1> QED BY <1>1, <1>2 DEF Last

\* A list has an element where its set has one.
LEMMA NonEmpty ==
  ASSUME NEW E, NEW s \in Seq(E)
  PROVE  s # <<>> <=> ToSet(s) # {}
<1>1. s # <<>> => ToSet(s) # {}
  BY LastFacts
<1> QED BY <1>1, ToSetFacts

\* A checkpoint is added to what was there, or to a part of it.
LEMMA CheckpointedFacts ==
  ASSUME NEW cps \in Seq(Checkpoint), NEW n \in Nat,
         NEW target \in Seq(Word), NEW draft \in Seq(Cell),
         NEW new, new = [n |-> n, tgt |-> target, dft |-> draft],
         NEW all, all = Checkpointed(cps, n, target, draft)
  PROVE  /\ all \in Seq(Checkpoint)
         /\ Len(cps) <= MaxCheckpoints => Len(all) <= MaxCheckpoints
         /\ ToSet(all) \subseteq ToSet(cps) \cup {new}
         /\ "target" \in Refuses /\ MaxCheckpoints # 0 => new \in ToSet(all)
<1> DEFINE
           T == {c \in ToSet(cps) : c.n # n}
           others == Only(cps, T)
           room == IF Len(others) < MaxCheckpoints THEN others
                   ELSE SubSeq(others, Len(others) - MaxCheckpoints + 2, Len(others))
<1>1. new \in Checkpoint /\ MaxCheckpoints \in Nat
  BY ConversationAssumption DEF Checkpoint
<1>2. CASE "target" \notin Refuses \/ MaxCheckpoints = 0
  <2>1. all = cps
    BY <1>2 DEF Checkpointed
  <2> QED BY <1>2, <2>1
<1>3. CASE "target" \in Refuses /\ MaxCheckpoints # 0
  <2>1. all = Append(room, new)
    BY <1>3 DEF Checkpointed
  <2>2. others \in Seq(Checkpoint) /\ ToSet(others) \subseteq ToSet(cps)
    BY OnlyFacts
  <2> HIDE DEF others
  <2>3. Len(others) \in Nat
    BY <2>2
  <2>4. room \in Seq(Checkpoint) /\ ToSet(room) \subseteq ToSet(others) /\ Len(room) < MaxCheckpoints
    <3>1. CASE Len(others) < MaxCheckpoints
      BY <3>1, <2>2
    <3>2. CASE ~ Len(others) < MaxCheckpoints
      <4> DEFINE a == Len(others) - MaxCheckpoints + 1
                 b == Len(others)
                 u == SubSeq(others, a + 1, b)
      <4>1. a \in Nat /\ b \in Nat /\ a <= b /\ b <= Len(others) /\ a + 1 = Len(others) - MaxCheckpoints + 2
            /\ b - a = MaxCheckpoints - 1
        BY <3>2, <2>3, <1>1, <1>3
      <4>2. room = u
        BY <3>2, <4>1
      <4>3. u \in Seq(Checkpoint) /\ Len(u) = b - a /\ \A i \in 1..(b - a) : u[i] = others[a + i]
        <5> HIDE DEF a, b
        <5> QED BY <4>1, <2>2, StretchFacts
      <4> HIDE DEF u
      <4>4. ToSet(u) = {u[i] : i \in 1..Len(u)} /\ ToSet(others) = {others[i] : i \in 1..Len(others)}
        BY <4>3, <2>2, ToSetFacts
      <4>5. \A i \in 1..(b - a) : a + i \in 1..Len(others)
        BY <4>1, <2>3
      <4>6. \A i \in 1..Len(u) : u[i] \in ToSet(others)
        BY <4>3, <4>4, <4>5
      <4>7. Len(u) < MaxCheckpoints
        BY <4>1, <4>3, <1>1
      <4> QED BY <4>2, <4>3, <4>4, <4>6, <4>7
    <3> QED BY <3>1, <3>2
  <2> HIDE DEF room
  <2>5. Append(room, new) \in Seq(Checkpoint) /\ Len(Append(room, new)) = Len(room) + 1
        /\ ToSet(Append(room, new)) = ToSet(room) \cup {new}
    BY <2>4, <1>1, AppendFacts
  <2>6. Len(room) \in Nat
    BY <2>4
  <2>7. Len(all) <= MaxCheckpoints
    BY <2>1, <2>4, <2>5, <2>6, <1>1
  <2> QED BY <2>1, <2>2, <2>4, <2>5, <2>7
<1> QED BY <1>2, <1>3

----------------------------------------------------------------------------
(***************************************************************************)
(* What a restore, and a cut that may be refused, leave.                   *)
(***************************************************************************)
\* The fields of the memories.
LEMMA MemoryFields ==
  ASSUME NEW m \in Memories
  PROVE  m.ctx \in Seq(Word) /\ m.dft \in Seq(Cell) /\ m.kv \in Seq(Word) /\ m.cps \in Seq(Checkpoint)
BY DEF Memories

\* The parts of a checkpoint.
LEMMA CheckpointFields ==
  ASSUME NEW cps \in Seq(Checkpoint), NEW c \in ToSet(cps)
  PROVE  c \in Checkpoint /\ c.n \in Nat /\ c.tgt \in Seq(Word) /\ c.dft \in Seq(Cell)
<1>1. c \in Checkpoint
  BY ToSetFacts
<1> QED BY <1>1 DEF Checkpoint

\* Nothing left but the draft context, and back at a checkpoint.
Lost(m, d) == [m EXCEPT !.ctx = <<>>, !.dft = d, !.kv = <<>>, !.cps = <<>>]
BackAt(m, c) == [m EXCEPT !.ctx = c.tgt, !.cps = DropAfter(@, c.n),
                          !.dft = IF Mtp THEN c.dft ELSE @, !.kv = CutTo(@, c.n)]

\* What a memory that refuses a cut is restored to.
LEMMA RestoresFacts ==
  ASSUME NEW m \in Memories, NEW n \in Nat, NEW r \in Restores(m, n)
  PROVE  \/ /\ \E d \in Seq(Cell) : r = <<Lost(m, d), 0>>
            /\ LoadsState => \A c \in ToSet(m.cps) : c.n > n
         \/ \E c \in ToSet(m.cps) : c.n <= n /\ r = <<BackAt(m, c), c.n>>
<1> DEFINE usable == DropAfter(m.cps, n)
           b == Last(usable)
           partly(c) == IF Mtp THEN {First(c.dft, i) : i \in 0..Len(c.dft)} ELSE {}
           halves == UNION {partly(c) : c \in ToSet(usable)}
<1>1. m.cps \in Seq(Checkpoint) /\ m.dft \in Seq(Cell)
  BY MemoryFields
<1>2. usable \in Seq(Checkpoint) /\ ToSet(usable) = {d \in ToSet(m.cps) : d.n <= n}
  BY <1>1, DropAfterFacts
<1>3. r \in IF usable = <<>> THEN {<<Lost(m, m.dft), 0>>}
            ELSE IF LoadsState THEN {<<BackAt(m, b), b.n>>}
            ELSE {<<BackAt(m, c), c.n>> : c \in ToSet(usable)}
                 \cup {<<Lost(m, d), 0>> : d \in {m.dft} \cup halves}
  BY DEF Restores, Lost, BackAt
<1>4. halves \subseteq Seq(Cell)
  <2>1. ASSUME NEW c \in ToSet(usable), NEW i \in 0..Len(c.dft)
        PROVE  First(c.dft, i) \in Seq(Cell)
    <3>1. c.dft \in Seq(Cell)
      BY <1>2, CheckpointFields
    <3> QED BY <3>1 DEF First
  <2> QED BY <2>1
<1> HIDE DEF usable, halves
<1>5. CASE usable = <<>>
  <2>1. r = <<Lost(m, m.dft), 0>>
    BY <1>3, <1>5
  <2>2. \A d \in ToSet(m.cps) : ~ d.n <= n
    BY <1>2, <1>5, NonEmpty
  <2>3. \A d \in ToSet(m.cps) : d.n \in Nat
    BY <1>1, CheckpointFields
  <2> QED BY <2>1, <2>2, <2>3, <1>1
<1>6. CASE usable # <<>> /\ LoadsState
  <2>1. b \in ToSet(m.cps) /\ b.n <= n
    BY <1>2, <1>6, LastFacts
  <2>2. r = <<BackAt(m, b), b.n>>
    BY <1>3, <1>6
  <2> HIDE DEF b
  <2> QED BY <2>1, <2>2
<1>7. CASE usable # <<>> /\ ~LoadsState
  <2>1. r \in {<<BackAt(m, c), c.n>> : c \in ToSet(usable)} \cup {<<Lost(m, d), 0>> : d \in {m.dft} \cup halves}
    BY <1>3, <1>7
  <2>2. CASE r \in {<<BackAt(m, c), c.n>> : c \in ToSet(usable)}
    BY <2>2, <1>2
  <2>3. CASE r \in {<<Lost(m, d), 0>> : d \in {m.dft} \cup halves}
    BY <2>3, <1>1, <1>4, <1>7
  <2> QED BY <2>1, <2>2, <2>3
<1> QED BY <1>5, <1>6, <1>7

\* keep_kv_prefix cuts, or restores.
LEMMA KeepFacts ==
  ASSUME NEW m \in Memories, NEW n0 \in Nat, NEW k \in Keep(m, n0),
         NEW n, n = Least(n0, Len(m.kv))
  PROVE  \/ k = <<[m EXCEPT !.ctx = CutTo(@, n), !.kv = CutTo(@, n), !.cps = DropAfter(@, n)], n>>
         \/ "target" \in Refuses /\ k \in Restores(m, n)
<1> DEFINE cut == [m EXCEPT !.ctx = CutTo(@, n), !.kv = CutTo(@, n), !.cps = DropAfter(@, n)]
<1>1. \E ok \in CutAnswers("target", m.ctx, n) : k \in IF ok THEN {<<cut, n>>} ELSE Restores(m, n)
  BY DEF Keep
<1> HIDE DEF cut
<1>2. PICK ok \in CutAnswers("target", m.ctx, n) : k \in IF ok THEN {<<cut, n>>} ELSE Restores(m, n)
  BY <1>1
<1>3. CASE ok
  BY <1>2, <1>3 DEF cut
<1>4. CASE ~ok
  <2>1. "target" \in Refuses
    BY <1>4 DEF CutAnswers
  <2> QED BY <1>2, <1>4, <2>1
<1> QED BY <1>3, <1>4

\* However the memory is cut back, the context then holds what the record says, which is a
\* beginning of what it said.
LEMMA KeepAgrees ==
  ASSUME NEW m \in Memories, NEW t \in Seq(Word), Recorded(m, t),
         NEW n0 \in Nat, NEW k \in Keep(m, n0)
  PROVE  /\ k[1] \in Memories /\ k[2] = Len(k[1].kv) /\ k[2] <= n0 /\ Agreed(k[1])
         /\ k[2] \in Nat /\ Len(k[1].cps) <= Len(m.cps) /\ Begins(k[1].kv, m.kv)
<1>0. /\ m.ctx \in Seq(Word) /\ m.dft \in Seq(Cell) /\ m.kv \in Seq(Word) /\ m.cps \in Seq(Checkpoint)
      /\ Begins(m.kv, m.ctx) /\ Begins(m.kv, t) /\ Describe(m.cps, t)
  BY MemoryFields DEF Recorded
<1> DEFINE n == Least(n0, Len(m.kv))
<1>1. n \in Nat /\ n <= n0 /\ n \in 0..Len(m.kv)
  <2>1. Len(m.kv) \in Nat
    BY <1>0
  <2> QED BY <2>1 DEF Least
<1>2. \/ k = <<[m EXCEPT !.ctx = CutTo(@, n), !.kv = CutTo(@, n), !.cps = DropAfter(@, n)], n>>
      \/ k \in Restores(m, n)
  BY KeepFacts
<1> HIDE DEF n
<1>3. ASSUME NEW a \in 0..Len(m.kv), NEW w \in Seq(Word), Len(w) = a, Begins(w, t)
      PROVE  w = CutTo(m.kv, a)
  <2> DEFINE u == CutTo(m.kv, a)
  <2>1. u \in Seq(Word) /\ Len(u) = a /\ Begins(u, m.kv)
    <3>1. u = First(m.kv, a) /\ u \in Seq(Word) /\ Len(u) = a
      BY <1>0, CutWords
    <3>2. Begins(First(m.kv, a), m.kv)
      BY <1>0, FirstFacts
    <3> QED BY <3>1, <3>2
  <2> HIDE DEF u
  <2>2. Begins(u, t)
    BY <2>1, <1>0, BeginsFacts
  <2>3. Len(w) <= Len(u) /\ Len(w) >= Len(u)
    BY <1>3, <2>1
  <2>4. Begins(w, u)
    BY <1>3, <2>1, <2>2, <2>3, BeginsFacts
  <2>5. w = u
    BY <1>3, <2>1, <2>3, <2>4, BeginsFacts
  <2> QED BY <2>5 DEF u
<1>4. ASSUME NEW a \in 0..Len(m.kv)
      PROVE  /\ CutTo(m.kv, a) \in Seq(Word) /\ Len(CutTo(m.kv, a)) = a /\ Begins(CutTo(m.kv, a), m.kv)
             /\ Describe(DropAfter(m.cps, a), CutTo(m.kv, a))
             /\ DropAfter(m.cps, a) \in Seq(Checkpoint) /\ Len(DropAfter(m.cps, a)) <= Len(m.cps)
  <2> DEFINE u == CutTo(m.kv, a)
             rest == DropAfter(m.cps, a)
  <2>0. a \in Nat /\ Len(m.kv) \in Nat
    BY <1>0
  <2>1. u \in Seq(Word) /\ Len(u) = a /\ Begins(u, m.kv)
    <3>1. u = First(m.kv, a) /\ u \in Seq(Word) /\ Len(u) = a
      BY <1>0, CutWords
    <3>2. Begins(First(m.kv, a), m.kv)
      BY <1>0, FirstFacts
    <3> QED BY <3>1, <3>2
  <2>2. rest \in Seq(Checkpoint) /\ Len(rest) <= Len(m.cps) /\ ToSet(rest) = {c \in ToSet(m.cps) : c.n <= a}
    BY <2>0, <1>0, DropAfterFacts
  <2> HIDE DEF u, rest
  <2>3. Begins(u, t)
    BY <2>1, <1>0, BeginsFacts
  <2>4. ASSUME NEW c \in ToSet(rest) PROVE c.n = Len(c.tgt) /\ Begins(c.tgt, u)
    <3>1. c \in ToSet(m.cps) /\ c.n <= a /\ c.n = Len(c.tgt) /\ Begins(c.tgt, t)
      BY <2>2, <1>0 DEF Describe
    <3>2. c.tgt \in Seq(Word)
      BY <3>1, <1>0, CheckpointFields
    <3> QED BY <3>1, <3>2, <2>1, <2>3, BeginsFacts
  <2>5. Describe(rest, u)
    BY <2>4 DEF Describe
  <2> QED BY <2>1, <2>2, <2>5 DEF u, rest
<1>5. CASE k = <<[m EXCEPT !.ctx = CutTo(@, n), !.kv = CutTo(@, n), !.cps = DropAfter(@, n)], n>>
  <2>1. /\ k[2] = n /\ k[1].ctx = CutTo(m.ctx, n) /\ k[1].kv = CutTo(m.kv, n)
        /\ k[1].cps = DropAfter(m.cps, n) /\ k[1].dft = m.dft
    BY <1>5 DEF Memories
  <2>2. k[1] = [ctx |-> CutTo(m.ctx, n), dft |-> m.dft, kv |-> CutTo(m.kv, n), cps |-> DropAfter(m.cps, n)]
    BY <1>5 DEF Memories
  <2>3. CutTo(m.ctx, n) = CutTo(m.kv, n)
    <3>1. n \in 0..Len(m.ctx)
      BY <1>0, <1>1 DEF Begins
    <3>2. CutTo(m.ctx, n) = First(m.ctx, n) /\ CutTo(m.kv, n) = First(m.kv, n)
      BY <3>1, <1>0, <1>1, CutWords
    <3>3. First(m.kv, n) = First(m.ctx, n)
      BY <1>0, <1>1, Shorter
    <3> QED BY <3>2, <3>3
  <2>4. k[1] \in Memories
    BY <2>2, <2>3, <1>0, <1>1, <1>4 DEF Memories
  <2>5. Agreed(k[1])
    BY <2>1, <2>3, <1>1, <1>4 DEF Agreed
  <2> QED BY <2>1, <2>4, <2>5, <1>1, <1>4
<1>6. CASE k \in Restores(m, n)
  <2>1. ASSUME NEW d \in Seq(Cell), k = <<Lost(m, d), 0>>
        PROVE  /\ k[1] \in Memories /\ k[2] = Len(k[1].kv) /\ k[2] <= n0 /\ Agreed(k[1])
               /\ k[2] \in Nat /\ Len(k[1].cps) <= Len(m.cps) /\ Begins(k[1].kv, m.kv)
    <3>1. k[1] = [ctx |-> <<>>, dft |-> d, kv |-> <<>>, cps |-> <<>>] /\ k[2] = 0
      BY <2>1 DEF Memories, Lost
    <3>2. <<>> \in Seq(Word) /\ <<>> \in Seq(Checkpoint) /\ Len(<<>>) = 0 /\ Len(m.cps) \in Nat
      BY <1>0
    <3>3. k[1] \in Memories
      BY <3>1, <3>2, <1>0 DEF Memories
    <3>4. Agreed(k[1])
      BY <3>1, ToSetFacts DEF Agreed, Describe
    <3>5. Begins(<<>>, m.kv)
      BY <1>0, BeginsFacts
    <3> QED BY <3>1, <3>2, <3>3, <3>4, <3>5
  <2>2. ASSUME NEW c \in ToSet(m.cps), c.n <= n,
               k = <<BackAt(m, c), c.n>>
        PROVE  /\ k[1] \in Memories /\ k[2] = Len(k[1].kv) /\ k[2] <= n0 /\ Agreed(k[1])
               /\ k[2] \in Nat /\ Len(k[1].cps) <= Len(m.cps) /\ Begins(k[1].kv, m.kv)
    <3>1. c \in Checkpoint /\ c.n \in Nat /\ c.tgt \in Seq(Word) /\ c.dft \in Seq(Cell)
      BY <1>0, CheckpointFields
    <3>2. c.n = Len(c.tgt) /\ Begins(c.tgt, t)
      BY <1>0 DEF Describe
    <3>3. c.n \in 0..Len(m.kv)
      BY <3>1, <2>2, <1>1
    <3>4. c.tgt = CutTo(m.kv, c.n)
      BY <3>1, <3>2, <3>3, <1>3
    <3>5. k[1] = [ctx |-> c.tgt, dft |-> IF Mtp THEN c.dft ELSE m.dft, kv |-> CutTo(m.kv, c.n),
                  cps |-> DropAfter(m.cps, c.n)] /\ k[2] = c.n
      BY <2>2 DEF Memories, BackAt
    <3>6. /\ CutTo(m.kv, c.n) \in Seq(Word) /\ Len(CutTo(m.kv, c.n)) = c.n /\ Begins(CutTo(m.kv, c.n), m.kv)
          /\ Describe(DropAfter(m.cps, c.n), CutTo(m.kv, c.n))
          /\ DropAfter(m.cps, c.n) \in Seq(Checkpoint) /\ Len(DropAfter(m.cps, c.n)) <= Len(m.cps)
      BY <3>3, <1>4
    <3>7. k[1] \in Memories
      BY <3>1, <3>5, <3>6, <1>0 DEF Memories
    <3>8. Agreed(k[1])
      BY <3>4, <3>5, <3>6 DEF Agreed
    <3>9. c.n <= n0
      BY <3>1, <2>2, <1>1
    <3> QED BY <3>1, <3>5, <3>6, <3>7, <3>8, <3>9
  <2> QED BY <2>1, <2>2, <1>1, <1>6, RestoresFacts
<1> QED BY <1>2, <1>5, <1>6

----------------------------------------------------------------------------
(***************************************************************************)
(* What a turn's ways of cutting the memories leave.                       *)
(***************************************************************************)
\* A cut keeps the kinds of the memories.
LEMMA CutTyped ==
  ASSUME NEW n \in Nat
  PROVE  /\ \A s \in Seq(Word) : CutTo(s, n) \in Seq(Word)
         /\ \A s \in Seq(Cell) : CutTo(s, n) \in Seq(Cell)
BY CutFacts

\* Memories, made of four parts.
LEMMA MemoryMade ==
  ASSUME NEW a \in Seq(Word), NEW b \in Seq(Cell), NEW c \in Seq(Word), NEW d \in Seq(Checkpoint),
         NEW m, m = [ctx |-> a, dft |-> b, kv |-> c, cps |-> d]
  PROVE  m \in Memories /\ m.ctx = a /\ m.dft = b /\ m.kv = c /\ m.cps = d
BY DEF Memories

\* Memories with another context are these.
LEMMA MemoryWith ==
  ASSUME NEW m \in Memories, NEW a \in Seq(Word), NEW r, r = [m EXCEPT !.ctx = a]
  PROVE  r \in Memories /\ r.ctx = a /\ r.dft = m.dft /\ r.kv = m.kv /\ r.cps = m.cps
<1>1. m.dft \in Seq(Cell) /\ m.kv \in Seq(Word) /\ m.cps \in Seq(Checkpoint)
  BY MemoryFields
<1>2. r = [ctx |-> a, dft |-> m.dft, kv |-> m.kv, cps |-> m.cps]
  BY DEF Memories
<1> QED BY <1>1, <1>2, MemoryMade

\* Whatever is kept of a memory is a memory.
LEMMA KeepTyped ==
  ASSUME NEW m \in Memories, NEW n0 \in Nat, NEW k \in Keep(m, n0)
  PROVE  k[1] \in Memories /\ k[2] \in Nat /\ Len(k[1].cps) <= Len(m.cps)
<1>0. /\ m.ctx \in Seq(Word) /\ m.dft \in Seq(Cell) /\ m.kv \in Seq(Word) /\ m.cps \in Seq(Checkpoint)
  BY MemoryFields
<1> DEFINE n == Least(n0, Len(m.kv))
<1>1. n \in Nat
  <2>1. Len(m.kv) \in Nat
    BY <1>0
  <2> QED BY <2>1 DEF Least
<1>2. \/ k = <<[m EXCEPT !.ctx = CutTo(@, n), !.kv = CutTo(@, n), !.cps = DropAfter(@, n)], n>>
      \/ k \in Restores(m, n)
  BY KeepFacts
<1> HIDE DEF n
<1>3. ASSUME NEW a \in Nat
      PROVE  CutTo(m.ctx, a) \in Seq(Word) /\ CutTo(m.kv, a) \in Seq(Word)
             /\ DropAfter(m.cps, a) \in Seq(Checkpoint) /\ Len(DropAfter(m.cps, a)) <= Len(m.cps)
  BY <1>0, CutTyped, DropAfterFacts
<1>4. CASE k = <<[m EXCEPT !.ctx = CutTo(@, n), !.kv = CutTo(@, n), !.cps = DropAfter(@, n)], n>>
  <2>1. k[1] = [ctx |-> CutTo(m.ctx, n), dft |-> m.dft, kv |-> CutTo(m.kv, n), cps |-> DropAfter(m.cps, n)]
        /\ k[2] = n
    BY <1>4 DEF Memories
  <2> QED BY <2>1, <1>0, <1>1, <1>3 DEF Memories
<1>5. CASE k \in Restores(m, n)
  <2>1. ASSUME NEW d \in Seq(Cell), k = <<Lost(m, d), 0>>
        PROVE  k[1] \in Memories /\ k[2] \in Nat /\ Len(k[1].cps) <= Len(m.cps)
    <3>1. k[1] = [ctx |-> <<>>, dft |-> d, kv |-> <<>>, cps |-> <<>>] /\ k[2] = 0
      BY <2>1 DEF Memories, Lost
    <3>2. <<>> \in Seq(Word) /\ <<>> \in Seq(Checkpoint) /\ Len(<<>>) = 0 /\ Len(m.cps) \in Nat
      BY <1>0
    <3> QED BY <3>1, <3>2, <1>0 DEF Memories
  <2>2. ASSUME NEW c \in ToSet(m.cps), k = <<BackAt(m, c), c.n>>
        PROVE  k[1] \in Memories /\ k[2] \in Nat /\ Len(k[1].cps) <= Len(m.cps)
    <3>1. c \in Checkpoint /\ c.n \in Nat /\ c.tgt \in Seq(Word) /\ c.dft \in Seq(Cell)
      BY <1>0, CheckpointFields
    <3>2. k[1] = [ctx |-> c.tgt, dft |-> IF Mtp THEN c.dft ELSE m.dft, kv |-> CutTo(m.kv, c.n),
                  cps |-> DropAfter(m.cps, c.n)] /\ k[2] = c.n
      BY <2>2 DEF Memories, BackAt
    <3>3. (IF Mtp THEN c.dft ELSE m.dft) \in Seq(Cell)
      BY <3>1, <1>0
    <3>4. CutTo(m.kv, c.n) \in Seq(Word) /\ DropAfter(m.cps, c.n) \in Seq(Checkpoint)
          /\ Len(DropAfter(m.cps, c.n)) <= Len(m.cps)
      BY <3>1, <1>3
    <3> QED BY <3>1, <3>2, <3>3, <3>4, MemoryMade
  <2> QED BY <2>1, <2>2, <1>1, <1>5, RestoresFacts
<1> QED BY <1>2, <1>4, <1>5

\* The draft context is cut, or emptied where it refuses.
LEMMA DraftToFacts ==
  ASSUME NEW m \in Memories, NEW n \in Nat, NEW r \in DraftTo(m, n)
  PROVE  /\ r \in Memories /\ r.ctx = m.ctx /\ r.kv = m.kv /\ r.cps = m.cps
         /\ r.dft = CutTo(m.dft, n) \/ (r.dft = <<>> /\ (Mtp => "draft" \in Refuses))
<1>0. /\ m.ctx \in Seq(Word) /\ m.dft \in Seq(Cell) /\ m.kv \in Seq(Word) /\ m.cps \in Seq(Checkpoint)
  BY MemoryFields
<1>1. PICK ok \in IF Mtp THEN CutAnswers("draft", m.dft, n) ELSE {TRUE} :
         r = [m EXCEPT !.dft = IF ok THEN CutTo(@, n) ELSE <<>>]
  BY DEF DraftTo
<1>2. r = [ctx |-> m.ctx, dft |-> IF ok THEN CutTo(m.dft, n) ELSE <<>>, kv |-> m.kv, cps |-> m.cps]
  BY <1>1 DEF Memories
<1>3. CutTo(m.dft, n) \in Seq(Cell) /\ <<>> \in Seq(Cell)
  BY <1>0, CutTyped
<1>4. ok \/ (Mtp => "draft" \in Refuses)
  BY <1>1 DEF CutAnswers
<1>5. r \in Memories
  BY <1>0, <1>2, <1>3 DEF Memories
<1> QED BY <1>2, <1>4, <1>5

\* Nothing, in the memory.
LEMMA EmptiedFacts == Emptied \in Memories /\ Agreed(Emptied) /\ Emptied.cps = <<>>
<1>1. <<>> \in Seq(Word) /\ <<>> \in Seq(Checkpoint) /\ <<>> \in Seq(Cell)
  OBVIOUS
<1> QED BY <1>1, ToSetFacts DEF Emptied, Memories, Agreed, Describe

\* A turn rolled back leaves what is kept of it, with the draft's memory cut, or nothing.
LEMMA RolledBackFacts ==
  ASSUME NEW m \in Memories, n_common \in Nat, chat, NEW r \in RolledBack(m)
  PROVE  \/ r = Emptied
         \/ \E k \in Keep(m, n_common) : r = [k[1] EXCEPT !.dft = CutTo(@, k[2])]
<1>1. PICK k \in Keep(m, n_common) :
        r \in {IF ok THEN [k[1] EXCEPT !.dft = CutTo(@, k[2])] ELSE Emptied :
                 ok \in IF Mtp THEN CutAnswers("draft", k[1].dft, k[2]) ELSE {TRUE}}
  BY DEF RolledBack
<1> QED BY <1>1

\* The same, with its kinds.
LEMMA RolledBackAgrees ==
  ASSUME NEW m \in Memories, n_common \in Nat, NEW r \in RolledBack(m)
  PROVE  /\ r \in Memories /\ (Len(r.cps) <= Len(m.cps) \/ r.cps = <<>>)
         /\ chat => \A t \in Seq(Word) : Recorded(m, t) => Agreed(r)
<1>0. /\ m.ctx \in Seq(Word) /\ m.dft \in Seq(Cell) /\ m.kv \in Seq(Word) /\ m.cps \in Seq(Checkpoint)
  BY MemoryFields
<1>1. CASE ~chat
  <2>1. r = [ctx |-> <<>>, dft |-> <<>>, kv |-> m.kv, cps |-> m.cps]
    BY <1>1 DEF RolledBack, Memories
  <2>2. <<>> \in Seq(Word) /\ <<>> \in Seq(Cell) /\ Len(m.cps) \in Nat
    BY <1>0
  <2> QED BY <1>0, <1>1, <2>1, <2>2 DEF Memories
<1>2. CASE chat
  <2>1. CASE r = Emptied
    BY <2>1, EmptiedFacts
  <2>2. ASSUME NEW k \in Keep(m, n_common), r = [k[1] EXCEPT !.dft = CutTo(@, k[2])]
        PROVE  /\ r \in Memories /\ Len(r.cps) <= Len(m.cps)
               /\ \A t \in Seq(Word) : Recorded(m, t) => Agreed(r)
    <3>1. k[1] \in Memories /\ k[2] \in Nat /\ Len(k[1].cps) <= Len(m.cps)
      BY KeepTyped
    <3>2. r = [ctx |-> k[1].ctx, dft |-> CutTo(k[1].dft, k[2]), kv |-> k[1].kv, cps |-> k[1].cps]
      BY <3>1, <2>2 DEF Memories
    <3>3. CutTo(k[1].dft, k[2]) \in Seq(Cell)
      BY <3>1, MemoryFields, CutTyped
    <3>4. r \in Memories /\ Len(r.cps) <= Len(m.cps)
      BY <3>1, <3>2, <3>3, MemoryFields DEF Memories
    <3>5. ASSUME NEW t \in Seq(Word), Recorded(m, t) PROVE Agreed(r)
      <4>1. Agreed(k[1])
        BY <3>5, KeepAgrees
      <4> QED BY <4>1, <3>2 DEF Agreed
    <3> QED BY <3>4, <3>5
  <2> QED BY <1>2, <2>1, <2>2, RolledBackFacts
<1> QED BY <1>1, <1>2

\* What the end of a turn leaves of the memories.
LEMMA TrimmedAgrees ==
  ASSUME NEW m \in Memories, EmittedEnd \in Nat, NEW r \in Trimmed(m)
  PROVE  /\ r \in Memories /\ Len(r.cps) <= Len(m.cps)
         /\ MaxDraft = 0 => r = m
         /\ chat /\ MaxDraft # 0 /\ Recorded(m, m.kv) => Agreed(r)
<1>0. /\ m.ctx \in Seq(Word) /\ m.dft \in Seq(Cell) /\ m.kv \in Seq(Word) /\ m.cps \in Seq(Checkpoint)
      /\ Len(m.cps) \in Nat
  BY MemoryFields
<1>1. CASE MaxDraft = 0
  BY <1>0, <1>1 DEF Trimmed
<1>2. CASE MaxDraft # 0 /\ chat
  <2>1. PICK k \in Keep(m, EmittedEnd) : r \in DraftTo(k[1], EmittedEnd)
    BY <1>2 DEF Trimmed
  <2>2. k[1] \in Memories /\ k[2] \in Nat /\ Len(k[1].cps) <= Len(m.cps)
    BY KeepTyped
  <2>3. r \in Memories /\ r.ctx = k[1].ctx /\ r.kv = k[1].kv /\ r.cps = k[1].cps
    BY <2>1, <2>2, DraftToFacts
  <2>4. ASSUME Recorded(m, m.kv) PROVE Agreed(r)
    <3>1. Agreed(k[1])
      BY <1>0, <2>4, KeepAgrees
    <3> QED BY <3>1, <2>3 DEF Agreed
  <2> QED BY <1>2, <2>2, <2>3, <2>4
<1>3. CASE MaxDraft # 0 /\ ~chat
  <2> DEFINE Rest(ok) == [m EXCEPT !.ctx = IF ok THEN CutTo(@, EmittedEnd) ELSE <<>>]
  <2>1. PICK ok \in CutAnswers("target", m.ctx, EmittedEnd) : r \in DraftTo(Rest(ok), EmittedEnd)
    BY <1>3 DEF Trimmed
  <2>2. PICK u : u = Rest(ok)
    OBVIOUS
  <2>3. CutTo(m.ctx, EmittedEnd) \in Seq(Word) /\ <<>> \in Seq(Word)
    BY <1>0, CutTyped
  <2>4. PICK a : a = IF ok THEN CutTo(m.ctx, EmittedEnd) ELSE <<>>
    OBVIOUS
  <2>5. a \in Seq(Word)
    BY <2>3, <2>4
  <2>6. u = [m EXCEPT !.ctx = a]
    BY <2>2, <2>4
  <2>7. r \in DraftTo(u, EmittedEnd)
    BY <2>1, <2>2
  <2>8. u \in Memories /\ u.cps = m.cps
    BY <2>5, <2>6, MemoryWith
  <2>9. r \in Memories /\ r.cps = m.cps
    BY <2>7, <2>8, DraftToFacts
  <2> QED BY <1>0, <1>3, <2>9
<1> QED BY <1>1, <1>2, <1>3

----------------------------------------------------------------------------
(***************************************************************************)
(* The invariants, each over the one before it: what the fields are        *)
(* (Typed), what a turn undoes to (Undoes, Undone), what a decision holds  *)
(* (Decided), that the record is the context (RecordAgrees), and that the  *)
(* draft stands with the target (DraftStands).                             *)
(***************************************************************************)
Voices == {"user", "assistant"}
InTurn == {"render", "prefill", "sample", "decode", "parse", "finish"}

\* Every message of h was answered.
Answered(h) == h # <<>> => Last(h) = "assistant"

\* The kinds of the variables, and what a turn can still undo.
Typed ==
    /\ Memory \in Memories /\ Len(checkpoints) <= MaxCheckpoints
    /\ history \in Seq(Voices) /\ before \in Seq(Voices)
    /\ kept \in Seq(Tokens) /\ tokens \in Seq(Tokens)
    /\ pc \in InTurn \cup {"idle", "split", "score", "dead"}
    /\ undo \in {"nothing", "pop", "replace"}
    /\ cancel \in BOOLEAN /\ chat \in BOOLEAN /\ structured \in BOOLEAN
    /\ cancelled \in BOOLEAN /\ foreign \in BOOLEAN
    /\ n_common \in Nat /\ fed \in Nat /\ n_gen \in Nat
    /\ pc = "decode" => tok \in Tokens

\* Only a turn that is not over has something to undo, and only in a conversation.
Undoes ==
    /\ undo = "pop" => history # <<>>
    /\ pc \notin InTurn => chat /\ undo = "nothing"
    /\ ~chat => foreign /\ undo = "nothing"

\* With what the turn said undone, every message was answered.
Undone == pc # "dead" => Answered(UndoneHistory)

\* A decision is prefilled behind what was restored, and scored on all of it.
Decided ==
    /\ pc = "split" => /\ Begins(ctx, tokens) /\ Len(ctx) <= fed /\ fed <= Len(tokens)
    /\ pc = "score" => ctx = tokens
    /\ pc \in {"split", "score"} => kv = <<>> /\ checkpoints = <<>> /\ dft = <<>>

\* What the record says of the context in every step of a turn.
RecordAgrees ==
    ~foreign =>
      /\ pc \in {"idle", "render"} => Agreed(Memory)
      /\ pc = "prefill" => /\ Begins(kv, tokens) /\ Len(kv) = n_common /\ n_common <= fed
                           /\ Begins(ctx, tokens) /\ Len(ctx) = fed /\ fed <= Len(tokens)
                           /\ Describe(checkpoints, tokens)
      /\ pc \in {"sample", "decode"} => Agreed(Memory) /\ Len(kv) = EmittedEnd
      /\ pc = "parse" => /\ Recorded(Memory, kv) /\ Len(kv) = EmittedEnd
                         /\ MaxDraft = 0 /\ ~cancelled => ctx = kv
      /\ pc = "finish" => /\ Recorded(Memory, kv)
                          /\ MaxDraft # 0 \/ ~cancelled => ctx = kv

\* The draft's memory d holds what c says as far as c goes, or nothing; it can be without some of
\* it only where it refuses a cut.
Covers(d, c) ==
    \/ d = <<>> /\ (c # <<>> => "draft" \in Refuses)
    \/ /\ Len(c) <= Len(d)
       /\ \A i \in 1..Len(c) : d[i] = c[i] \/ (d[i] = Gap /\ "draft" \in Refuses)
\* The same, and nothing past it.
Mirrors(d, c) == Covers(d, c) /\ Len(d) <= Len(c)

\* The target's memory comes back from its checkpoints where it refuses a cut.
StateComesBack == Mtp /\ "target" \in Refuses => MaxCheckpoints > 0 /\ LoadsState

\* Where the draft stands in every step of a turn.
DraftStands ==
    Mtp /\ ~foreign =>
      /\ pc \in InTurn \cup {"idle"} => \A c \in ToSet(checkpoints) : Mirrors(c.dft, c.tgt)
      /\ pc \in {"idle", "render", "prefill", "sample", "decode", "finish"} => Mirrors(dft, ctx)
      /\ pc = "parse" => Covers(dft, kv)
      /\ pc \in {"sample", "decode", "parse"} /\ "target" \in Refuses =>
           \E c \in ToSet(checkpoints) : c.n <= EmittedEnd

----------------------------------------------------------------------------
(***************************************************************************)
(* What a turn decodes next: the prompt's pieces, the drafts.              *)
(***************************************************************************)
\* A record's beginning that a prompt shares.
LEMMA CommonPrefixFacts ==
  ASSUME NEW s \in Seq(Word), NEW t \in Seq(Word), Len(t) > 0, NEW n, n = CommonPrefix(s, t)
  PROVE  n \in Nat /\ n <= Len(t) - 1 /\ n <= Len(s) /\ First(s, n) = First(t, n)
<1>0. Len(s) \in Nat /\ Len(t) \in Nat
  OBVIOUS
<1> DEFINE top == Least(Len(s), Len(t) - 1)
           P == {k \in 0..top : k = top \/ s[k + 1] # t[k + 1]}
           Shared(k) == /\ k <= Len(s) /\ First(s, k) = First(t, k)
                        /\ k = Len(t) - 1 \/ k = Len(s) \/ s[k + 1] # t[k + 1]
<1>1. top \in Nat /\ top <= Len(s) /\ top <= Len(t) - 1 /\ (top = Len(s) \/ top = Len(t) - 1)
  BY <1>0 DEF Least
<1> HIDE DEF top
<1>2. top \in P /\ P \subseteq Nat
  BY <1>1
<1>3. PICK k \in P : \A j \in P : k <= j
  BY <1>2, LeastNumber
<1>4. k \in 0..top /\ (k = top \/ s[k + 1] # t[k + 1])
  OBVIOUS
<1>5. ASSUME NEW i \in 1..k PROVE s[i] = t[i]
  <2>1. i - 1 \in 0..top /\ i - 1 < k /\ i - 1 # top /\ (i - 1) + 1 = i
    BY <1>1, <1>4
  <2>2. i - 1 \notin P
    BY <1>3, <1>4, <2>1
  <2> QED BY <2>1, <2>2
<1> HIDE DEF P
<1>6. First(s, k) = First(t, k)
  <2> DEFINE u == First(s, k)
             v == First(t, k)
  <2>1. u \in Seq(Word) /\ Len(u) = k /\ Begins(u, s) /\ v \in Seq(Word) /\ Len(v) = k /\ Begins(v, t)
    <3>1. k \in 0..Len(s) /\ k \in 0..Len(t)
      BY <1>0, <1>1, <1>4
    <3> QED BY <3>1, FirstFacts
  <2> HIDE DEF u, v
  <2>2. Begins(u, v)
    BY <2>1, <1>5 DEF Begins
  <2>3. u = v
    BY <2>1, <2>2, BeginsFacts
  <2> QED BY <2>3 DEF u, v
<1>7. k \in 0..(Len(t) - 1) /\ Shared(k)
  BY <1>0, <1>1, <1>4, <1>6
<1>8. n \in 0..(Len(t) - 1) /\ Shared(n)
  <2>1. n = CHOOSE j \in 0..(Len(t) - 1) : Shared(j)
    BY DEF CommonPrefix
  <2> HIDE DEF Shared
  <2> QED BY <1>7, <2>1
<1> QED BY <1>0, <1>8

\* A prompt is a sequence of tokens, and not empty.
LEMMA PromptFacts ==
  ASSUME NEW t \in Prompts
  PROVE  t \in Seq(Tokens) /\ t \in Seq(Word) /\ Len(t) > 0
<1>1. NCtx \in Nat
  BY ConversationAssumption
<1>2. PICK n \in 1..(NCtx - 1) : t \in [1..n -> Tokens]
  BY DEF Prompts
<1>3. n \in Nat /\ n > 0
  BY <1>1
<1>4. t \in Seq(Tokens) /\ Len(t) = n
  BY <1>2, <1>3
<1>5. t \in Seq(Word)
  BY <1>4 DEF Word
<1> QED BY <1>3, <1>4, <1>5

\* Tokens are words, words are cells.
LEMMA WordFacts ==
  /\ \A s \in Seq(Tokens) : s \in Seq(Word) /\ Len(s) \in Nat
  /\ \A s \in Seq(Word) : s \in Seq(Cell) /\ Len(s) \in Nat
  /\ Gap \notin Word
BY ConversationAssumption DEF Word, Cell

\* The messages but the last.
LEMMA FrontFacts ==
  ASSUME NEW E, NEW h \in Seq(E)
  PROVE  /\ h # <<>> => Front(h) \in Seq(E)
         /\ \A x \in E : Append(h, x) \in Seq(E) /\ Append(h, x) # <<>>
                         /\ Front(Append(h, x)) = h /\ Last(Append(h, x)) = x
<1>0. Len(h) \in Nat
  OBVIOUS
<1>1. ASSUME h # <<>> PROVE Front(h) \in Seq(E)
  BY <1>0, <1>1 DEF Front
<1>2. ASSUME NEW x \in E
      PROVE  Append(h, x) \in Seq(E) /\ Append(h, x) # <<>>
             /\ Front(Append(h, x)) = h /\ Last(Append(h, x)) = x
  <2> DEFINE g == Append(h, x)
  <2>1. g \in Seq(E) /\ Len(g) = Len(h) + 1 /\ g[Len(h) + 1] = x /\ \A i \in 1..Len(h) : g[i] = h[i]
    OBVIOUS
  <2> HIDE DEF g
  <2>2. g # <<>>
    BY <2>1, <1>0
  <2>3. Last(g) = x
    BY <2>1 DEF Last
  <2>4. Front(g) = First(g, Len(h))
    BY <2>1, <1>0 DEF Front, First
  <2>5. First(g, Len(h)) = h
    <3>1. Len(h) \in 0..Len(g)
      BY <2>1, <1>0
    <3> DEFINE u == First(g, Len(h))
    <3>2. u \in Seq(E) /\ Len(u) = Len(h) /\ Begins(u, g)
      BY <3>1, <2>1, FirstFacts
    <3> HIDE DEF u
    <3>3. Begins(u, h)
      BY <3>2, <2>1, <1>0 DEF Begins
    <3>4. u = h
      BY <3>2, <3>3, BeginsFacts
    <3> QED BY <3>4 DEF u
  <2> QED BY <2>1, <2>2, <2>3, <2>4, <2>5 DEF g
<1> QED BY <1>1, <1>2

\* What a stopped decode leaves.
LEMMA StoppedFacts ==
  ASSUME NEW m \in Seq(Word), NEW batch \in Seq(Word), NEW c \in Stopped(m, batch)
  PROVE  /\ c \in Seq(Word) /\ Begins(m, c)
         /\ \E n \in 0..Len(batch) : c = m \o First(batch, n)
<1>1. PICK n \in 0..Len(batch) : c = m \o First(batch, n)
  BY DEF Stopped
<1>2. First(batch, n) \in Seq(Word)
  BY FirstFacts
<1> DEFINE b == First(batch, n)
<1>3. c = m \o b /\ b \in Seq(Word)
  BY <1>1, <1>2
<1> HIDE DEF b
<1>4. c \in Seq(Word) /\ Begins(m, c)
  BY <1>3, ConcatFacts
<1> QED BY <1>1, <1>4

\* The piece of the prompt after what is in the context.
LEMMA PieceFacts ==
  ASSUME tokens \in Seq(Tokens), fed \in Nat, fed < Len(tokens)
  PROVE  /\ Piece \in Seq(Word) /\ fed + Len(Piece) <= Len(tokens) /\ Len(Piece) \in Nat
         /\ \A i \in 1..Len(Piece) : Piece[i] = tokens[fed + i]
<1>1. NBatch \in Nat /\ Len(tokens) \in Nat /\ tokens \in Seq(Word)
  BY ConversationAssumption, WordFacts
<1> DEFINE b == Least(fed + NBatch, Len(tokens))
<1>2. b \in Nat /\ fed <= b /\ b <= Len(tokens) /\ b - fed \in Nat
  BY <1>1 DEF Least
<1>3. Piece = SubSeq(tokens, fed + 1, b)
  BY DEF Piece
<1> HIDE DEF b
<1>4. /\ Piece \in Seq(Word) /\ Len(Piece) = b - fed
      /\ \A i \in 1..(b - fed) : Piece[i] = tokens[fed + i]
  BY <1>1, <1>2, <1>3, StretchFacts
<1> QED BY <1>1, <1>2, <1>4

\* Drafts are words.
LEMMA DraftsFacts ==
  ASSUME NEW d \in Drafts, tokens \in Seq(Tokens), n_gen \in Nat
  PROVE  d \in Seq(Word) /\ (MaxDraft = 0 => d = <<>>)
<1> DEFINE room == Least(MaxDraft, Ceiling - n_gen - 1)
<1>1. MaxDraft \in Nat /\ NPredict \in Nat /\ NCtx \in Nat /\ Len(tokens) \in Nat
  BY ConversationAssumption
<1>2. Ceiling \in Int
  BY <1>1 DEF Ceiling, Least
<1>3. room \in Int /\ room <= MaxDraft
  BY <1>1, <1>2 DEF Least
<1>4. \E n \in 0..room : d \in [1..n -> Tokens \cup {Eog}]
  BY DEF Drafts
<1> HIDE DEF room
<1>5. PICK n \in 0..room : d \in [1..n -> Word]
  BY <1>4 DEF Word
<1>6. n \in Nat /\ n <= MaxDraft
  BY <1>1, <1>3
<1>7. d \in Seq(Word) /\ Len(d) = n
  BY <1>5, <1>6
<1> QED BY <1>1, <1>6, <1>7

\* A decode at a position leaves cells.
LEMMA DecodedAtTyped ==
  ASSUME NEW m \in Seq(Cell), NEW pos \in Nat, NEW batch \in Seq(Word)
  PROVE  DecodedAt(m, pos, batch) \in Seq(Cell)
<1> DEFINE gaps == [i \in 1..pos |-> Gap]
<1>1. gaps \in Seq(Cell) /\ batch \in Seq(Cell)
  BY WordFacts DEF Cell
<1>2. PICK base : base = IF m = <<>> THEN gaps ELSE m
  OBVIOUS
<1>3. DecodedAt(m, pos, batch) = base \o batch
  BY <1>2 DEF DecodedAt
<1>4. base \in Seq(Cell)
  BY <1>1, <1>2
<1> QED BY <1>1, <1>3, <1>4, ConcatFacts

----------------------------------------------------------------------------
(***************************************************************************)
(* The memories and the way back out of a turn.                            *)
(***************************************************************************)
Shape == Typed /\ Undoes /\ Decided

\* The steps that undo a turn.
Undoing == PrefillCancelled \/ SampleFails \/ DraftRefused \/ ParseFails \/ FinishCancelled
\* How they do, from memories m.
UndoneFrom(m) == /\ m \in Memories /\ m.kv = kv /\ m.cps = checkpoints /\ m.dft = dft
                 /\ Rollback(m) /\ pc' \in {"idle", "dead"}

\* What is remembered is what the memories then are.
LEMMA Remembered ==
  ASSUME NEW m \in Memories, Remember(m)
  PROVE  /\ Memory' = m /\ ctx' = m.ctx /\ dft' = m.dft /\ kv' = m.kv /\ checkpoints' = m.cps
BY DEF Memory, Remember, Memories

\* The memories, by their fields.
LEMMA MemoryParts ==
  ASSUME Memory \in Memories
  PROVE  /\ Memory.ctx = ctx /\ Memory.dft = dft /\ Memory.kv = kv /\ Memory.cps = checkpoints
         /\ ctx \in Seq(Word) /\ dft \in Seq(Cell) /\ kv \in Seq(Word) /\ checkpoints \in Seq(Checkpoint)
         /\ Len(ctx) \in Nat /\ Len(dft) \in Nat /\ Len(kv) \in Nat /\ Len(checkpoints) \in Nat
<1>1. Memory.ctx = ctx /\ Memory.dft = dft /\ Memory.kv = kv /\ Memory.cps = checkpoints
  BY DEF Memory
<1>2. ctx \in Seq(Word) /\ dft \in Seq(Cell) /\ kv \in Seq(Word) /\ checkpoints \in Seq(Checkpoint)
  BY <1>1, MemoryFields
<1> QED BY <1>1, <1>2

\* The same of the next state.
LEMMA MemoryNext ==
  ASSUME ctx' \in Seq(Word), dft' \in Seq(Cell), kv' \in Seq(Word), checkpoints' \in Seq(Checkpoint)
  PROVE  Memory' \in Memories
BY DEF Memory, Memories

\* Every step that undoes a turn rolls back from memories with the turn's record; where that
\* record agrees with the context, theirs does.
LEMMA UndoingFacts ==
  ASSUME Typed, Undoing
  PROVE  \E m : /\ UndoneFrom(m)
                /\ RecordAgrees /\ ~foreign => \E t \in Seq(Word) : Recorded(m, t)
                /\ Begins(ctx, m.ctx)
<1>0. /\ Memory \in Memories /\ tokens \in Seq(Tokens) /\ fed \in Nat /\ n_gen \in Nat /\ Len(tokens) \in Nat
  BY WordFacts DEF Typed
<1>1. /\ Memory.ctx = ctx /\ Memory.dft = dft /\ Memory.kv = kv /\ Memory.cps = checkpoints
      /\ ctx \in Seq(Word) /\ dft \in Seq(Cell) /\ kv \in Seq(Word) /\ checkpoints \in Seq(Checkpoint)
  BY <1>0, MemoryParts
<1>2. ASSUME NEW c \in Seq(Word), Begins(ctx, c), NEW m, m = [Memory EXCEPT !.ctx = c]
      PROVE  /\ m \in Memories /\ m.kv = kv /\ m.cps = checkpoints /\ m.dft = dft /\ m.ctx = c
             /\ Recorded(Memory, kv) => Recorded(m, kv)
  <2>1. m \in Memories /\ m.kv = kv /\ m.cps = checkpoints /\ m.dft = dft /\ m.ctx = c
    BY <1>0, <1>1, <1>2, MemoryWith
  <2>2. Begins(kv, ctx) => Begins(kv, c)
    BY <1>1, <1>2, BeginsFacts
  <2> QED BY <1>1, <2>1, <2>2 DEF Recorded
<1>3. ASSUME Agreed(Memory) PROVE Recorded(Memory, kv)
  <2>1. Begins(kv, kv)
    BY <1>1, BeginsFacts
  <2> QED BY <1>1, <1>3, <2>1 DEF Agreed, Recorded
<1>4. CASE PrefillCancelled
  <2>1. pc = "prefill" /\ fed < Len(tokens) /\ pc' = "idle"
    BY <1>4 DEF PrefillCancelled
  <2>2. PICK c \in Stopped(ctx, Piece) : Rollback([Memory EXCEPT !.ctx = c])
    BY <1>4 DEF PrefillCancelled
  <2>3. c \in Seq(Word) /\ Begins(ctx, c)
        /\ \E n \in 0..Len(Piece) : c = ctx \o First(Piece, n)
    BY <1>0, <1>1, <2>1, PieceFacts, StoppedFacts
  <2>4. PICK m : m = [Memory EXCEPT !.ctx = c]
    OBVIOUS
  <2>5. UndoneFrom(m) /\ m.ctx = c
    BY <1>2, <2>1, <2>2, <2>3, <2>4 DEF UndoneFrom
  <2>6. ASSUME RecordAgrees, ~foreign PROVE \E t \in Seq(Word) : Recorded(m, t)
    <3>1. /\ Begins(kv, tokens) /\ Len(kv) = n_common /\ n_common <= fed
          /\ Begins(ctx, tokens) /\ Len(ctx) = fed /\ Describe(checkpoints, tokens)
      BY <2>1, <2>6 DEF RecordAgrees
    <3>2. tokens \in Seq(Word)
      BY <1>0, WordFacts
    <3>3. Len(kv) <= Len(ctx)
      BY <3>1
    <3>4. Begins(kv, ctx)
      BY <1>1, <3>1, <3>2, <3>3, BeginsFacts
    <3>5. Begins(kv, c)
      BY <1>1, <2>3, <3>4, BeginsFacts
    <3>6. Recorded(m, tokens)
      BY <2>5, <3>1, <3>5 DEF Recorded, UndoneFrom
    <3> QED BY <3>2, <3>6
  <2> QED BY <2>3, <2>5, <2>6
<1>5. CASE DraftRefused
  <2>1. pc = "decode" /\ pc' = "idle"
    BY <1>5 DEF DraftRefused
  <2>2. PICK d \in Drafts : Rollback([Memory EXCEPT !.ctx = @ \o <<tok>> \o d])
    BY <1>5 DEF DraftRefused
  <2>3. d \in Seq(Word) /\ <<tok>> \in Seq(Word)
    BY <1>0, <2>1, DraftsFacts DEF Typed, Word
  <2>4. PICK c : c = Memory.ctx \o <<tok>> \o d
    OBVIOUS
  <2>5. c \in Seq(Word) /\ Begins(ctx, c)
    <3>1. PICK s : s = ctx \o <<tok>>
      OBVIOUS
    <3>2. s \in Seq(Word) /\ Begins(ctx, s)
      BY <1>1, <2>3, <3>1, ConcatFacts
    <3>3. c = s \o d
      BY <1>1, <2>4, <3>1
    <3>4. c \in Seq(Word) /\ Begins(s, c)
      BY <2>3, <3>2, <3>3, ConcatFacts
    <3> QED BY <1>1, <3>2, <3>4, BeginsFacts
  <2>6. PICK m : m = [Memory EXCEPT !.ctx = c]
    OBVIOUS
  <2>7. Rollback(m)
    BY <2>2, <2>4, <2>6
  <2>8. UndoneFrom(m) /\ m.ctx = c
    BY <1>2, <2>1, <2>5, <2>6, <2>7 DEF UndoneFrom
  <2>9. ASSUME RecordAgrees, ~foreign PROVE \E t \in Seq(Word) : Recorded(m, t)
    <3>1. Recorded(Memory, kv)
      BY <1>3, <2>1, <2>9 DEF RecordAgrees
    <3>2. Recorded(m, kv)
      BY <1>2, <2>5, <2>6, <3>1
    <3> QED BY <1>1, <3>2
  <2> QED BY <2>5, <2>8, <2>9
<1>6. CASE SampleFails \/ ParseFails \/ FinishCancelled
  <2>1. pc \in {"sample", "parse", "finish"} /\ Rollback(Memory) /\ pc' \in {"idle", "dead"}
    BY <1>6 DEF SampleFails, ParseFails, FinishCancelled
  <2>2. UndoneFrom(Memory) /\ Begins(ctx, Memory.ctx)
    BY <1>0, <1>1, <2>1, BeginsFacts DEF UndoneFrom
  <2>3. ASSUME RecordAgrees, ~foreign PROVE \E t \in Seq(Word) : Recorded(Memory, t)
    <3>1. Recorded(Memory, kv)
      BY <1>3, <2>1, <2>3 DEF RecordAgrees
    <3> QED BY <1>1, <3>1
  <2> QED BY <2>2, <2>3
<1> QED BY <1>4, <1>5, <1>6 DEF Undoing

\* A turn rolled back leaves memories, and nothing to undo.
LEMMA UndoneFromFacts ==
  ASSUME Shape, NEW m, UndoneFrom(m)
  PROVE  /\ \E r \in RolledBack(m) : Remember(r) /\ r \in Memories /\ Memory' = r
         /\ Memory' \in Memories /\ Len(checkpoints') <= MaxCheckpoints
         /\ history' = UndoneHistory /\ chat' = TRUE /\ undo' = "nothing"
         /\ UNCHANGED <<kept, cancel, foreign>>
<1>0. m \in Memories /\ n_common \in Nat /\ m.cps = checkpoints /\ MaxCheckpoints \in Nat
      /\ Len(checkpoints) <= MaxCheckpoints
  BY ConversationAssumption DEF UndoneFrom, Shape, Typed
<1>1. PICK r \in RolledBack(m) : Remember(r)
  BY DEF UndoneFrom, Rollback
<1>2. r \in Memories /\ (Len(r.cps) <= Len(m.cps) \/ r.cps = <<>>)
  BY <1>0, RolledBackAgrees
<1>3. Memory' = r /\ checkpoints' = r.cps
  BY <1>1, <1>2, Remembered
<1>4. Len(<<>>) = 0 /\ Len(checkpoints) \in Nat /\ Len(r.cps) \in Nat
  BY <1>0, <1>2, MemoryFields
<1>5. Len(checkpoints') <= MaxCheckpoints
  BY <1>0, <1>2, <1>3, <1>4
<1> QED BY <1>1, <1>2, <1>3, <1>5 DEF UndoneFrom, Rollback, UndoHistory, TurnOver

----------------------------------------------------------------------------
(***************************************************************************)
(* The fields keep their kinds: the start of a turn and its failures.      *)
(***************************************************************************)
\* A turn's steps that leave the memories alone keep their kinds.
LEMMA SameMemory ==
  ASSUME Memory \in Memories, UNCHANGED memory
  PROVE  Memory' \in Memories /\ checkpoints' = checkpoints
BY DEF Memory, memory

\* No checkpoints are not too many.
LEMMA NoneFit == Len(<<>>) <= MaxCheckpoints
BY ConversationAssumption

\* What a turn undoes to are messages.
LEMMA UndoneHistoryTyped ==
  ASSUME Typed, Undoes
  PROVE  UndoneHistory \in Seq(Voices)
<1>1. history \in Seq(Voices) /\ before \in Seq(Voices) /\ undo \in {"nothing", "pop", "replace"}
      /\ (undo = "pop" => history # <<>>)
  BY DEF Typed, Undoes
<1>2. CASE undo = "pop"
  BY <1>1, <1>2, FrontFacts DEF UndoneHistory
<1>3. CASE undo = "replace"
  BY <1>1, <1>3 DEF UndoneHistory
<1>4. CASE undo = "nothing"
  BY <1>1, <1>4 DEF UndoneHistory
<1> QED BY <1>1, <1>2, <1>3, <1>4

\* A turn that is over has the kinds of none.
LEMMA TurnOverTyped ==
  ASSUME TurnOver, pc' \in {"idle", "dead"}, Memory' \in Memories,
         Len(checkpoints') <= MaxCheckpoints, history' \in Seq(Voices), kept' \in Seq(Tokens),
         cancel' \in BOOLEAN, foreign' \in BOOLEAN
  PROVE  Shape'
<1>1. /\ chat' = TRUE /\ structured' = FALSE /\ undo' = "nothing" /\ before' = <<>>
      /\ tokens' = <<>> /\ n_common' = 0 /\ fed' = 0 /\ n_gen' = 0 /\ cancelled' = FALSE
  BY DEF TurnOver
<1>2. <<>> \in Seq(Voices) /\ <<>> \in Seq(Tokens)
  OBVIOUS
<1>3. Typed'
  BY <1>1, <1>2 DEF Typed
<1>4. Undoes' /\ Decided'
  BY <1>1 DEF Undoes, Decided
<1> QED BY <1>3, <1>4 DEF Shape

\* The kinds at the start.
LEMMA ShapeInit == Init => Shape
<1> SUFFICES ASSUME Init PROVE Shape
  OBVIOUS
<1>1. <<>> \in Seq(Word) /\ <<>> \in Seq(Cell) /\ <<>> \in Seq(Checkpoint) /\ <<>> \in Seq(Voices)
      /\ <<>> \in Seq(Tokens) /\ Len(<<>>) = 0
  OBVIOUS
<1>2. Memory \in Memories
  BY <1>1 DEF Init, Memory, Memories
<1>3. Len(checkpoints) <= MaxCheckpoints
  BY NoneFit, Zenon DEF Init
<1>4. Typed
  <2>2. pc = "idle" /\ undo = "nothing" /\ history = <<>> /\ before = <<>> /\ kept = <<>> /\ tokens = <<>>
        /\ cancel = FALSE /\ chat = TRUE /\ structured = FALSE /\ cancelled = FALSE /\ foreign = FALSE
        /\ n_common = 0 /\ fed = 0 /\ n_gen = 0
    BY DEF Init
  <2> QED BY <1>1, <1>2, <1>3, <2>2 DEF Typed
<1> QED BY <1>4 DEF Init, Shape, Undoes, Decided

\* The same, at the beginning of a turn.
LEMMA ShapeBegin == Shape /\ (BeginGenerate \/ Refuse \/ FeedRaw) => Shape'
<1> SUFFICES ASSUME Shape, BeginGenerate \/ Refuse \/ FeedRaw PROVE Shape'
  OBVIOUS
<1>0. Typed /\ Undoes /\ Decided
  BY DEF Shape
<1>1. CASE BeginGenerate
  <2>1. PICK clear \in BOOLEAN, replace \in BOOLEAN :
         LET said == IF clear THEN <<>> ELSE history IN
         /\ IF clear THEN Remember(Emptied) /\ foreign' = FALSE ELSE UNCHANGED <<memory, foreign>>
         /\ undo' = (IF replace THEN "replace" ELSE "pop")
         /\ before' = (IF replace THEN said ELSE <<>>)
         /\ history' = (IF replace THEN <<"user">> ELSE Append(said, "user"))
    BY <1>1 DEF BeginGenerate
  <2>2. /\ pc = "idle" /\ pc' = "render" /\ cancel' = FALSE /\ kept' = <<>> /\ structured' \in BOOLEAN
        /\ UNCHANGED <<chat, tokens, n_common, fed, tok, n_gen, cancelled>>
    BY <1>1 DEF BeginGenerate
  <2>3. Memory' \in Memories /\ Len(checkpoints') <= MaxCheckpoints /\ foreign' \in BOOLEAN
    <3>1. CASE clear
      <4>0. Remember(Emptied) /\ foreign' = FALSE
        BY <2>1, <3>1
      <4>1. Memory' \in Memories /\ checkpoints' = <<>>
        BY <4>0, EmptiedFacts, Remembered
      <4>2. Len(checkpoints') <= MaxCheckpoints
        BY <4>1, NoneFit, Zenon
      <4> QED BY <4>0, <4>1, <4>2
    <3>2. CASE ~clear
      <4>1. UNCHANGED memory /\ foreign' = foreign
        BY <2>1, <3>2
      <4>2. Memory' \in Memories /\ checkpoints' = checkpoints
        BY <1>0, <4>1, SameMemory DEF Typed
      <4> QED BY <1>0, <4>1, <4>2 DEF Typed
    <3> QED BY <3>1, <3>2
  <2>4. PICK said : said = IF clear THEN <<>> ELSE history
    OBVIOUS
  <2>5. said \in Seq(Voices) /\ "user" \in Voices /\ <<>> \in Seq(Voices) /\ <<"user">> \in Seq(Voices)
        /\ <<"user">> # <<>>
    BY <1>0, <2>4 DEF Typed, Voices
  <2>6. /\ undo' = (IF replace THEN "replace" ELSE "pop")
        /\ before' = (IF replace THEN said ELSE <<>>)
        /\ history' = (IF replace THEN <<"user">> ELSE Append(said, "user"))
    BY <2>1, <2>4
  <2>7. Append(said, "user") \in Seq(Voices) /\ Append(said, "user") # <<>>
    BY <2>5, FrontFacts
  <2>8. history' \in Seq(Voices) /\ before' \in Seq(Voices) /\ history' # <<>> /\ undo' \in {"pop", "replace"}
    BY <2>5, <2>6, <2>7
  <2>9. chat' = TRUE
    BY <1>0, <2>2 DEF Undoes, Typed, InTurn
  <2>10. <<>> \in Seq(Tokens)
    OBVIOUS
  <2>11. Typed'
    BY <1>0, <2>2, <2>3, <2>8, <2>10 DEF Typed, InTurn
  <2> QED BY <2>2, <2>8, <2>9, <2>11 DEF Shape, Undoes, Decided, InTurn
<1>2. CASE Refuse
  <2>1. Memory' \in Memories /\ checkpoints' = checkpoints
    BY <1>0, <1>2, SameMemory DEF Refuse, Typed
  <2>2. history' \in Seq(Voices)
    BY <1>0, <1>2, UndoneHistoryTyped DEF Refuse, UndoHistory
  <2> QED BY <1>0, <1>2, <2>1, <2>2, TurnOverTyped DEF Refuse, Typed
<1>3. CASE FeedRaw
  <2>1. Memory' \in Memories /\ checkpoints' = checkpoints
    BY <1>0, <1>3, SameMemory DEF FeedRaw, Typed
  <2>2. history' \in Seq(Voices)
    BY <1>0, <1>3, UndoneHistoryTyped DEF FeedRaw, UndoHistory
  <2>3. Typed'
    BY <1>0, <1>3, <2>1, <2>2 DEF FeedRaw, Typed
  <2> QED BY <1>0, <1>3, <2>3 DEF FeedRaw, Shape, Undoes, Decided, InTurn
<1> QED BY <1>1, <1>2, <1>3

\* The same, when a turn is undone or fails.
LEMMA ShapeUndone == Shape /\ (Undoing \/ PrefillFails \/ StepFails) => Shape'
<1> SUFFICES ASSUME Shape, Undoing \/ PrefillFails \/ StepFails PROVE Shape'
  OBVIOUS
<1>0. Typed /\ Undoes
  BY DEF Shape
<1>1. CASE Undoing
  <2>1. PICK m : UndoneFrom(m)
    BY <1>0, <1>1, UndoingFacts
  <2>2. /\ Memory' \in Memories /\ Len(checkpoints') <= MaxCheckpoints
        /\ history' = UndoneHistory /\ UNCHANGED <<kept, cancel, foreign>>
    BY <2>1, UndoneFromFacts
  <2>3. TurnOver /\ pc' \in {"idle", "dead"}
    BY <2>1 DEF UndoneFrom, Rollback
  <2>4. history' \in Seq(Voices)
    BY <1>0, <2>2, UndoneHistoryTyped
  <2> QED BY <1>0, <2>2, <2>3, <2>4, TurnOverTyped DEF Typed
<1>2. CASE PrefillFails \/ StepFails
  <2>1. Fail
    BY <1>2 DEF PrefillFails, StepFails
  <2>2. Memory' \in Memories /\ checkpoints' = checkpoints
    BY <1>0, <2>1, SameMemory DEF Fail, Typed
  <2> QED BY <1>0, <2>1, <2>2, TurnOverTyped DEF Fail, Typed
<1> QED BY <1>1, <1>2

----------------------------------------------------------------------------
(***************************************************************************)
(* What a step of decoding and the reuse of a prefix give.                 *)
(***************************************************************************)
\* One word before others.
LEMMA OneThen ==
  ASSUME NEW x \in Word, NEW f \in Seq(Word), NEW w, w = <<x>> \o f
  PROVE  w \in Seq(Word) /\ Len(w) = Len(f) + 1 /\ w[1] = x /\ \A i \in 1..Len(f) : w[1 + i] = f[i]
<1>1. PICK h : h = <<x>>
  OBVIOUS
<1>2. h \in Seq(Word) /\ Len(h) = 1 /\ h[1] = x /\ Len(f) \in Nat
  BY <1>1
<1>3. w = h \o f
  BY <1>1
<1>4. /\ w \in Seq(Word) /\ Len(w) = Len(h) + Len(f)
      /\ \A i \in 1..Len(h) : w[i] = h[i]
      /\ \A i \in 1..Len(f) : w[Len(h) + i] = f[i]
  BY <1>2, <1>3, ConcatFacts
<1> QED BY <1>2, <1>4

\* What one pass of the loop adds to the context, and to the record: the same, but for a drafted
\* end of generation.
LEMMA StepFacts ==
  ASSUME Typed, Step
  PROVE  \E group \in Seq(Word), said \in Seq(Word) :
            /\ ctx' = ctx \o group /\ kv' = (IF chat THEN kv \o said ELSE kv)
            /\ dft' = (IF Mtp THEN DecodedAt(dft, EmittedEnd, group) ELSE dft)
            /\ n_gen' = n_gen + Len(said) /\ Begins(said, group)
            /\ (said = group) \/ (pc' = "parse" /\ MaxDraft # 0)
<1>0. /\ pc = "decode" /\ tok \in Tokens /\ tokens \in Seq(Tokens) /\ n_gen \in Nat
      /\ pc' = (IF cancelled' THEN "parse" ELSE pc')
  BY DEF Typed, Step
<1>14. PICK d \in Drafts : \E acc \in 0..Len(d) :
         LET group == <<tok>> \o First(d, acc) IN
            /\ ctx' = ctx \o group
            /\ dft' = (IF Mtp THEN DecodedAt(dft, EmittedEnd, group) ELSE dft)
            /\ kv' = (IF chat THEN kv \o Confirmed(d, acc) ELSE kv)
            /\ n_gen' = n_gen + Len(Confirmed(d, acc))
            /\ pc' = (IF cancelled' \/ EogHit(d, acc) \/ (structured /\ n_gen' >= Ceiling)
                      THEN "parse" ELSE "sample")
  BY DEF Step
<1>1. PICK acc \in 0..Len(d) :
         LET group == <<tok>> \o First(d, acc) IN
            /\ ctx' = ctx \o group
            /\ dft' = (IF Mtp THEN DecodedAt(dft, EmittedEnd, group) ELSE dft)
            /\ kv' = (IF chat THEN kv \o Confirmed(d, acc) ELSE kv)
            /\ n_gen' = n_gen + Len(Confirmed(d, acc))
            /\ pc' = (IF cancelled' \/ EogHit(d, acc) \/ (structured /\ n_gen' >= Ceiling)
                      THEN "parse" ELSE "sample")
  BY <1>14
<1>2. d \in Seq(Word) /\ Len(d) \in Nat /\ (MaxDraft = 0 => Len(d) = 0)
  BY <1>0, DraftsFacts
<1>3. PICK b : b = IF EogHit(d, acc) THEN acc - 1 ELSE acc
  OBVIOUS
<1>4. b \in 0..acc /\ acc \in 0..Len(d) /\ b \in 0..Len(d) /\ (b = acc \/ EogHit(d, acc)) /\ (EogHit(d, acc) => MaxDraft # 0)
  BY <1>2, <1>3 DEF EogHit
<1>5. ASSUME NEW n \in 0..Len(d)
      PROVE  /\ <<tok>> \o First(d, n) \in Seq(Word) /\ Len(<<tok>> \o First(d, n)) = n + 1
             /\ (<<tok>> \o First(d, n))[1] = tok
             /\ \A i \in 2..(n + 1) : (<<tok>> \o First(d, n))[i] = d[i - 1]
  <2>1. PICK f : f = First(d, n)
    OBVIOUS
  <2>2. f \in Seq(Word) /\ Len(f) = n /\ Begins(f, d)
    BY <1>2, <2>1, FirstFacts
  <2>3. PICK w : w = <<tok>> \o First(d, n)
    OBVIOUS
  <2>4. w \in Seq(Word) /\ Len(w) = n + 1 /\ w[1] = tok /\ \A i \in 1..n : w[1 + i] = f[i]
    <3>1. tok \in Word
      BY <1>0 DEF Word
    <3>2. w = <<tok>> \o f
      BY <2>1, <2>3
    <3>3. w \in Seq(Word) /\ Len(w) = Len(f) + 1 /\ w[1] = tok /\ \A i \in 1..Len(f) : w[1 + i] = f[i]
      BY <2>2, <3>1, <3>2, OneThen
    <3> QED BY <2>2, <3>3
  <2>5. ASSUME NEW i \in 2..(n + 1) PROVE w[i] = d[i - 1]
    <3>1. i - 1 \in 1..n /\ 1 + (i - 1) = i
      BY <1>2
    <3>2. w[i] = f[i - 1]
      BY <2>4, <3>1
    <3> QED BY <2>2, <3>1, <3>2 DEF Begins
  <2> QED BY <2>3, <2>4, <2>5
<1>6. PICK group : group = <<tok>> \o First(d, acc)
  OBVIOUS
<1>7. PICK said : said = <<tok>> \o First(d, b)
  OBVIOUS
<1>8. Confirmed(d, acc) = said
  BY <1>3, <1>7 DEF Confirmed
<1>9. /\ group \in Seq(Word) /\ Len(group) = acc + 1 /\ group[1] = tok
      /\ \A i \in 2..(acc + 1) : group[i] = d[i - 1]
  BY <1>4, <1>5, <1>6
<1>10. /\ said \in Seq(Word) /\ Len(said) = b + 1 /\ said[1] = tok
       /\ \A i \in 2..(b + 1) : said[i] = d[i - 1]
  BY <1>4, <1>5, <1>7
<1>11. Begins(said, group)
  <2>1. Len(said) <= Len(group)
    BY <1>2, <1>4, <1>9, <1>10
  <2>2. ASSUME NEW i \in 1..Len(said) PROVE said[i] = group[i]
    <3>1. i = 1 \/ (i \in 2..(b + 1) /\ i \in 2..(acc + 1))
      BY <1>2, <1>4, <1>10
    <3> QED BY <3>1, <1>9, <1>10
  <2> QED BY <2>1, <2>2 DEF Begins
<1>12. said = group \/ (pc' = "parse" /\ MaxDraft # 0)
  <2>1. CASE b = acc
    BY <2>1, <1>6, <1>7
  <2>2. CASE EogHit(d, acc)
    BY <2>2, <1>1, <1>4
  <2> QED BY <2>1, <2>2, <1>4
<1>13. /\ ctx' = ctx \o group /\ kv' = (IF chat THEN kv \o said ELSE kv)
       /\ dft' = (IF Mtp THEN DecodedAt(dft, EmittedEnd, group) ELSE dft)
       /\ n_gen' = n_gen + Len(said)
  BY <1>1, <1>6, <1>8
<1> QED BY <1>9, <1>10, <1>11, <1>12, <1>13

\* What the memory is cut to, for the prompt of a turn.
LEMMA ReuseFacts ==
  ASSUME Typed, ReuseKvPrefix
  PROVE  /\ tokens' \in Seq(Tokens) /\ tokens' \in Seq(Word) /\ Len(tokens') > 0 /\ fed' = n_common'
         /\ \/ (chat => kv = <<>>) /\ UNCHANGED memory /\ n_common' = 0
            \/ \E n \in Nat : \E k : \E m \in Memories :
                 /\ n <= Len(kv) /\ n <= Len(tokens') /\ First(kv, n) = First(tokens', n)
                 /\ k \in Keep(Memory, n) \/ (n = Len(kv) /\ k = <<Memory, n>>)
                 /\ m \in DraftTo(k[1], k[2]) /\ Remember(m) /\ n_common' = k[2]
<1>0. Memory \in Memories /\ kv \in Seq(Word) /\ Len(kv) \in Nat
  BY MemoryParts DEF Typed
<1>1. tokens' \in Seq(Tokens) /\ tokens' \in Seq(Word) /\ Len(tokens') > 0 /\ Len(tokens') \in Nat
  BY PromptFacts DEF ReuseKvPrefix
<1>2. fed' = n_common'
  BY DEF ReuseKvPrefix
<1>3. CASE ~chat \/ kv = <<>>
  <2>1. UNCHANGED memory /\ n_common' = 0
    BY <1>3 DEF ReuseKvPrefix
  <2> QED BY <1>1, <1>2, <1>3, <2>1
<1>4. CASE ~(~chat \/ kv = <<>>)
  <2>1. PICK n : n = CommonPrefix(kv, tokens')
    OBVIOUS
  <2>2. n \in Nat /\ n <= Len(tokens') - 1 /\ n <= Len(kv) /\ First(kv, n) = First(tokens', n)
    BY <1>0, <1>1, <2>1, CommonPrefixFacts
  <2>3. \E k \in (IF n < Len(kv) THEN Keep(Memory, n) ELSE {<<Memory, n>>}) :
           \E m \in DraftTo(k[1], k[2]) : Remember(m) /\ n_common' = k[2]
    BY <1>4, <2>1 DEF ReuseKvPrefix
  <2>4. PICK k \in (IF n < Len(kv) THEN Keep(Memory, n) ELSE {<<Memory, n>>}) :
           \E m \in DraftTo(k[1], k[2]) : Remember(m) /\ n_common' = k[2]
    BY <2>3
  <2>5. PICK m \in DraftTo(k[1], k[2]) : Remember(m) /\ n_common' = k[2]
    BY <2>4
  <2>6. k \in Keep(Memory, n) \/ (n = Len(kv) /\ k = <<Memory, n>>)
    BY <1>0, <2>2, <2>4
  <2>7. k[1] \in Memories /\ k[2] \in Nat
    BY <1>0, <2>2, <2>6, KeepTyped
  <2>8. m \in Memories
    BY <2>5, <2>7, DraftToFacts
  <2>9. n <= Len(tokens')
    BY <1>1, <2>2
  <2> QED BY <1>1, <1>2, <2>2, <2>5, <2>6, <2>8, <2>9
<1> QED BY <1>3, <1>4

----------------------------------------------------------------------------
(***************************************************************************)
(* The fields keep their kinds: the steps of a turn that goes on.          *)
(***************************************************************************)
\* A turn that goes on keeps what it can undo.
LEMMA TurnGoesOn ==
  ASSUME Shape, pc \in InTurn, pc' \in InTurn, Memory' \in Memories,
         Len(checkpoints') <= MaxCheckpoints,
         UNCHANGED <<history, kept, cancel, chat, structured, undo, before, foreign>>,
         tokens' \in Seq(Tokens), n_common' \in Nat, fed' \in Nat, n_gen' \in Nat,
         cancelled' \in BOOLEAN, pc' = "decode" => tok' \in Tokens
  PROVE  Shape'
<1>1. Typed /\ Undoes
  BY DEF Shape
<1>2. Typed'
  BY <1>1 DEF Typed
<1>3. Undoes'
  BY <1>1 DEF Undoes
<1>4. Decided'
  BY DEF Decided, InTurn
<1> QED BY <1>2, <1>3, <1>4 DEF Shape

\* The kinds, when a prompt is taken.
LEMMA ShapeReuse == Shape /\ ReuseKvPrefix => Shape'
<1> SUFFICES ASSUME Shape, ReuseKvPrefix PROVE Shape'
  OBVIOUS
<1>0. Typed /\ Memory \in Memories /\ Len(checkpoints) <= MaxCheckpoints
  BY DEF Shape, Typed
<1>1. pc \in InTurn /\ pc' \in InTurn /\ pc' = "prefill"
  BY DEF ReuseKvPrefix, InTurn
<1>2. /\ UNCHANGED <<history, kept, cancel, chat, structured, undo, before, foreign, n_gen, cancelled>>
      /\ n_gen \in Nat /\ cancelled \in BOOLEAN
  BY <1>0 DEF ReuseKvPrefix, Typed
<1>3. tokens' \in Seq(Tokens) /\ fed' = n_common'
  BY <1>0, ReuseFacts
<1>4. Memory' \in Memories /\ Len(checkpoints') <= MaxCheckpoints /\ n_common' \in Nat
  <2>1. CASE UNCHANGED memory /\ n_common' = 0
    <3>1. Memory' \in Memories /\ checkpoints' = checkpoints
      BY <1>0, <2>1, SameMemory
    <3> QED BY <1>0, <2>1, <3>1
  <2>2. ASSUME NEW n \in Nat, NEW k, NEW m \in Memories,
               k \in Keep(Memory, n) \/ (n = Len(kv) /\ k = <<Memory, n>>),
               m \in DraftTo(k[1], k[2]), Remember(m), n_common' = k[2]
        PROVE  Memory' \in Memories /\ Len(checkpoints') <= MaxCheckpoints /\ n_common' \in Nat
    <3>1. k[1] \in Memories /\ k[2] \in Nat /\ Len(k[1].cps) <= Len(checkpoints)
      <4>1. CASE k \in Keep(Memory, n)
        BY <1>0, <4>1, KeepTyped, MemoryParts
      <4>2. CASE k = <<Memory, n>>
        <5>1. k[1] = Memory /\ k[2] = n
          BY <4>2
        <5>2. k[1].cps = checkpoints /\ Len(checkpoints) \in Nat
          BY <1>0, <5>1, MemoryParts
        <5> QED BY <1>0, <5>1, <5>2
      <4> QED BY <2>2, <4>1, <4>2
    <3>2. m.cps = k[1].cps
      BY <2>2, <3>1, DraftToFacts
    <3>3. Memory' \in Memories /\ checkpoints' = m.cps
      BY <2>2, Remembered
    <3>4. Len(k[1].cps) \in Nat /\ Len(checkpoints) \in Nat /\ MaxCheckpoints \in Nat
      BY <1>0, <3>1, MemoryParts, MemoryFields, ConversationAssumption
    <3>5. Len(checkpoints') = Len(k[1].cps)
      BY <3>2, <3>3
    <3> QED BY <1>0, <2>2, <3>1, <3>3, <3>4, <3>5
  <2> QED BY <1>0, <2>1, <2>2, ReuseFacts
<1> QED BY <1>1, <1>2, <1>3, <1>4, TurnGoesOn

\* The checkpoints of a prefill.
LEMMA CheckpointsFit ==
  ASSUME Typed, NEW n \in Nat,
         checkpoints' = checkpoints \/ checkpoints' = Checkpointed(checkpoints, n, ctx, dft)
  PROVE  /\ checkpoints' \in Seq(Checkpoint) /\ Len(checkpoints') <= MaxCheckpoints
         /\ \A c \in ToSet(checkpoints') : c \in ToSet(checkpoints) \/ c = [n |-> n, tgt |-> ctx, dft |-> dft]
<1>1. /\ ctx \in Seq(Word) /\ dft \in Seq(Cell) /\ checkpoints \in Seq(Checkpoint)
      /\ Len(checkpoints) <= MaxCheckpoints
  BY MemoryParts DEF Typed
<1>2. PICK new : new = [n |-> n, tgt |-> ctx, dft |-> dft]
  OBVIOUS
<1>3. PICK all : all = Checkpointed(checkpoints, n, ctx, dft)
  OBVIOUS
<1>4. /\ all \in Seq(Checkpoint) /\ Len(all) <= MaxCheckpoints
      /\ ToSet(all) \subseteq ToSet(checkpoints) \cup {new}
  BY <1>1, <1>2, <1>3, CheckpointedFacts
<1> QED BY <1>1, <1>2, <1>3, <1>4

\* The kinds, through a prefill.
LEMMA ShapePrefill == Shape /\ (PrefillPiece \/ EndPrefill) => Shape'
<1> SUFFICES ASSUME Shape, PrefillPiece \/ EndPrefill PROVE Shape'
  OBVIOUS
<1>0. Typed /\ Memory \in Memories /\ tokens \in Seq(Tokens) /\ fed \in Nat /\ n_common \in Nat
      /\ n_gen \in Nat /\ cancelled \in BOOLEAN
  BY DEF Shape, Typed
<1>1. ctx \in Seq(Word) /\ dft \in Seq(Cell) /\ kv \in Seq(Word)
  BY <1>0, MemoryParts
<1>2. pc \in InTurn /\ pc' \in InTurn /\ pc' # "decode"
  BY DEF PrefillPiece, EndPrefill, InTurn
<1>3. UNCHANGED <<history, kept, cancel, chat, structured, undo, before, foreign, tokens, n_common, n_gen, cancelled>>
  BY DEF PrefillPiece, EndPrefill, turn
<1>4. fed' \in Nat /\ Memory' \in Memories /\ Len(checkpoints') <= MaxCheckpoints
  <2>1. CASE PrefillPiece
    <3>1. /\ fed < Len(tokens) /\ ctx' = ctx \o Piece /\ fed' = fed + Len(Piece) /\ kv' = kv
          /\ dft' = (IF Mtp THEN DecodedAt(dft, fed, Piece) ELSE dft)
          /\ checkpoints' = (IF AtCheckpoint THEN Checkpointed(checkpoints, fed, ctx, dft) ELSE checkpoints)
      BY <2>1 DEF PrefillPiece
    <3>2. Piece \in Seq(Word) /\ Len(Piece) \in Nat
      BY <1>0, <3>1, PieceFacts
    <3>3. ctx' \in Seq(Word)
      BY <1>1, <3>1, <3>2, ConcatFacts
    <3>4. dft' \in Seq(Cell)
      BY <1>0, <1>1, <3>1, <3>2, DecodedAtTyped
    <3>5. checkpoints' \in Seq(Checkpoint) /\ Len(checkpoints') <= MaxCheckpoints
      <4>1. checkpoints' = checkpoints \/ checkpoints' = Checkpointed(checkpoints, fed, ctx, dft)
        BY <3>1
      <4> QED BY <1>0, <4>1, CheckpointsFit
    <3>6. fed' \in Nat
      BY <1>0, <3>1, <3>2
    <3> QED BY <1>1, <3>1, <3>3, <3>4, <3>5, <3>6, MemoryNext
  <2>2. CASE EndPrefill
    <3>1. /\ fed = Len(tokens) /\ fed' = fed /\ ctx' = ctx /\ dft' = dft
          /\ IF chat THEN /\ kv' = kv \o SubSeq(tokens, n_common + 1, Len(tokens))
                          /\ checkpoints' = Checkpointed(checkpoints, Len(tokens), ctx, dft)
             ELSE UNCHANGED <<kv, checkpoints>>
      BY <2>2 DEF EndPrefill, turn
    <3>2. checkpoints' \in Seq(Checkpoint) /\ Len(checkpoints') <= MaxCheckpoints
      <4>1. checkpoints' = checkpoints \/ checkpoints' = Checkpointed(checkpoints, fed, ctx, dft)
        BY <3>1
      <4> QED BY <1>0, <4>1, CheckpointsFit
    <3>3. kv' \in Seq(Word)
      <4>1. PICK rest : rest = SubSeq(tokens, n_common + 1, Len(tokens))
        OBVIOUS
      <4>2. tokens \in Seq(Word) /\ Len(tokens) \in Nat
        BY <1>0, WordFacts
      <4>3. rest \in Seq(Word)
        BY <1>0, <4>1, <4>2
      <4>4. kv \o rest \in Seq(Word)
        BY <1>1, <4>3, ConcatFacts
      <4> QED BY <1>1, <3>1, <4>1, <4>4
    <3> QED BY <1>0, <1>1, <3>1, <3>2, <3>3, MemoryNext
  <2> QED BY <2>1, <2>2
<1> QED BY <1>0, <1>2, <1>3, <1>4, TurnGoesOn

\* The kinds, through the loop.
LEMMA ShapeDecode == Shape /\ (Sample \/ Step \/ StepCancelled) => Shape'
<1> SUFFICES ASSUME Shape, Sample \/ Step \/ StepCancelled PROVE Shape'
  OBVIOUS
<1>0. /\ Typed /\ Memory \in Memories /\ tokens \in Seq(Tokens) /\ fed \in Nat /\ n_common \in Nat
      /\ n_gen \in Nat /\ cancelled \in BOOLEAN /\ Len(checkpoints) <= MaxCheckpoints
      /\ structured \in BOOLEAN /\ cancel \in BOOLEAN
  BY DEF Shape, Typed
<1>1. ctx \in Seq(Word) /\ dft \in Seq(Cell) /\ kv \in Seq(Word) /\ checkpoints \in Seq(Checkpoint)
  BY <1>0, MemoryParts
<1>2. pc \in InTurn /\ pc' \in InTurn
  BY DEF Sample, Step, StepCancelled, InTurn
<1>3. UNCHANGED <<history, kept, cancel, chat, structured, undo, before, foreign, tokens, n_common, fed, checkpoints>>
  BY DEF Sample, Step, StepCancelled, memory
<1>4. /\ Memory' \in Memories /\ n_gen' \in Nat /\ cancelled' \in BOOLEAN
      /\ pc' = "decode" => tok' \in Tokens
  <2>1. CASE Sample
    <3>1. UNCHANGED memory /\ UNCHANGED <<n_gen, cancelled>>
      BY <2>1 DEF Sample
    <3>2. pc' = "decode" => tok' \in Tokens
      BY <2>1 DEF Sample
    <3> QED BY <1>0, <3>1, <3>2, SameMemory
  <2>2. CASE Step
    <3>1. PICK group \in Seq(Word), said \in Seq(Word) :
            /\ ctx' = ctx \o group /\ kv' = (IF chat THEN kv \o said ELSE kv)
            /\ dft' = (IF Mtp THEN DecodedAt(dft, EmittedEnd, group) ELSE dft)
            /\ n_gen' = n_gen + Len(said)
      BY <1>0, <2>2, StepFacts
    <3>2. EmittedEnd \in Nat
      BY <1>0, WordFacts DEF EmittedEnd
    <3>3. ctx' \in Seq(Word)
      BY <1>1, <3>1, ConcatFacts
    <3>4. kv \o said \in Seq(Word)
      BY <1>1, ConcatFacts
    <3>5. DecodedAt(dft, EmittedEnd, group) \in Seq(Cell)
      BY <1>1, <3>2, DecodedAtTyped
    <3>6. kv' \in Seq(Word) /\ dft' \in Seq(Cell)
      BY <1>1, <3>1, <3>4, <3>5
    <3>7. Memory' \in Memories
      BY <1>1, <1>3, <3>3, <3>6, MemoryNext
    <3>8. n_gen' \in Nat
      BY <1>0, <3>1
    <3>9. cancelled' = (structured /\ cancel) /\ pc' # "decode"
      BY <2>2 DEF Step
    <3> QED BY <1>0, <3>7, <3>8, <3>9
  <2>3. CASE StepCancelled
    <3>1. PICK d \in Drafts : ctx' \in Stopped(ctx, <<tok>> \o d)
      BY <2>3 DEF StepCancelled
    <3>2. d \in Seq(Word)
      BY <1>0, DraftsFacts
    <3>3. tok \in Word
      BY <1>0, <2>3 DEF StepCancelled, Typed, Word
    <3>4. PICK batch : batch = <<tok>> \o d
      OBVIOUS
    <3>5. batch \in Seq(Word)
      BY <3>2, <3>3, <3>4, OneThen
    <3>6. ctx' \in Seq(Word)
      BY <1>1, <3>1, <3>4, <3>5, StoppedFacts
    <3>7. UNCHANGED <<dft, kv, checkpoints, n_gen>> /\ cancelled' = TRUE /\ pc' = "parse"
      BY <2>3 DEF StepCancelled
    <3>8. Memory' \in Memories
      BY <1>1, <3>6, <3>7, MemoryNext
    <3> QED BY <1>0, <3>7, <3>8
  <2> QED BY <2>1, <2>2, <2>3
<1>5. Len(checkpoints') <= MaxCheckpoints /\ tokens' \in Seq(Tokens) /\ n_common' \in Nat /\ fed' \in Nat
  BY <1>0, <1>3
<1> QED BY <1>2, <1>3, <1>4, <1>5, TurnGoesOn

----------------------------------------------------------------------------
(***************************************************************************)
(* The fields keep their kinds: the calls outside a turn, and every step.  *)
(***************************************************************************)
\* A beginning, by the library's word for it.
LEMMA PrefixBegins ==
  ASSUME NEW a \in Seq(Tokens), NEW b \in Seq(Tokens), IsPrefix(a, b)
  PROVE  Begins(a, b)
<1>1. Len(a) \in Nat /\ Len(b) \in Nat /\ Len(a) <= Len(b)
      /\ SubSeq(a, 1, Len(a)) = SubSeq(b, 1, Len(a))
  BY DEF IsPrefix
<1>2. First(a, Len(a)) = First(b, Len(a))
  BY <1>1 DEF First
<1>3. /\ Len(First(a, Len(a))) = Len(a) /\ Begins(First(a, Len(a)), a)
      /\ Len(First(b, Len(a))) = Len(a) /\ Begins(First(b, Len(a)), b)
  <2>1. Len(a) \in 0..Len(a) /\ Len(a) \in 0..Len(b)
    BY <1>1
  <2> QED BY <2>1, FirstFacts
<1>4. ASSUME NEW i \in 1..Len(a) PROVE a[i] = b[i]
  <2>1. First(a, Len(a))[i] = a[i] /\ First(b, Len(a))[i] = b[i]
    BY <1>3 DEF Begins
  <2> QED BY <2>1, <1>2
<1> QED BY <1>1, <1>4 DEF Begins

\* The kinds, at the end of a turn.
LEMMA ShapeEnd == Shape /\ (Trim \/ Finish) => Shape'
<1> SUFFICES ASSUME Shape, Trim \/ Finish PROVE Shape'
  OBVIOUS
<1>0. /\ Typed /\ Memory \in Memories /\ Len(checkpoints) <= MaxCheckpoints /\ n_gen \in Nat
      /\ tokens \in Seq(Tokens) /\ history \in Seq(Voices)
  BY DEF Shape, Typed
<1>1. CASE Trim
  <2>1. pc = "parse" /\ pc' = "finish"
        /\ UNCHANGED <<history, kept, cancel, foreign, chat, structured, undo, before, tokens, n_common, fed, n_gen, cancelled>>
    BY <1>1 DEF Trim, turn
  <2>2. PICK m \in Trimmed(Memory) : Remember(m)
    BY <1>1 DEF Trim
  <2>3. EmittedEnd \in Nat
    BY <1>0, WordFacts DEF EmittedEnd
  <2>4. m \in Memories /\ Len(m.cps) <= Len(checkpoints)
    BY <1>0, <2>2, <2>3, TrimmedAgrees, MemoryParts
  <2>5. Memory' \in Memories /\ checkpoints' = m.cps
    BY <2>2, <2>4, Remembered
  <2>6. Len(m.cps) \in Nat /\ Len(checkpoints) \in Nat /\ MaxCheckpoints \in Nat
    BY <1>0, <2>4, MemoryParts, MemoryFields, ConversationAssumption
  <2>7. Len(checkpoints') <= MaxCheckpoints
    BY <1>0, <2>4, <2>5, <2>6
  <2>8. pc \in InTurn /\ pc' \in InTurn /\ pc' # "decode"
    BY <2>1 DEF InTurn
  <2>9. tokens' \in Seq(Tokens) /\ n_common' \in Nat /\ fed' \in Nat /\ n_gen' \in Nat /\ cancelled' \in BOOLEAN
    BY <1>0, <2>1 DEF Typed
  <2> QED BY <2>1, <2>5, <2>7, <2>8, <2>9, TurnGoesOn
<1>2. CASE Finish
  <2>1. UNCHANGED <<kept, cancel, foreign>> /\ UNCHANGED memory /\ pc' = "idle" /\ TurnOver
        /\ history' = (IF chat THEN Append(history, "assistant") ELSE history)
    BY <1>2 DEF Finish
  <2>2. Memory' \in Memories /\ checkpoints' = checkpoints
    BY <1>0, <2>1, SameMemory
  <2>3. history' \in Seq(Voices)
    BY <1>0, <2>1, FrontFacts DEF Voices
  <2> QED BY <1>0, <2>1, <2>2, <2>3, TurnOverTyped DEF Typed
<1> QED BY <1>1, <1>2

\* The kinds, in the calls that are no turn.
LEMMA ShapeCalls == Shape /\ (Perplexity \/ Score \/ DecideFails \/ Reopen \/ Cancel) => Shape'
<1> SUFFICES ASSUME Shape, Perplexity \/ Score \/ DecideFails \/ Reopen \/ Cancel PROVE Shape'
  OBVIOUS
<1>0. /\ Typed /\ Undoes /\ Decided /\ Memory \in Memories /\ Len(checkpoints) <= MaxCheckpoints
  BY DEF Shape, Typed
<1>1. ctx \in Seq(Word) /\ dft \in Seq(Cell) /\ kv \in Seq(Word) /\ checkpoints \in Seq(Checkpoint)
  BY <1>0, MemoryParts
<1>2. <<>> \in Seq(Word) /\ <<>> \in Seq(Checkpoint) /\ <<>> \in Seq(Tokens) /\ <<>> \in Seq(Voices)
      /\ Len(<<>>) <= MaxCheckpoints
  BY NoneFit
<1>3. CASE Perplexity
  <2>1. /\ pc = "idle" /\ pc' = "idle" /\ kv' = <<>> /\ checkpoints' = <<>> /\ foreign' = TRUE
        /\ UNCHANGED <<dft, history, kept, cancel, chat, structured, undo, before, tokens, n_common, fed, n_gen, cancelled>>
    BY <1>3 DEF Perplexity, turn
  <2>2. PICK text \in Prompts : ctx' \in Stopped(<<>>, text)
    BY <1>3 DEF Perplexity
  <2>3. ctx' \in Seq(Word)
    BY <1>2, <2>2, PromptFacts, StoppedFacts
  <2>4. Memory' \in Memories
    BY <1>1, <1>2, <2>1, <2>3, MemoryNext
  <2>5. Typed'
    BY <1>0, <1>2, <2>1, <2>4 DEF Typed
  <2> QED BY <1>0, <2>1, <2>5 DEF Shape, Undoes, Decided, InTurn
<1>4. CASE Score \/ DecideFails
  <2>1. /\ pc \in {"score", "split"} /\ pc' \in {"idle", "dead"} /\ ctx' = <<>> /\ TurnOver
        /\ UNCHANGED <<dft, kv, checkpoints, history, kept, cancel, foreign>>
    BY <1>4 DEF Score, DecideFails
  <2>2. Memory' \in Memories
    BY <1>1, <1>2, <2>1, MemoryNext
  <2> QED BY <1>0, <2>1, <2>2, TurnOverTyped DEF Typed
<1>5. CASE Reopen
  <2>1. /\ pc = "dead" /\ pc' = "idle" /\ Remember(Emptied) /\ history' = <<>> /\ kept' = <<>>
        /\ cancel' = FALSE /\ foreign' = FALSE
        /\ UNCHANGED <<chat, structured, undo, before, tokens, n_common, fed, n_gen, cancelled>>
    BY <1>5 DEF Reopen, turn
  <2>2. Memory' \in Memories /\ checkpoints' = <<>>
    BY <2>1, EmptiedFacts, Remembered
  <2>3. Len(checkpoints') <= MaxCheckpoints
    BY <1>2, <2>2, Zenon
  <2>4. Typed'
    BY <1>0, <1>2, <2>1, <2>2, <2>3 DEF Typed
  <2> QED BY <1>0, <2>1, <2>4 DEF Shape, Undoes, Decided, InTurn
<1>6. CASE Cancel
  <2>1. /\ UNCHANGED <<memory, history, kept, pc, turn, foreign>> /\ cancel' = TRUE
    BY <1>6 DEF Cancel
  <2>2. Memory' \in Memories /\ checkpoints' = checkpoints
    BY <1>0, <2>1, SameMemory
  <2>3. UNCHANGED <<ctx, kv, dft, chat, structured, undo, before, tokens, n_common, fed, tok, n_gen, cancelled>>
    BY <2>1 DEF memory, turn
  <2>4. Typed'
    BY <1>0, <2>1, <2>2, <2>3 DEF Typed
  <2>5. Undoes' /\ Decided'
    BY <1>0, <2>1, <2>2, <2>3 DEF Undoes, Decided
  <2> QED BY <2>4, <2>5 DEF Shape
<1> QED BY <1>3, <1>4, <1>5, <1>6

\* The kinds, and where a decision starts, when it is asked for.
LEMMA ShapeDecide == Shape /\ Decide => Shape'
<1> SUFFICES ASSUME Shape, Decide PROVE Shape'
  OBVIOUS
<1>0. /\ Typed /\ Undoes /\ kept \in Seq(Tokens)
  BY DEF Shape, Typed
<1>2. <<>> \in Seq(Word) /\ <<>> \in Seq(Checkpoint) /\ <<>> \in Seq(Cell) /\ <<>> \in Seq(Tokens)
      /\ <<>> \in Seq(Voices) /\ Len(<<>>) <= MaxCheckpoints /\ Len(<<>>) = 0
  BY NoneFit
<1>3. /\ pc = "idle" /\ pc' = "split" /\ cancel' = FALSE /\ history' = <<>> /\ foreign' = FALSE
      /\ tokens' \in Prompts /\ fed' \in 0..Len(tokens')
      /\ UNCHANGED <<chat, structured, undo, before, n_common, tok, n_gen, cancelled>>
  BY DEF Decide
<1>4. tokens' \in Seq(Tokens) /\ Len(tokens') \in Nat /\ fed' \in Nat /\ fed' <= Len(tokens')
  BY <1>3, PromptFacts
<1>5. /\ kv' = <<>> /\ checkpoints' = <<>> /\ dft' = <<>> /\ ctx' \in Seq(Word) /\ kept' \in Seq(Tokens)
      /\ Begins(ctx', tokens') /\ Len(ctx') <= fed'
  <2>1. CASE Restorable(tokens', fed')
    <3>1. PICK loads \in {TRUE, LoadsState} :
             /\ Remember([Emptied EXCEPT !.ctx = IF loads THEN kept ELSE <<>>])
             /\ kept' = (IF loads THEN kept ELSE <<>>)
      BY <2>1 DEF Decide
    <3>2. kept \in Seq(Word) /\ Begins(kept, tokens') /\ Len(kept) <= fed'
      <4>1. IsPrefix(kept, tokens') /\ Len(kept) <= fed'
        BY <2>1 DEF Restorable
      <4>2. Begins(kept, tokens')
        BY <1>0, <1>4, <4>1, PrefixBegins
      <4> QED BY <1>0, <4>1, <4>2, WordFacts
    <3>3. /\ ctx' = (IF loads THEN kept ELSE <<>>) /\ kv' = <<>> /\ checkpoints' = <<>> /\ dft' = <<>>
      BY <3>1 DEF Remember, Emptied
    <3>4. Begins(<<>>, tokens')
      BY <1>2, <1>4, BeginsFacts
    <3> QED BY <1>0, <1>2, <1>4, <3>1, <3>2, <3>3, <3>4
  <2>2. CASE ~Restorable(tokens', fed')
    <3>1. Remember(Emptied) /\ kept' = kept
      BY <2>2 DEF Decide
    <3>2. Begins(<<>>, tokens')
      BY <1>2, <1>4, BeginsFacts
    <3> QED BY <1>0, <1>2, <1>4, <3>1, <3>2 DEF Remember, Emptied
  <2> QED BY <2>1, <2>2
<1>6. Memory' \in Memories /\ Len(checkpoints') <= MaxCheckpoints
  <2>1. Memory' \in Memories
    BY <1>2, <1>5, MemoryNext
  <2>2. Len(checkpoints') <= MaxCheckpoints
    BY <1>2, <1>5, Zenon
  <2> QED BY <2>1, <2>2
<1>7. Typed'
  BY <1>0, <1>2, <1>3, <1>4, <1>5, <1>6 DEF Typed
<1>8. Undoes'
  BY <1>0, <1>3 DEF Undoes, InTurn
<1>9. Decided'
  BY <1>3, <1>4, <1>5 DEF Decided
<1> QED BY <1>7, <1>8, <1>9 DEF Shape

\* The kinds, and all of the prompt, when a decision is prefilled.
LEMMA ShapeDecidePrefill == Shape /\ DecidePrefill => Shape'
<1> SUFFICES ASSUME Shape, DecidePrefill PROVE Shape'
  OBVIOUS
<1>0. /\ Typed /\ Undoes /\ Decided /\ Memory \in Memories /\ Len(checkpoints) <= MaxCheckpoints
      /\ kept \in Seq(Tokens) /\ tokens \in Seq(Tokens) /\ tokens \in Seq(Word) /\ Len(tokens) \in Nat
      /\ fed \in Nat
  BY WordFacts DEF Shape, Typed
<1>1. /\ ctx \in Seq(Word) /\ dft \in Seq(Cell) /\ kv \in Seq(Word) /\ checkpoints \in Seq(Checkpoint)
      /\ Len(ctx) \in Nat
  BY <1>0, MemoryParts
<1>2. /\ pc = "split" /\ pc' = "score"
      /\ UNCHANGED <<dft, kv, checkpoints, history, cancel, chat, structured, undo, before, tokens,
                     n_common, fed, tok, n_gen, cancelled, foreign>>
  BY DEF DecidePrefill, turn
<1>3. /\ Begins(ctx, tokens) /\ Len(ctx) <= fed /\ fed <= Len(tokens)
      /\ kv = <<>> /\ checkpoints = <<>> /\ dft = <<>>
  BY <1>0, <1>2 DEF Decided
<1>4. PICK head : head = SubSeq(tokens, Len(ctx) + 1, fed)
  OBVIOUS
<1>5. PICK rest : rest = SubSeq(tokens, fed + 1, Len(tokens))
  OBVIOUS
<1>6. PICK base : base = ctx \o head
  OBVIOUS
<1>7. /\ ctx' = base \o rest
      /\ kept' \in (IF head = <<>> THEN {kept} ELSE {First(tokens, fed)} \cup (IF LoadsState THEN {} ELSE {<<>>}))
  BY <1>4, <1>5, <1>6 DEF DecidePrefill
<1>8. head \in Seq(Word) /\ Len(head) = fed - Len(ctx) /\ \A i \in 1..(fed - Len(ctx)) : head[i] = tokens[Len(ctx) + i]
  BY <1>0, <1>1, <1>3, <1>4, StretchFacts
<1>9. rest \in Seq(Word) /\ Len(rest) = Len(tokens) - fed /\ \A i \in 1..(Len(tokens) - fed) : rest[i] = tokens[fed + i]
  BY <1>0, <1>3, <1>5, StretchFacts
<1>10. base \in Seq(Word) /\ Len(base) = fed /\ Begins(base, tokens)
  <2>1. base \in Seq(Word) /\ Len(base) = Len(ctx) + Len(head)
    BY <1>1, <1>6, <1>8, ConcatFacts
  <2>2. Len(ctx) + Len(head) = fed
    BY <1>0, <1>1, <1>8
  <2>3. Begins(base, tokens)
    BY <1>0, <1>1, <1>3, <1>6, <1>8, <2>2, Continues
  <2> QED BY <2>1, <2>2, <2>3
<1>11. ctx' \in Seq(Word) /\ ctx' = tokens
  <2>1. ctx' \in Seq(Word) /\ Len(ctx') = Len(base) + Len(rest)
    BY <1>7, <1>9, <1>10, ConcatFacts
  <2>2. Len(base) + Len(rest) = Len(tokens)
    BY <1>0, <1>9, <1>10
  <2>3. Begins(ctx', tokens)
    <3>1. Len(base) + Len(rest) <= Len(tokens) /\ \A i \in 1..Len(rest) : rest[i] = tokens[Len(base) + i]
      BY <1>0, <1>9, <1>10, <2>2
    <3> QED BY <1>0, <1>7, <1>9, <1>10, <3>1, Continues
  <2>4. Len(ctx') >= Len(tokens)
    BY <1>0, <2>1, <2>2
  <2> QED BY <1>0, <2>1, <2>3, <2>4, BeginsFacts
<1>12. kept' \in Seq(Tokens)
  <2>1. First(tokens, fed) \in Seq(Tokens)
    BY <1>0, <1>3, FirstFacts
  <2>2. <<>> \in Seq(Tokens)
    OBVIOUS
  <2> QED BY <1>0, <1>7, <2>1, <2>2
<1>13. Memory' \in Memories
  BY <1>1, <1>2, <1>11, MemoryNext
<1>14. Typed'
  BY <1>0, <1>2, <1>12, <1>13 DEF Typed
<1>15. Undoes'
  BY <1>0, <1>2 DEF Undoes, InTurn
<1>16. Decided'
  BY <1>2, <1>3, <1>11 DEF Decided
<1> QED BY <1>14, <1>15, <1>16 DEF Shape

\* The kinds, in every step.
LEMMA ShapeNext == Shape /\ [Next]_vars => Shape'
<1> SUFFICES ASSUME Shape, [Next]_vars PROVE Shape'
  OBVIOUS
<1>1. CASE UNCHANGED vars
  <2>1. UNCHANGED <<ctx, kv, dft, checkpoints, history, kept, cancel, pc, foreign, chat, structured, undo,
                    before, tokens, n_common, fed, tok, n_gen, cancelled>>
    BY <1>1 DEF vars, memory, turn
  <2>2. Memory' = Memory
    BY <2>1 DEF Memory
  <2>3. Typed' = Typed
    BY <2>1, <2>2 DEF Typed
  <2> QED BY <2>1, <2>3 DEF Shape, Undoes, Decided
<1>2. CASE Next
  BY <1>2, ShapeBegin, ShapeUndone, ShapeReuse, ShapePrefill, ShapeDecode, ShapeEnd, ShapeCalls,
     ShapeDecide, ShapeDecidePrefill DEF Next, Undoing
<1> QED BY <1>1, <1>2

\* The kinds, always.
LEMMA ShapeHolds == Spec => []Shape
BY ShapeInit, ShapeNext, PTL DEF Spec

\* TypeOK: what the variables can be.
THEOREM TypeCorrect == Spec => []TypeOK
<1>1. Shape => TypeOK
  <2> SUFFICES ASSUME Shape PROVE TypeOK
    OBVIOUS
  <2>1. Typed
    BY DEF Shape
  <2>2. ctx \in Seq(Word) /\ dft \in Seq(Cell) /\ kv \in Seq(Word)
    BY <2>1, MemoryParts DEF Typed
  <2>3. Word = Tokens \cup {Eog} /\ Cell = Tokens \cup {Eog, Gap}
    BY DEF Word, Cell
  <2> QED BY <2>1, <2>2, <2>3 DEF Typed, TypeOK, Voices, InTurn
<1> QED BY <1>1, ShapeHolds, PTL

\* ScoresItsPrompt: a decision is scored on its whole prompt, restored prefix included.
THEOREM WholePrompt == Spec => []ScoresItsPrompt
<1>1. Shape => ScoresItsPrompt
  BY DEF Shape, Decided, ScoresItsPrompt
<1> QED BY <1>1, ShapeHolds, PTL

----------------------------------------------------------------------------
(***************************************************************************)
(* The history outside a turn ends in an answer.                           *)
(***************************************************************************)
\* What each kind of turn undoes to.
LEMMA UndoneHistoryIs ==
  /\ undo = "pop" => UndoneHistory = Front(history)
  /\ undo = "replace" => UndoneHistory = before
  /\ undo = "nothing" => UndoneHistory = history
BY DEF UndoneHistory

\* The same of the next state.
LEMMA UndoneHistoryNext ==
  /\ undo' = "pop" => UndoneHistory' = Front(history')
  /\ undo' = "replace" => UndoneHistory' = before'
  /\ undo' = "nothing" => UndoneHistory' = history'
BY DEF UndoneHistory

\* The first message is what makes a turn's to be undone.
LEMMA UndoneBegin == Shape /\ Undone /\ BeginGenerate => Undone'
<1> SUFFICES ASSUME Shape, Undone, BeginGenerate PROVE Undone'
  OBVIOUS
<1>0. /\ pc = "idle" /\ pc' = "render" /\ history \in Seq(Voices) /\ undo = "nothing"
  BY DEF BeginGenerate, Shape, Typed, Undoes, InTurn
<1>1. Answered(history)
  BY <1>0, UndoneHistoryIs DEF Undone
<1>2. PICK clear \in BOOLEAN, replace \in BOOLEAN :
         LET said == IF clear THEN <<>> ELSE history IN
         /\ undo' = (IF replace THEN "replace" ELSE "pop")
         /\ before' = (IF replace THEN said ELSE <<>>)
         /\ history' = (IF replace THEN <<"user">> ELSE Append(said, "user"))
  BY DEF BeginGenerate
<1>3. PICK said : said = IF clear THEN <<>> ELSE history
  OBVIOUS
<1>4. said \in Seq(Voices) /\ "user" \in Voices
  BY <1>0, <1>3 DEF Voices
<1>5. Answered(said)
  BY <1>1, <1>3 DEF Answered
<1>6. /\ undo' = (IF replace THEN "replace" ELSE "pop")
      /\ before' = (IF replace THEN said ELSE <<>>)
      /\ history' = (IF replace THEN <<"user">> ELSE Append(said, "user"))
  BY <1>2, <1>3
<1>7. UndoneHistory' = said
  <2>1. CASE replace
    BY <1>6, <2>1, UndoneHistoryNext
  <2>2. CASE ~replace
    <3>1. Front(Append(said, "user")) = said
      BY <1>4, FrontFacts
    <3> QED BY <1>6, <2>2, <3>1, UndoneHistoryNext
  <2> QED BY <2>1, <2>2
<1> QED BY <1>5, <1>7 DEF Undone

\* A turn that is refused, fed raw, undone or failed leaves what it found.
LEMMA UndoneBack == Shape /\ Undone /\ (Refuse \/ FeedRaw \/ Undoing \/ PrefillFails \/ StepFails) => Undone'
<1> SUFFICES ASSUME Shape, Undone, Refuse \/ FeedRaw \/ Undoing \/ PrefillFails \/ StepFails PROVE Undone'
  OBVIOUS
<1>1. CASE PrefillFails \/ StepFails
  BY <1>1 DEF PrefillFails, StepFails, Fail, Undone
<1>2. CASE Refuse \/ FeedRaw \/ Undoing
  <2>1. history' = UndoneHistory /\ undo' = "nothing"
    <3>1. CASE Refuse \/ FeedRaw
      BY <3>1 DEF Refuse, FeedRaw, UndoHistory, TurnOver
    <3>2. CASE Undoing
      BY <3>2, UndoingFacts, UndoneFromFacts DEF Shape
    <3> QED BY <1>2, <3>1, <3>2
  <2>2. pc # "dead"
    BY <1>2 DEF Refuse, FeedRaw, Undoing, PrefillCancelled, SampleFails, DraftRefused, ParseFails, FinishCancelled
  <2>3. UndoneHistory' = UndoneHistory
    BY <2>1, UndoneHistoryNext
  <2> QED BY <2>2, <2>3 DEF Undone
<1> QED BY <1>1, <1>2

\* A turn that goes on keeps what it can undo; the calls that are no turn have nothing to.
LEMMA UndoneOn ==
  Shape /\ Undone /\ (ReuseKvPrefix \/ PrefillPiece \/ EndPrefill \/ Sample \/ Step \/ StepCancelled \/ Trim
                      \/ Perplexity \/ DecidePrefill \/ Cancel \/ Decide \/ DecideFails \/ Score \/ Reopen)
    => Undone'
<1> SUFFICES ASSUME Shape, Undone PROVE
      (ReuseKvPrefix \/ PrefillPiece \/ EndPrefill \/ Sample \/ Step \/ StepCancelled \/ Trim
       \/ Perplexity \/ DecidePrefill \/ Cancel \/ Decide \/ DecideFails \/ Score \/ Reopen) => Undone'
  OBVIOUS
<1>0. Undoes
  BY DEF Shape
<1>1. ASSUME UNCHANGED <<history, undo, before>>, pc # "dead" \/ pc' = pc PROVE Undone'
  <2>1. UndoneHistory' = UndoneHistory
    BY <1>1 DEF UndoneHistory
  <2> QED BY <1>1, <2>1 DEF Undone
<1>2. ASSUME ReuseKvPrefix \/ PrefillPiece \/ EndPrefill \/ Sample \/ Step \/ StepCancelled \/ Trim
      PROVE  UNCHANGED <<history, undo, before>> /\ pc # "dead"
  BY <1>2 DEF ReuseKvPrefix, PrefillPiece, EndPrefill, Sample, Step, StepCancelled, Trim, turn
<1>3. ASSUME Perplexity \/ DecidePrefill \/ Cancel
      PROVE  UNCHANGED <<history, undo, before>> /\ (pc # "dead" \/ pc' = pc)
  BY <1>3 DEF Perplexity, DecidePrefill, Cancel, turn
<1>4. ASSUME Decide \/ Reopen PROVE Undone'
  <2>1. history' = <<>> /\ undo' = undo /\ pc \notin InTurn
    BY <1>4 DEF Decide, Reopen, turn, InTurn
  <2>2. UndoneHistory' = <<>>
    BY <1>0, <2>1, UndoneHistoryNext DEF Undoes
  <2> QED BY <2>2 DEF Undone, Answered
<1>5. ASSUME DecideFails \/ Score PROVE Undone'
  <2>1. history' = history /\ undo' = "nothing" /\ pc \in {"split", "score"}
    BY <1>5 DEF DecideFails, Score, TurnOver
  <2>2. undo = "nothing"
    BY <1>0, <2>1 DEF Undoes, InTurn
  <2>3. UndoneHistory' = UndoneHistory
    BY <2>1, <2>2, UndoneHistoryNext, UndoneHistoryIs
  <2> QED BY <2>1, <2>3 DEF Undone
<1> QED BY <1>1, <1>2, <1>3, <1>4, <1>5

\* An answered turn is answered; a raw prompt said nothing.
LEMMA UndoneFinish == Shape /\ Undone /\ Finish => Undone'
<1> SUFFICES ASSUME Shape, Undone, Finish PROVE Undone'
  OBVIOUS
<1>1. /\ pc = "finish" /\ undo' = "nothing" /\ history \in Seq(Voices)
      /\ history' = (IF chat THEN Append(history, "assistant") ELSE history)
  BY DEF Finish, TurnOver, Shape, Typed
<1>2. UndoneHistory' = history'
  BY <1>1, UndoneHistoryNext
<1>3. CASE chat
  <2>1. Last(Append(history, "assistant")) = "assistant"
    <3>1. "assistant" \in Voices
      BY DEF Voices
    <3> QED BY <1>1, <3>1, FrontFacts
  <2>2. Answered(history')
    BY <1>1, <1>3, <2>1 DEF Answered
  <2> QED BY <1>2, <2>2 DEF Undone
<1>4. CASE ~chat
  <2>1. undo = "nothing"
    BY <1>4 DEF Shape, Undoes
  <2>2. history' = UndoneHistory
    BY <1>1, <1>4, <2>1, UndoneHistoryIs
  <2> QED BY <1>1, <1>2, <2>2 DEF Undone
<1> QED BY <1>3, <1>4

\* AnsweredOnly: between two turns every message was answered, for every instance.
THEOREM AlwaysAnswered == Spec => []AnsweredOnly
<1>1. Init => Undone
  BY DEF Init, Undone, Answered, UndoneHistory
<1>2. Shape /\ Undone /\ [Next]_vars => Undone'
  <2> SUFFICES ASSUME Shape, Undone, [Next]_vars PROVE Undone'
    OBVIOUS
  <2>1. CASE UNCHANGED vars
    <3>1. UNCHANGED <<history, undo, before, pc>>
      BY <2>1 DEF vars, turn
    <3>2. UndoneHistory' = UndoneHistory
      BY <3>1 DEF UndoneHistory
    <3> QED BY <3>1, <3>2 DEF Undone
  <2>2. CASE Next
    BY <2>2, UndoneBegin, UndoneBack, UndoneOn, UndoneFinish DEF Next, Undoing
  <2> QED BY <2>1, <2>2
<1>3. Shape /\ Undone => AnsweredOnly
  <2> SUFFICES ASSUME Shape, Undone, pc = "idle" PROVE Answered(history)
    BY DEF AnsweredOnly, Answered
  <2>1. undo = "nothing"
    BY DEF Shape, Undoes, InTurn
  <2> QED BY <2>1, UndoneHistoryIs DEF Undone
<1> QED BY <1>1, <1>2, <1>3, ShapeHolds, PTL DEF Spec

----------------------------------------------------------------------------
(***************************************************************************)
(* The record is the context: the start of a turn, its undoing, the reuse  *)
(* of a prefix.                                                            *)
(***************************************************************************)
\* Nothing is generated before the prompt is in.
Fresh == pc \notin {"sample", "decode", "parse", "finish"} => n_gen = 0
Record == RecordAgrees /\ Fresh

\* Where no turn runs, the record is the context or the context is foreign.
LEMMA RecordRests ==
  ASSUME pc' \in {"idle", "render", "dead", "split", "score"},
         pc' \in {"idle", "render"} /\ ~foreign' => Agreed(Memory')
  PROVE  RecordAgrees'
BY DEF RecordAgrees

\* Checkpoints that describe a text describe one it begins.
LEMMA DescribeLonger ==
  ASSUME NEW cps \in Seq(Checkpoint), NEW t \in Seq(Word), NEW u \in Seq(Word),
         Describe(cps, t), Begins(t, u)
  PROVE  Describe(cps, u)
<1>1. ASSUME NEW c \in ToSet(cps) PROVE c.n = Len(c.tgt) /\ Begins(c.tgt, u)
  <2>1. c.tgt \in Seq(Word) /\ c.n = Len(c.tgt) /\ Begins(c.tgt, t)
    BY CheckpointFields DEF Describe
  <2> QED BY <2>1, BeginsFacts
<1> QED BY <1>1 DEF Describe

\* What agrees with its record is recorded.
LEMMA AgreedRecorded ==
  ASSUME NEW m \in Memories, Agreed(m)
  PROVE  Recorded(m, m.kv)
<1>1. m.kv \in Seq(Word)
  BY MemoryFields
<1>2. Begins(m.kv, m.kv)
  BY <1>1, BeginsFacts
<1> QED BY <1>2 DEF Agreed, Recorded

\* Agreed, of the variables.
LEMMA AgreedParts == Agreed(Memory) <=> ctx = kv /\ Describe(checkpoints, kv)
BY DEF Agreed, Memory

\* Recorded, of the variables.
LEMMA RecordedParts == Recorded(Memory, kv) <=> Begins(kv, ctx) /\ Begins(kv, kv) /\ Describe(checkpoints, kv)
BY DEF Recorded, Memory

\* A turn begins on what agrees.
LEMMA RecordBegin == Shape /\ Record /\ (BeginGenerate \/ Refuse \/ FeedRaw) => Record'
<1> SUFFICES ASSUME Shape, Record, BeginGenerate \/ Refuse \/ FeedRaw PROVE Record'
  OBVIOUS
<1>0. Typed /\ RecordAgrees /\ Fresh
  BY DEF Shape, Record
<1>1. CASE BeginGenerate
  <2>1. pc = "idle" /\ pc' = "render" /\ n_gen' = n_gen
    BY <1>1 DEF BeginGenerate
  <2>2. (Remember(Emptied) /\ foreign' = FALSE) \/ UNCHANGED <<memory, foreign>>
    BY <1>1 DEF BeginGenerate
  <2>3. ~foreign' => Agreed(Memory')
    <3>1. CASE Remember(Emptied)
      BY <3>1, EmptiedFacts, Remembered
    <3>2. CASE UNCHANGED <<memory, foreign>>
      <4>1. Memory' = Memory /\ foreign' = foreign
        BY <3>2 DEF memory, Memory
      <4> QED BY <1>0, <2>1, <4>1 DEF RecordAgrees
    <3> QED BY <2>2, <3>1, <3>2
  <2> QED BY <1>0, <2>1, <2>3, RecordRests DEF Record, Fresh
<1>2. CASE Refuse
  <2>1. /\ pc = "render" /\ pc' = "idle" /\ n_gen' = 0 /\ foreign' = foreign /\ Memory' = Memory
    BY <1>2 DEF Refuse, TurnOver, memory, Memory
  <2>2. ~foreign' => Agreed(Memory')
    BY <1>0, <2>1 DEF RecordAgrees
  <2> QED BY <2>1, <2>2, RecordRests DEF Record, Fresh
<1>3. CASE FeedRaw
  <2>1. pc = "render" /\ pc' = "render" /\ n_gen' = n_gen /\ foreign' = TRUE
    BY <1>3 DEF FeedRaw
  <2> QED BY <1>0, <2>1, RecordRests DEF Record, Fresh
<1> QED BY <1>1, <1>2, <1>3

\* A turn undone leaves the record and the context agreed.
LEMMA RecordUndone == Shape /\ Record /\ (Undoing \/ PrefillFails \/ StepFails) => Record'
<1> SUFFICES ASSUME Shape, Record, Undoing \/ PrefillFails \/ StepFails PROVE Record'
  OBVIOUS
<1>0. Typed /\ Undoes /\ RecordAgrees /\ n_common \in Nat
  BY DEF Shape, Record, Typed
<1>1. CASE Undoing
  <2>1. PICK m : /\ UndoneFrom(m)
                 /\ RecordAgrees /\ ~foreign => \E t \in Seq(Word) : Recorded(m, t)
    BY <1>0, <1>1, UndoingFacts
  <2>2. m \in Memories /\ pc' \in {"idle", "dead"} /\ n_gen' = 0 /\ foreign' = foreign
    BY <2>1 DEF UndoneFrom, Rollback, TurnOver
  <2>3. ~foreign => Agreed(Memory')
    <3> SUFFICES ASSUME ~foreign PROVE Agreed(Memory')
      OBVIOUS
    <3>1. chat
      BY <1>0 DEF Undoes
    <3>2. PICK t \in Seq(Word) : Recorded(m, t)
      BY <1>0, <2>1
    <3>3. PICK r \in RolledBack(m) : Memory' = r
      BY <2>1, UndoneFromFacts
    <3>4. Agreed(r)
      BY <1>0, <2>2, <3>1, <3>2, RolledBackAgrees
    <3> QED BY <3>3, <3>4
  <2> QED BY <2>2, <2>3, RecordRests DEF Record, Fresh
<1>2. CASE PrefillFails \/ StepFails
  <2>1. pc' = "dead" /\ n_gen' = 0
    BY <1>2 DEF PrefillFails, StepFails, Fail, TurnOver
  <2> QED BY <2>1, RecordRests DEF Record, Fresh
<1> QED BY <1>1, <1>2

\* What of the memories is kept for a prompt begins it.
LEMMA RecordReuse == Shape /\ Record /\ ReuseKvPrefix => Record'
<1> SUFFICES ASSUME Shape, Record, ReuseKvPrefix PROVE Record'
  OBVIOUS
<1>0. Typed /\ Undoes /\ RecordAgrees /\ Fresh /\ Memory \in Memories
  BY DEF Shape, Record, Typed
<1>1. /\ ctx \in Seq(Word) /\ kv \in Seq(Word) /\ checkpoints \in Seq(Checkpoint) /\ Len(kv) \in Nat
      /\ Memory.kv = kv /\ Memory.cps = checkpoints /\ Memory.ctx = ctx
  BY <1>0, MemoryParts
<1>2. /\ pc = "render" /\ pc' = "prefill" /\ foreign' = foreign /\ n_gen' = n_gen
  BY DEF ReuseKvPrefix
<1>3. Fresh'
  BY <1>0, <1>2 DEF Fresh
<1>4. tokens' \in Seq(Word) /\ fed' = n_common' /\ Len(tokens') \in Nat
  BY <1>0, ReuseFacts, WordFacts
<1>5. CASE foreign
  BY <1>2, <1>3, <1>5 DEF Record, RecordAgrees
<1>6. CASE ~foreign
  <2>1. chat /\ Agreed(Memory) /\ ctx = kv /\ Describe(checkpoints, kv)
    BY <1>0, <1>2, <1>6, AgreedParts DEF Undoes, RecordAgrees
  <2>2. SUFFICES /\ Begins(kv', tokens') /\ Len(kv') = n_common' /\ ctx' = kv' /\ n_common' \in Nat
                 /\ Describe(checkpoints', tokens')
    <3>1. n_common' <= fed' /\ fed' <= Len(tokens')
      BY <1>4, <2>2 DEF Begins
    <3> QED BY <1>2, <1>3, <1>4, <2>2, <3>1 DEF Record, RecordAgrees
  <2>3. CASE kv = <<>> /\ UNCHANGED memory /\ n_common' = 0
    <3>1. UNCHANGED <<ctx, kv, checkpoints>>
      BY <2>3 DEF memory
    <3>2. Begins(kv, tokens')
      BY <1>1, <1>4, <2>3, BeginsFacts
    <3>3. Describe(checkpoints, tokens')
      BY <1>1, <1>4, <2>1, <3>2, DescribeLonger
    <3>4. Len(kv) = 0
      BY <2>3
    <3>5. Begins(kv', tokens') /\ Describe(checkpoints', tokens')
      BY <3>1, <3>2, <3>3
    <3>6. Len(kv') = n_common' /\ ctx' = kv' /\ n_common' \in Nat
      BY <2>1, <2>3, <3>1, <3>4
    <3> QED BY <3>5, <3>6
  <2>4. ASSUME NEW n \in Nat, NEW k, NEW m \in Memories,
               n <= Len(kv), n <= Len(tokens'), First(kv, n) = First(tokens', n),
               k \in Keep(Memory, n) \/ (n = Len(kv) /\ k = <<Memory, n>>),
               m \in DraftTo(k[1], k[2]), Remember(m), n_common' = k[2]
        PROVE  /\ Begins(kv', tokens') /\ Len(kv') = n_common' /\ ctx' = kv' /\ n_common' \in Nat
               /\ Describe(checkpoints', tokens')
    <3>1. /\ k[1] \in Memories /\ k[2] = Len(k[1].kv) /\ k[2] <= n /\ Agreed(k[1])
          /\ k[2] \in Nat /\ Begins(k[1].kv, kv)
      <4>1. CASE k \in Keep(Memory, n)
        <5>1. Recorded(Memory, kv)
          BY <1>0, <1>1, <2>1, AgreedRecorded
        <5> QED BY <1>0, <1>1, <4>1, <5>1, KeepAgrees
      <4>2. CASE n = Len(kv) /\ k = <<Memory, n>>
        <5>1. k[1] = Memory /\ k[2] = n
          BY <4>2
        <5>2. Begins(kv, kv)
          BY <1>1, BeginsFacts
        <5> QED BY <1>0, <1>1, <2>1, <4>2, <5>1, <5>2
      <4> QED BY <2>4, <4>1, <4>2
    <3>2. PICK w : w = k[1].kv
      OBVIOUS
    <3>3. w \in Seq(Word) /\ Begins(w, kv) /\ Len(w) = k[2] /\ k[1].cps \in Seq(Checkpoint)
          /\ k[1].ctx = w /\ Describe(k[1].cps, w)
      BY <3>1, <3>2, MemoryFields DEF Agreed
    <3>4. Begins(w, tokens')
      <4>1. PICK f : f = First(kv, n)
        OBVIOUS
      <4>2. n \in 0..Len(kv) /\ n \in 0..Len(tokens')
        BY <1>1, <1>4, <2>4
      <4>3. f \in Seq(Word) /\ Len(f) = n /\ Begins(f, kv)
        BY <1>1, <4>1, <4>2, FirstFacts
      <4>4. Begins(f, tokens')
        BY <1>4, <2>4, <4>1, <4>2, FirstFacts
      <4>5. Len(w) <= Len(f)
        BY <3>1, <3>3, <4>3
      <4>6. Begins(w, f)
        BY <1>1, <3>3, <4>3, <4>5, BeginsFacts
      <4> QED BY <1>4, <3>3, <4>3, <4>4, <4>6, BeginsFacts
    <3>5. m.ctx = w /\ m.kv = w /\ m.cps = k[1].cps
      BY <2>4, <3>1, <3>2, <3>3, DraftToFacts
    <3>6. ctx' = w /\ kv' = w /\ checkpoints' = k[1].cps
      BY <2>4, <3>5, Remembered
    <3>7. Describe(k[1].cps, tokens')
      BY <1>4, <3>3, <3>4, DescribeLonger
    <3> QED BY <2>4, <3>1, <3>3, <3>4, <3>6, <3>7
  <2>5. \/ kv = <<>> /\ UNCHANGED memory /\ n_common' = 0
        \/ \E n \in Nat : \E k : \E m \in Memories :
                 /\ n <= Len(kv) /\ n <= Len(tokens') /\ First(kv, n) = First(tokens', n)
                 /\ k \in Keep(Memory, n) \/ (n = Len(kv) /\ k = <<Memory, n>>)
                 /\ m \in DraftTo(k[1], k[2]) /\ Remember(m) /\ n_common' = k[2]
    BY <1>0, <2>1, ReuseFacts
  <2> QED BY <2>3, <2>4, <2>5
<1> QED BY <1>5, <1>6

----------------------------------------------------------------------------
(***************************************************************************)
(* The record is the context: the decoding of a turn, the other calls.     *)
(***************************************************************************)
\* The prompt is fed behind what the context holds of it.
LEMMA RecordPiece == Shape /\ Record /\ PrefillPiece => Record'
<1> SUFFICES ASSUME Shape, Record, PrefillPiece PROVE Record'
  OBVIOUS
<1>0. /\ Typed /\ RecordAgrees /\ Fresh /\ Memory \in Memories /\ tokens \in Seq(Tokens) /\ tokens \in Seq(Word)
      /\ fed \in Nat /\ n_common \in Nat /\ Len(tokens) \in Nat
  BY WordFacts DEF Shape, Record, Typed
<1>1. /\ ctx \in Seq(Word) /\ dft \in Seq(Cell) /\ kv \in Seq(Word) /\ checkpoints \in Seq(Checkpoint)
  BY <1>0, MemoryParts
<1>2. /\ pc = "prefill" /\ pc' = "prefill" /\ fed < Len(tokens) /\ ctx' = ctx \o Piece
      /\ fed' = fed + Len(Piece) /\ UNCHANGED <<kv, tokens, n_common, n_gen, foreign>>
      /\ checkpoints' = (IF AtCheckpoint THEN Checkpointed(checkpoints, fed, ctx, dft) ELSE checkpoints)
  BY DEF PrefillPiece
<1>3. Fresh'
  BY <1>0, <1>2 DEF Fresh
<1>4. CASE foreign
  BY <1>2, <1>3, <1>4 DEF Record, RecordAgrees
<1>5. CASE ~foreign
  <2>1. /\ Begins(kv, tokens) /\ Len(kv) = n_common /\ n_common <= fed
        /\ Begins(ctx, tokens) /\ Len(ctx) = fed /\ Describe(checkpoints, tokens)
    BY <1>0, <1>2, <1>5 DEF RecordAgrees
  <2>2. /\ Piece \in Seq(Word) /\ fed + Len(Piece) <= Len(tokens) /\ Len(Piece) \in Nat
        /\ \A i \in 1..Len(Piece) : Piece[i] = tokens[fed + i]
    BY <1>0, <1>2, PieceFacts
  <2>3. ctx' \in Seq(Word) /\ Len(ctx') = fed + Len(Piece)
    BY <1>1, <1>2, <2>1, <2>2, ConcatFacts
  <2>4. Begins(ctx', tokens)
    <3>1. PICK b : b = Piece
      OBVIOUS
    <3>2. /\ b \in Seq(Word) /\ Len(ctx) + Len(b) <= Len(tokens)
          /\ \A i \in 1..Len(b) : b[i] = tokens[Len(ctx) + i] /\ ctx' = ctx \o b
      BY <1>2, <2>1, <2>2, <3>1
    <3>3. Begins(ctx \o b, tokens)
      BY <1>0, <1>1, <2>1, <3>2, Continues
    <3> QED BY <1>2, <3>1, <3>3
  <2>5. Describe(checkpoints', tokens)
    <3>1. \A c \in ToSet(checkpoints') : c \in ToSet(checkpoints) \/ c = [n |-> fed, tgt |-> ctx, dft |-> dft]
      BY <1>0, <1>2, CheckpointsFit
    <3>2. ASSUME NEW c \in ToSet(checkpoints') PROVE c.n = Len(c.tgt) /\ Begins(c.tgt, tokens)
      <4>1. CASE c \in ToSet(checkpoints)
        BY <2>1, <4>1 DEF Describe
      <4>2. CASE c = [n |-> fed, tgt |-> ctx, dft |-> dft]
        <5>1. c.n = fed /\ c.tgt = ctx
          BY <4>2
        <5> QED BY <2>1, <5>1
      <4> QED BY <3>1, <4>1, <4>2
    <3> QED BY <3>2 DEF Describe
  <2>6. n_common <= fed'
    BY <1>0, <1>2, <2>1, <2>2
  <2> QED BY <1>2, <1>3, <2>1, <2>2, <2>3, <2>4, <2>5, <2>6 DEF Record, RecordAgrees
<1> QED BY <1>4, <1>5

\* The whole prompt is what the context holds, and what is recorded.
LEMMA RecordEndPrefill == Shape /\ Record /\ EndPrefill => Record'
<1> SUFFICES ASSUME Shape, Record, EndPrefill PROVE Record'
  OBVIOUS
<1>0. /\ Typed /\ Undoes /\ RecordAgrees /\ Fresh /\ Memory \in Memories /\ tokens \in Seq(Tokens)
      /\ tokens \in Seq(Word) /\ fed \in Nat /\ n_common \in Nat /\ Len(tokens) \in Nat
  BY WordFacts DEF Shape, Record, Typed
<1>1. /\ ctx \in Seq(Word) /\ dft \in Seq(Cell) /\ kv \in Seq(Word) /\ checkpoints \in Seq(Checkpoint)
  BY <1>0, MemoryParts
<1>2. /\ pc = "prefill" /\ pc' = "sample" /\ fed = Len(tokens) /\ ctx' = ctx
      /\ UNCHANGED <<tokens, n_common, n_gen, foreign, fed>>
  BY DEF EndPrefill, turn
<1>3. Fresh' /\ n_gen = 0
  BY <1>0, <1>2 DEF Fresh
<1>4. CASE foreign
  BY <1>2, <1>3, <1>4 DEF Record, RecordAgrees
<1>5. CASE ~foreign
  <2>1. /\ Begins(kv, tokens) /\ Len(kv) = n_common /\ n_common <= fed
        /\ Begins(ctx, tokens) /\ Len(ctx) = fed /\ Describe(checkpoints, tokens)
    BY <1>0, <1>2, <1>5 DEF RecordAgrees
  <2>2. chat
    BY <1>0, <1>5 DEF Undoes
  <2>3. /\ kv' = kv \o SubSeq(tokens, n_common + 1, Len(tokens))
        /\ checkpoints' = Checkpointed(checkpoints, Len(tokens), ctx, dft)
    BY <2>2 DEF EndPrefill
  <2>4. ctx = tokens
    <3>1. Len(ctx) >= Len(tokens)
      BY <1>0, <1>2, <2>1
    <3> QED BY <1>0, <1>1, <2>1, <3>1, BeginsFacts
  <2>5. kv' = tokens
    <3>1. PICK rest : rest = SubSeq(tokens, n_common + 1, Len(tokens))
      OBVIOUS
    <3>2. rest \in Seq(Word) /\ Len(rest) = Len(tokens) - n_common
          /\ \A i \in 1..(Len(tokens) - n_common) : rest[i] = tokens[n_common + i]
      BY <1>0, <1>2, <2>1, <3>1, StretchFacts
    <3>3. PICK w : w = kv \o rest
      OBVIOUS
    <3>4. Len(kv) + Len(rest) = Len(tokens) /\ \A i \in 1..Len(rest) : rest[i] = tokens[Len(kv) + i]
      BY <1>0, <1>2, <2>1, <3>2
    <3>5. w \in Seq(Word) /\ Len(w) = Len(kv) + Len(rest)
      BY <1>1, <3>2, <3>3, ConcatFacts
    <3>6. Len(kv) + Len(rest) <= Len(tokens) /\ Len(w) >= Len(tokens)
      BY <1>0, <3>4, <3>5
    <3>7. Begins(w, tokens)
      BY <1>0, <1>1, <2>1, <3>2, <3>3, <3>4, <3>6, Continues
    <3>8. w = tokens
      BY <1>0, <3>5, <3>6, <3>7, BeginsFacts
    <3> QED BY <2>3, <3>1, <3>3, <3>8
  <2>6. Describe(checkpoints', tokens)
    <3>1. \A c \in ToSet(checkpoints') : c \in ToSet(checkpoints) \/ c = [n |-> fed, tgt |-> ctx, dft |-> dft]
      BY <1>0, <1>2, <2>3, CheckpointsFit
    <3>2. ASSUME NEW c \in ToSet(checkpoints') PROVE c.n = Len(c.tgt) /\ Begins(c.tgt, tokens)
      <4>1. CASE c \in ToSet(checkpoints)
        BY <2>1, <4>1 DEF Describe
      <4>2. CASE c = [n |-> fed, tgt |-> ctx, dft |-> dft]
        <5>1. c.n = fed /\ c.tgt = ctx
          BY <4>2
        <5> QED BY <2>1, <5>1
      <4> QED BY <3>1, <4>1, <4>2
    <3> QED BY <3>2 DEF Describe
  <2>7. Agreed(Memory')
    <3>1. Memory'.ctx = ctx' /\ Memory'.kv = kv' /\ Memory'.cps = checkpoints'
      BY DEF Memory
    <3> QED BY <1>2, <2>4, <2>5, <2>6, <3>1 DEF Agreed
  <2>8. Len(kv') = EmittedEnd'
    <3>1. EmittedEnd' = Len(tokens)
      BY <1>0, <1>2, <1>3 DEF EmittedEnd
    <3> QED BY <2>5, <3>1
  <2> QED BY <1>2, <1>3, <2>7, <2>8 DEF Record, RecordAgrees
<1> QED BY <1>4, <1>5

\* What is emitted is recorded, and the context is ahead of it by a drafted end at most.
LEMMA RecordDecode == Shape /\ Record /\ (Sample \/ Step \/ StepCancelled) => Record'
<1> SUFFICES ASSUME Shape, Record, Sample \/ Step \/ StepCancelled PROVE Record'
  OBVIOUS
<1>0. /\ Typed /\ Undoes /\ RecordAgrees /\ Memory \in Memories /\ tokens \in Seq(Tokens)
      /\ n_gen \in Nat /\ Len(tokens) \in Nat
  BY WordFacts DEF Shape, Record, Typed
<1>1. /\ ctx \in Seq(Word) /\ dft \in Seq(Cell) /\ kv \in Seq(Word) /\ checkpoints \in Seq(Checkpoint)
      /\ Len(kv) \in Nat
  BY <1>0, MemoryParts
<1>2. /\ pc \in {"sample", "decode"} /\ pc' \in {"sample", "decode", "parse"}
      /\ UNCHANGED <<tokens, foreign, checkpoints, chat>>
  BY DEF Sample, Step, StepCancelled, memory
<1>3. Fresh'
  BY <1>2 DEF Fresh
<1>4. CASE foreign
  BY <1>2, <1>3, <1>4 DEF Record, RecordAgrees
<1>5. CASE ~foreign
  <2>1. ctx = kv /\ Describe(checkpoints, kv) /\ Len(kv) = EmittedEnd /\ Begins(kv, kv) /\ chat
    BY <1>0, <1>1, <1>2, <1>5, AgreedParts, BeginsFacts DEF RecordAgrees, Undoes
  <2>2. Memory'.ctx = ctx' /\ Memory'.kv = kv' /\ Memory'.cps = checkpoints'
    BY DEF Memory
  <2>3. CASE Sample
    <3>1. UNCHANGED <<ctx, kv, checkpoints>> /\ n_gen' = n_gen
      BY <2>3 DEF Sample, memory
    <3>2. EmittedEnd' = EmittedEnd
      BY <1>2, <3>1 DEF EmittedEnd
    <3>3. Agreed(Memory') /\ Recorded(Memory', kv') /\ Len(kv') = EmittedEnd' /\ ctx' = kv'
      BY <2>1, <2>2, <3>1, <3>2 DEF Agreed, Recorded
    <3> QED BY <1>2, <1>3, <3>3 DEF Record, RecordAgrees
  <2>4. CASE Step
    <3>1. PICK group \in Seq(Word), said \in Seq(Word) :
            /\ ctx' = ctx \o group /\ kv' = (IF chat THEN kv \o said ELSE kv)
            /\ n_gen' = n_gen + Len(said) /\ Begins(said, group)
            /\ said = group \/ (pc' = "parse" /\ MaxDraft # 0)
      BY <1>0, <2>4, StepFacts
    <3>2. kv' = kv \o said /\ ctx' = kv \o group
      BY <2>1, <3>1
    <3>3. /\ kv' \in Seq(Word) /\ Len(kv') = Len(kv) + Len(said) /\ Begins(kv, kv')
      BY <1>1, <3>2, ConcatFacts
    <3>4. /\ ctx' \in Seq(Word) /\ Len(ctx') = Len(kv) + Len(group) /\ Begins(kv, ctx')
          /\ \A i \in 1..Len(group) : ctx'[Len(kv) + i] = group[i]
      BY <1>1, <3>2, ConcatFacts
    <3>5. Begins(kv', ctx')
      <4>1. Len(said) <= Len(group) /\ \A i \in 1..Len(said) : said[i] = group[i]
        BY <3>1 DEF Begins
      <4>2. Len(said) \in Nat /\ Len(group) \in Nat
        OBVIOUS
      <4>3. Len(kv) + Len(said) <= Len(ctx') /\ \A i \in 1..Len(said) : said[i] = ctx'[Len(kv) + i]
        BY <1>1, <3>4, <4>1, <4>2
      <4>4. Begins(kv \o said, ctx')
        BY <1>1, <3>4, <4>3, Continues
      <4> QED BY <3>2, <4>4
    <3>6. Len(kv') = EmittedEnd'
      <4>1. EmittedEnd' = Len(tokens) + n_gen' /\ EmittedEnd = Len(tokens) + n_gen /\ Len(said) \in Nat
        BY <1>2 DEF EmittedEnd
      <4> QED BY <1>0, <2>1, <3>1, <3>3, <4>1
    <3>7. Describe(checkpoints', kv') /\ Begins(kv', kv')
      BY <1>1, <1>2, <2>1, <3>3, DescribeLonger, BeginsFacts
    <3>8. Recorded(Memory', kv')
      BY <2>2, <3>5, <3>7 DEF Recorded
    <3>9. said = group => ctx' = kv' /\ Agreed(Memory')
      BY <2>2, <3>2, <3>7 DEF Agreed
    <3>10. pc' \in {"sample", "parse"}
      BY <2>4 DEF Step
    <3>11. pc' = "sample" => Agreed(Memory')
      BY <3>1, <3>9
    <3>12. MaxDraft = 0 => ctx' = kv'
      BY <3>1, <3>9
    <3> QED BY <1>3, <3>6, <3>8, <3>10, <3>11, <3>12 DEF Record, RecordAgrees
  <2>5. CASE StepCancelled
    <3>1. PICK d \in Drafts : ctx' \in Stopped(ctx, <<tok>> \o d)
      BY <2>5 DEF StepCancelled
    <3>2. d \in Seq(Word) /\ tok \in Word
      BY <1>0, <2>5, DraftsFacts DEF StepCancelled, Typed, Word
    <3>3. PICK batch : batch = <<tok>> \o d
      OBVIOUS
    <3>4. batch \in Seq(Word)
      BY <3>2, <3>3, OneThen
    <3>5. Begins(ctx, ctx')
      BY <1>1, <3>1, <3>3, <3>4, StoppedFacts
    <3>6. UNCHANGED <<kv, checkpoints, n_gen>> /\ cancelled' = TRUE /\ pc' = "parse"
      BY <2>5 DEF StepCancelled
    <3>7. EmittedEnd' = EmittedEnd
      BY <1>2, <3>6 DEF EmittedEnd
    <3>8. Recorded(Memory', kv') /\ Len(kv') = EmittedEnd'
      BY <2>1, <2>2, <3>5, <3>6, <3>7 DEF Recorded
    <3> QED BY <1>3, <3>6, <3>8 DEF Record, RecordAgrees
  <2> QED BY <2>3, <2>4, <2>5
<1> QED BY <1>4, <1>5

\* The end of a turn cuts the context to the record.
LEMMA RecordEnd == Shape /\ Record /\ (Trim \/ Finish) => Record'
<1> SUFFICES ASSUME Shape, Record, Trim \/ Finish PROVE Record'
  OBVIOUS
<1>0. /\ Typed /\ Undoes /\ RecordAgrees /\ Fresh /\ Memory \in Memories /\ tokens \in Seq(Tokens)
      /\ n_gen \in Nat /\ Len(tokens) \in Nat
  BY WordFacts DEF Shape, Record, Typed
<1>1. Memory.kv = kv /\ Memory.ctx = ctx /\ Memory.cps = checkpoints
  BY DEF Memory
<1>2. CASE Trim
  <2>1. pc = "parse" /\ pc' = "finish" /\ foreign' = foreign /\ n_gen' = n_gen /\ cancelled' = cancelled
    BY <1>2 DEF Trim, turn
  <2>2. Fresh'
    BY <2>1 DEF Fresh
  <2>3. PICK m \in Trimmed(Memory) : Remember(m)
    BY <1>2 DEF Trim
  <2>4. EmittedEnd \in Nat
    BY <1>0 DEF EmittedEnd
  <2>5. /\ m \in Memories /\ (MaxDraft = 0 => m = Memory)
        /\ chat /\ MaxDraft # 0 /\ Recorded(Memory, kv) => Agreed(m)
    BY <1>0, <1>1, <2>3, <2>4, TrimmedAgrees
  <2>6. Memory' = m /\ ctx' = m.ctx /\ kv' = m.kv /\ checkpoints' = m.cps
    BY <2>3, <2>5, Remembered
  <2>7. CASE foreign
    BY <2>1, <2>2, <2>7 DEF Record, RecordAgrees
  <2>8. CASE ~foreign
    <3>1. Recorded(Memory, kv) /\ chat /\ (MaxDraft = 0 /\ ~cancelled => ctx = kv)
      BY <1>0, <2>1, <2>8 DEF RecordAgrees, Undoes
    <3>2. Recorded(Memory', kv') /\ (MaxDraft # 0 \/ ~cancelled => ctx' = kv')
      <4>1. CASE MaxDraft = 0
        BY <1>1, <2>5, <2>6, <3>1, <4>1
      <4>2. CASE MaxDraft # 0
        <5>1. Agreed(m)
          BY <2>5, <3>1, <4>2
        <5>2. Recorded(m, m.kv)
          BY <2>5, <5>1, AgreedRecorded
        <5> QED BY <2>6, <5>1, <5>2 DEF Agreed
      <4> QED BY <4>1, <4>2
    <3> QED BY <2>1, <2>2, <3>2 DEF Record, RecordAgrees
  <2> QED BY <2>7, <2>8
<1>3. CASE Finish
  <2>1. /\ pc = "finish" /\ pc' = "idle" /\ foreign' = foreign /\ n_gen' = 0 /\ ~cancelled
        /\ UNCHANGED memory
    BY <1>3 DEF Finish, TurnOver
  <2>2. Memory' = Memory
    BY <2>1 DEF memory, Memory
  <2>3. ~foreign => Agreed(Memory)
    BY <1>0, <1>1, <2>1 DEF RecordAgrees, Recorded, Agreed
  <2> QED BY <2>1, <2>2, <2>3, RecordRests DEF Record, Fresh
<1> QED BY <1>2, <1>3

\* The calls that are no turn leave the memories empty, or say that they are foreign.
LEMMA RecordCalls ==
  Shape /\ Record /\ (Perplexity \/ Decide \/ DecidePrefill \/ DecideFails \/ Score \/ Cancel \/ Reopen) => Record'
<1> SUFFICES ASSUME Shape, Record,
                    Perplexity \/ Decide \/ DecidePrefill \/ DecideFails \/ Score \/ Cancel \/ Reopen
             PROVE  Record'
  OBVIOUS
<1>0. Decided /\ RecordAgrees /\ Fresh
  BY DEF Shape, Record
<1>1. CASE Perplexity
  <2>1. pc = "idle" /\ pc' = "idle" /\ foreign' = TRUE /\ n_gen' = n_gen
    BY <1>1 DEF Perplexity, turn
  <2> QED BY <1>0, <2>1, RecordRests DEF Record, Fresh
<1>2. CASE Decide \/ DecidePrefill
  <2>1. pc \in {"idle", "split"} /\ pc' \in {"split", "score"} /\ n_gen' = n_gen
    BY <1>2 DEF Decide, DecidePrefill, turn
  <2> QED BY <1>0, <2>1, RecordRests DEF Record, Fresh
<1>3. CASE DecideFails \/ Score
  <2>1. /\ pc \in {"split", "score"} /\ pc' \in {"idle", "dead"} /\ ctx' = <<>> /\ n_gen' = 0
        /\ kv' = kv /\ checkpoints' = checkpoints
    BY <1>3 DEF DecideFails, Score, TurnOver
  <2>2. Agreed(Memory')
    <3>1. Memory'.ctx = ctx' /\ Memory'.kv = kv' /\ Memory'.cps = checkpoints'
      BY DEF Memory
    <3>2. kv = <<>> /\ checkpoints = <<>>
      BY <1>0, <2>1 DEF Decided
    <3> QED BY <2>1, <3>1, <3>2, ToSetFacts DEF Agreed, Describe
  <2> QED BY <2>1, <2>2, RecordRests DEF Record, Fresh
<1>4. CASE Cancel
  <2>1. UNCHANGED <<memory, pc, turn, foreign>>
    BY <1>4 DEF Cancel
  <2>2. Memory' = Memory /\ UNCHANGED <<ctx, kv, checkpoints, pc, foreign, tokens, n_common, fed, n_gen, cancelled>>
    BY <2>1 DEF memory, turn, Memory
  <2>3. EmittedEnd' = EmittedEnd
    BY <2>2 DEF EmittedEnd
  <2> QED BY <1>0, <2>2, <2>3 DEF Record, RecordAgrees, Fresh
<1>5. CASE Reopen
  <2>1. pc = "dead" /\ pc' = "idle" /\ Remember(Emptied) /\ n_gen' = n_gen
    BY <1>5 DEF Reopen, turn
  <2>2. Agreed(Memory')
    BY <2>1, EmptiedFacts, Remembered
  <2> QED BY <1>0, <2>1, <2>2, RecordRests DEF Record, Fresh
<1> QED BY <1>1, <1>2, <1>3, <1>4, <1>5

\* At the start both are empty.
LEMMA RecordInit == Init => Record
<1> SUFFICES ASSUME Init PROVE Record
  OBVIOUS
<1>1. pc = "idle" /\ n_gen = 0 /\ ctx = <<>> /\ kv = <<>> /\ checkpoints = <<>>
  BY DEF Init
<1>2. Agreed(Memory)
  BY <1>1, AgreedParts, ToSetFacts DEF Describe
<1> QED BY <1>1, <1>2 DEF Record, RecordAgrees, Fresh

\* The record is kept in every step.
LEMMA RecordNext == Shape /\ Record /\ [Next]_vars => Record'
<1> SUFFICES ASSUME Shape, Record, [Next]_vars PROVE Record'
  OBVIOUS
<1>1. CASE UNCHANGED vars
  <2>1. Memory' = Memory /\ UNCHANGED <<ctx, kv, checkpoints, pc, foreign, tokens, n_common, fed, n_gen, cancelled>>
    BY <1>1 DEF vars, memory, turn, Memory
  <2>2. EmittedEnd' = EmittedEnd
    BY <2>1 DEF EmittedEnd
  <2> QED BY <2>1, <2>2 DEF Record, RecordAgrees, Fresh
<1>2. CASE Next
  BY <1>2, RecordBegin, RecordUndone, RecordReuse, RecordPiece, RecordEndPrefill, RecordDecode, RecordEnd,
     RecordCalls DEF Next, Undoing
<1> QED BY <1>1, <1>2

\* The record, always.
LEMMA RecordHolds == Spec => [](Shape /\ Record)
BY ShapeInit, ShapeNext, RecordInit, RecordNext, PTL DEF Spec

\* KvAgrees: between two turns the record is what the context holds, to the token.
THEOREM RecordIsContext == Spec => []KvAgrees
<1>1. Shape /\ Record => KvAgrees
  BY AgreedParts DEF Record, RecordAgrees, KvAgrees
<1> QED BY <1>1, RecordHolds, PTL

\* PromptInPlace: while a prompt is fed, the context holds its beginning and nothing else.
THEOREM PromptFedInPlace == Spec => []PromptInPlace
<1>1. Shape /\ Record => PromptInPlace
  <2> SUFFICES ASSUME Shape, Record, pc = "prefill", ~foreign PROVE ctx = First(tokens, fed)
    BY DEF PromptInPlace
  <2>1. Begins(ctx, tokens) /\ Len(ctx) = fed /\ fed <= Len(tokens)
    BY DEF Record, RecordAgrees
  <2>2. ctx \in Seq(Word) /\ tokens \in Seq(Word) /\ fed \in Nat /\ Len(tokens) \in Nat
    BY MemoryParts, WordFacts DEF Shape, Typed
  <2>3. fed \in 0..Len(tokens)
    BY <2>1, <2>2
  <2>4. First(tokens, fed) \in Seq(Word) /\ Len(First(tokens, fed)) = fed /\ Begins(First(tokens, fed), tokens)
    BY <2>2, <2>3, FirstFacts
  <2>5. PICK f : f = First(tokens, fed)
    OBVIOUS
  <2>6. f \in Seq(Word) /\ Len(f) = fed /\ Begins(f, tokens)
    BY <2>4, <2>5
  <2>7. Len(ctx) <= Len(f) /\ Len(ctx) >= Len(f)
    BY <2>1, <2>2, <2>6
  <2>8. Begins(ctx, f)
    BY <2>1, <2>2, <2>6, <2>7, BeginsFacts
  <2>9. ctx = f
    BY <2>2, <2>6, <2>7, <2>8, BeginsFacts
  <2> QED BY <2>5, <2>9
<1> QED BY <1>1, RecordHolds, PTL

\* CheckpointsDescribe: a checkpoint restores a beginning of what the record says.
THEOREM CheckpointsAreTrue == Spec => []CheckpointsDescribe
<1>1. Shape /\ Record => CheckpointsDescribe
  <2> SUFFICES ASSUME Shape, Record, pc = "idle", ~foreign, NEW i \in DOMAIN checkpoints
      PROVE  checkpoints[i].n = Len(checkpoints[i].tgt) /\ IsPrefix(checkpoints[i].tgt, kv)
    BY DEF CheckpointsDescribe
  <2>1. Describe(checkpoints, kv)
    BY AgreedParts DEF Record, RecordAgrees
  <2>2. kv \in Seq(Word) /\ checkpoints \in Seq(Checkpoint)
    BY MemoryParts DEF Shape, Typed
  <2>3. checkpoints[i] \in ToSet(checkpoints)
    BY <2>2, ToSetFacts
  <2>4. /\ checkpoints[i].tgt \in Seq(Word)
        /\ checkpoints[i].n = Len(checkpoints[i].tgt) /\ Begins(checkpoints[i].tgt, kv)
    BY <2>1, <2>2, <2>3, CheckpointFields DEF Describe
  <2>5. PICK t : t = checkpoints[i].tgt
    OBVIOUS
  <2>6. IsPrefix(t, kv)
    BY <2>2, <2>4, <2>5, BeginsFacts
  <2> QED BY <2>4, <2>5, <2>6
<1> QED BY <1>1, RecordHolds, PTL

----------------------------------------------------------------------------
(***************************************************************************)
(* The draft's cells against the target's words.                           *)
(***************************************************************************)
\* Nothing covers nothing, and what covers a text covers its beginnings.
LEMMA CoversFacts ==
  ASSUME NEW d \in Seq(Cell), NEW c \in Seq(Word), NEW b \in Seq(Word)
  PROVE  /\ Covers(d, c) /\ Begins(b, c) => Covers(d, b)
         /\ Mirrors(<<>>, <<>>)
         /\ "draft" \in Refuses => Mirrors(<<>>, c)
<1>0. Len(c) \in Nat /\ Len(b) \in Nat /\ Len(d) \in Nat /\ Len(<<>>) = 0
  OBVIOUS
<1>1. ASSUME Covers(d, c), Begins(b, c) PROVE Covers(d, b)
  <2>1. Len(b) <= Len(c) /\ \A i \in 1..Len(b) : b[i] = c[i]
    BY <1>1 DEF Begins
  <2>2. CASE d = <<>> /\ (c # <<>> => "draft" \in Refuses)
    <3>1. b # <<>> => c # <<>>
      BY <1>0, <2>1
    <3> QED BY <2>2, <3>1 DEF Covers
  <2>3. CASE /\ Len(c) <= Len(d)
             /\ \A i \in 1..Len(c) : d[i] = c[i] \/ (d[i] = Gap /\ "draft" \in Refuses)
    <3>1. Len(b) <= Len(d) /\ \A i \in 1..Len(b) : i \in 1..Len(c)
      BY <1>0, <2>1, <2>3
    <3>2. \A i \in 1..Len(b) : d[i] = b[i] \/ (d[i] = Gap /\ "draft" \in Refuses)
      BY <2>1, <2>3, <3>1
    <3> QED BY <3>1, <3>2 DEF Covers
  <2> QED BY <1>1, <2>2, <2>3 DEF Covers
<1>2. Mirrors(<<>>, <<>>) /\ ("draft" \in Refuses => Mirrors(<<>>, c))
  BY <1>0 DEF Mirrors, Covers
<1> QED BY <1>1, <1>2

\* A cut to where a text ends, or beyond it where nothing else is held, mirrors the text.
LEMMA CutMirrors ==
  ASSUME NEW d \in Seq(Cell), NEW c \in Seq(Word), NEW n \in Nat, Covers(d, c),
         n = Len(c) \/ (Len(c) <= n /\ Len(d) <= Len(c))
  PROVE  Mirrors(CutTo(d, n), c)
<1>0. Len(c) \in Nat /\ Len(d) \in Nat /\ Len(<<>>) = 0 /\ Gap \notin Word /\ \A i \in 1..Len(c) : c[i] \in Word
  BY WordFacts
<1>1. PICK u : u = CutTo(d, n)
  OBVIOUS
<1>2. /\ u \in Seq(Cell) /\ Begins(u, d) /\ Len(u) \in Nat
      /\ \/ Len(u) = Least(n, Len(d))
         \/ u = <<>> /\ \A i \in 1..Least(n, Len(d)) : d[i] = Gap
  <2>1. /\ CutTo(d, n) \in Seq(Cell) /\ Begins(CutTo(d, n), d)
        /\ \/ Len(CutTo(d, n)) = Least(n, Len(d))
           \/ CutTo(d, n) = <<>> /\ \A i \in 1..Least(n, Len(d)) : d[i] = Gap
    BY CutFacts
  <2>2. u \in Seq(Cell)
    BY <1>1, <2>1
  <2> QED BY <1>1, <2>1, <2>2
<1>3. CASE d = <<>> /\ (c # <<>> => "draft" \in Refuses)
  <2>1. Len(u) <= 0
    BY <1>0, <1>2, <1>3 DEF Begins
  <2>2. u = <<>>
    BY <1>2, <2>1
  <2>3. Mirrors(u, c)
    BY <1>0, <1>3, <2>2 DEF Mirrors, Covers
  <2> QED BY <1>1, <2>3
<1>4. CASE /\ Len(c) <= Len(d)
           /\ \A i \in 1..Len(c) : d[i] = c[i] \/ (d[i] = Gap /\ "draft" \in Refuses)
  <2>1. Least(n, Len(d)) = Len(c)
    BY <1>0, <1>4 DEF Least
  <2>2. CASE Len(u) = Len(c)
    <3>1. \A i \in 1..Len(c) : u[i] = d[i]
      BY <1>2, <2>2 DEF Begins
    <3>2. \A i \in 1..Len(c) : u[i] = c[i] \/ (u[i] = Gap /\ "draft" \in Refuses)
      BY <1>4, <3>1
    <3>3. Len(c) <= Len(u) /\ Len(u) <= Len(c)
      BY <1>0, <2>2
    <3>4. Mirrors(u, c)
      BY <3>2, <3>3 DEF Mirrors, Covers
    <3> QED BY <1>1, <3>4
  <2>3. CASE u = <<>> /\ \A i \in 1..Len(c) : d[i] = Gap
    <3>1. c # <<>> => "draft" \in Refuses
      <4> SUFFICES ASSUME c # <<>> PROVE "draft" \in Refuses
        OBVIOUS
      <4>1. 1 \in 1..Len(c)
        BY <1>0
      <4> QED BY <1>0, <1>4, <2>3, <4>1
    <3>2. Mirrors(u, c)
      BY <1>0, <2>3, <3>1 DEF Mirrors, Covers
    <3> QED BY <1>1, <3>2
  <2> QED BY <1>2, <2>1, <2>2, <2>3
<1> QED BY <1>3, <1>4 DEF Covers

\* What is decoded behind cells.
LEMMA BehindCells ==
  ASSUME NEW base \in Seq(Cell), NEW batch \in Seq(Cell), NEW u, u = base \o batch
  PROVE  /\ Len(u) = Len(base) + Len(batch)
         /\ \A i \in 1..Len(base) : u[i] = base[i]
         /\ \A i \in 1..Len(batch) : u[Len(base) + i] = batch[i]
BY ConcatFacts

\* What is decoded through both is in both.
LEMMA DecodedMirrors ==
  ASSUME NEW d \in Seq(Cell), NEW c \in Seq(Word), Mirrors(d, c), NEW batch \in Seq(Word),
         NEW pos, pos = Len(c), Follows(d, pos)
  PROVE  Mirrors(DecodedAt(d, pos, batch), c \o batch)
<1>0. pos \in Nat /\ Len(d) \in Nat /\ Len(batch) \in Nat /\ Len(c) \in Nat
  OBVIOUS
<1>1. PICK gaps : gaps = [i \in 1..pos |-> Gap]
  OBVIOUS
<1>2. gaps \in Seq(Cell) /\ Len(gaps) = pos /\ \A i \in 1..pos : gaps[i] = Gap
  BY <1>0, <1>1 DEF Cell
<1>3. PICK base : base = IF d = <<>> THEN gaps ELSE d
  OBVIOUS
<1>4. DecodedAt(d, pos, batch) = base \o batch
  BY <1>1, <1>3 DEF DecodedAt
<1>5. base \in Seq(Cell) /\ Len(base) = pos
  BY <1>2, <1>3 DEF Follows
<1>6. \A i \in 1..pos : base[i] = c[i] \/ (base[i] = Gap /\ "draft" \in Refuses)
  <2>1. CASE d = <<>>
    <3>1. pos > 0 => "draft" \in Refuses
      <4>1. pos > 0 => c # <<>> /\ ~ Len(c) <= Len(d)
        BY <2>1
      <4> QED BY <4>1 DEF Mirrors, Covers
    <3>2. \A i \in 1..pos : base[i] = Gap /\ pos > 0
      BY <1>0, <1>2, <1>3, <2>1
    <3> QED BY <3>1, <3>2
  <2>2. CASE d # <<>>
    BY <1>3, <2>2 DEF Mirrors, Covers
  <2> QED BY <2>1, <2>2
<1>7. PICK u : u = base \o batch
  OBVIOUS
<1>8. batch \in Seq(Cell)
  BY WordFacts
<1>9. /\ Len(u) = pos + Len(batch)
      /\ \A i \in 1..pos : u[i] = base[i]
      /\ \A i \in 1..Len(batch) : u[pos + i] = batch[i]
  <2>1. /\ Len(u) = Len(base) + Len(batch)
        /\ \A i \in 1..Len(base) : u[i] = base[i]
        /\ \A i \in 1..Len(batch) : u[Len(base) + i] = batch[i]
    <3>1. base \in Seq(Cell)
      BY <1>5
    <3> QED BY <1>7, <1>8, <3>1, BehindCells
  <2> QED BY <1>5, <2>1
<1>10. PICK w : w = c \o batch
  OBVIOUS
<1>11. /\ Len(w) = pos + Len(batch)
       /\ \A i \in 1..pos : w[i] = c[i]
       /\ \A i \in 1..Len(batch) : w[pos + i] = batch[i]
  BY <1>10, ConcatFacts
<1>12. ASSUME NEW i \in 1..Len(w) PROVE u[i] = w[i] \/ (u[i] = Gap /\ "draft" \in Refuses)
  <2>1. CASE i \in 1..pos
    BY <1>6, <1>9, <1>11, <2>1
  <2>2. CASE i \notin 1..pos
    <3>1. i - pos \in 1..Len(batch) /\ pos + (i - pos) = i
      BY <1>0, <1>11, <2>2
    <3> QED BY <1>9, <1>11, <3>1
  <2> QED BY <2>1, <2>2
<1>13. Len(w) <= Len(u) /\ Len(u) <= Len(w)
  BY <1>0, <1>9, <1>11
<1>14. Mirrors(u, w)
  BY <1>12, <1>13 DEF Mirrors, Covers
<1> QED BY <1>4, <1>7, <1>10, <1>14

\* Every checkpoint's two states agree.
Paired(cps) == \A c \in ToSet(cps) : Mirrors(c.dft, c.tgt)

\* However the target's memory is cut back, the draft's covers what is left of it.
LEMMA KeepCovers ==
  ASSUME Mtp, NEW m \in Memories, NEW t \in Seq(Word), Recorded(m, t), Covers(m.dft, m.kv), Paired(m.cps),
         NEW n0 \in Nat, NEW k \in Keep(m, n0), NEW n, n = Least(n0, Len(m.kv))
  PROVE  /\ Covers(k[1].dft, k[1].ctx) /\ Paired(k[1].cps)
         /\ \/ k[2] = n
            \/ Mirrors(k[1].dft, k[1].ctx)
            \/ "target" \in Refuses /\ (LoadsState => \A c \in ToSet(m.cps) : c.n > n)
<1>0. /\ m.ctx \in Seq(Word) /\ m.dft \in Seq(Cell) /\ m.kv \in Seq(Word) /\ m.cps \in Seq(Checkpoint)
      /\ Len(m.kv) \in Nat
  BY MemoryFields
<1>1. n \in Nat
  BY <1>0 DEF Least
<1>2. k[1] \in Memories /\ Agreed(k[1]) /\ Begins(k[1].kv, m.kv) /\ k[1].ctx \in Seq(Word) /\ k[1].ctx = k[1].kv
  <2>1. k[1] \in Memories /\ Agreed(k[1]) /\ Begins(k[1].kv, m.kv)
    BY KeepAgrees
  <2> QED BY <2>1, MemoryFields DEF Agreed
<1>3. Covers(m.dft, k[1].ctx)
  BY <1>0, <1>2, CoversFacts
<1>4. ASSUME NEW a \in Nat, k[1].cps = DropAfter(m.cps, a) PROVE Paired(k[1].cps)
  <2>1. ToSet(DropAfter(m.cps, a)) = {c \in ToSet(m.cps) : c.n <= a}
    BY <1>0, DropAfterFacts
  <2> QED BY <1>4, <2>1 DEF Paired
<1>5. CASE k = <<[m EXCEPT !.ctx = CutTo(@, n), !.kv = CutTo(@, n), !.cps = DropAfter(@, n)], n>>
  <2>1. k[1].dft = m.dft /\ k[2] = n /\ k[1].cps = DropAfter(m.cps, n)
    BY <1>5 DEF Memories
  <2> QED BY <1>1, <1>3, <1>4, <2>1
<1>6. CASE "target" \in Refuses /\ k \in Restores(m, n)
  <2>1. ASSUME NEW d \in Seq(Cell), k = <<Lost(m, d), 0>>
        PROVE  Covers(k[1].dft, k[1].ctx) /\ Paired(k[1].cps)
    <3>1. k[1].dft = d /\ k[1].ctx = <<>> /\ k[1].cps = <<>>
      BY <2>1 DEF Memories, Lost
    <3>2. Paired(k[1].cps)
      BY <3>1, ToSetFacts DEF Paired
    <3>3. Covers(d, <<>>)
      <4>1. Len(<<>>) = 0 /\ 0 <= Len(d)
        OBVIOUS
      <4> QED BY <4>1 DEF Covers
    <3> QED BY <3>1, <3>2, <3>3
  <2>2. ASSUME NEW c \in ToSet(m.cps), k = <<BackAt(m, c), c.n>>
        PROVE  Mirrors(k[1].dft, k[1].ctx) /\ Paired(k[1].cps)
    <3>1. k[1].dft = c.dft /\ k[1].ctx = c.tgt /\ k[1].cps = DropAfter(m.cps, c.n)
      BY <2>2 DEF Memories, BackAt
    <3>2. c.n \in Nat
      BY <1>0, CheckpointFields
    <3>3. Mirrors(c.dft, c.tgt)
      BY DEF Paired
    <3> QED BY <1>4, <3>1, <3>2, <3>3
  <2>3. Mirrors(k[1].dft, k[1].ctx) => Covers(k[1].dft, k[1].ctx)
    BY DEF Mirrors
  <2> QED BY <1>1, <1>6, <2>1, <2>2, <2>3, RestoresFacts
<1> QED BY <1>5, <1>6, KeepFacts

\* A turn rolled back leaves the draft where the target is.
LEMMA RolledBackMirrors ==
  ASSUME Mtp, chat, NEW m \in Memories, NEW t \in Seq(Word), Recorded(m, t), Covers(m.dft, m.kv), Paired(m.cps),
         n_common \in Nat, NEW r \in RolledBack(m)
  PROVE  Mirrors(r.dft, r.ctx) /\ Paired(r.cps)
<1>1. CASE r = Emptied
  <2>1. <<>> \in Seq(Word) /\ <<>> \in Seq(Cell)
    OBVIOUS
  <2>2. r.dft = <<>> /\ r.ctx = <<>> /\ r.cps = <<>>
    BY <1>1 DEF Emptied
  <2>3. Mirrors(<<>>, <<>>)
    BY <2>1, CoversFacts
  <2> QED BY <2>2, <2>3, ToSetFacts DEF Paired
<1>2. ASSUME NEW k \in Keep(m, n_common), r = [k[1] EXCEPT !.dft = CutTo(@, k[2])]
      PROVE  Mirrors(r.dft, r.ctx) /\ Paired(r.cps)
  <2>1. k[1] \in Memories /\ k[2] \in Nat /\ k[2] = Len(k[1].kv) /\ Agreed(k[1])
    BY KeepAgrees
  <2>2. Covers(k[1].dft, k[1].ctx) /\ Paired(k[1].cps)
    BY KeepCovers
  <2>3. r.dft = CutTo(k[1].dft, k[2]) /\ r.ctx = k[1].ctx /\ r.cps = k[1].cps
    BY <1>2, <2>1 DEF Memories
  <2>4. k[1].dft \in Seq(Cell) /\ k[1].ctx \in Seq(Word) /\ k[2] = Len(k[1].ctx)
    BY <2>1, MemoryFields DEF Agreed
  <2>5. Mirrors(CutTo(k[1].dft, k[2]), k[1].ctx)
    BY <2>1, <2>2, <2>4, CutMirrors
  <2> QED BY <2>2, <2>3, <2>5
<1> QED BY <1>1, <1>2, RolledBackFacts

----------------------------------------------------------------------------
(***************************************************************************)
(* The draft stands with the target: up to the prompt.                     *)
(***************************************************************************)
\* A foreign context is nobody's to mirror.
LEMMA DraftForeign == foreign' \/ pc' \in {"dead", "split", "score"} => DraftStands'
BY DEF DraftStands, InTurn

\* Where no turn is decoded, the draft stands where the target stands.
LEMMA DraftRests ==
  ASSUME pc' \in {"idle", "render", "prefill", "finish", "dead", "split", "score"},
         pc' \in {"idle", "render", "prefill", "finish"} /\ Mtp /\ ~foreign' =>
            Mirrors(dft', ctx') /\ Paired(checkpoints')
  PROVE  DraftStands'
BY DEF DraftStands, Paired, InTurn

\* In every step of a turn the draft covers the record.
LEMMA DraftCoversRecord ==
  ASSUME Shape, Record, DraftStands, Mtp, ~foreign, pc \in InTurn \cup {"idle"}
  PROVE  Covers(dft, kv) /\ Paired(checkpoints)
<1>0. /\ ctx \in Seq(Word) /\ dft \in Seq(Cell) /\ kv \in Seq(Word) /\ tokens \in Seq(Word)
      /\ MaxDraft # 0 /\ RecordAgrees
  BY MemoryParts, WordFacts, ConversationAssumption DEF Shape, Typed, Record
<1>1. Paired(checkpoints)
  BY DEF DraftStands, Paired
<1>2. CASE pc = "parse"
  BY <1>1, <1>2 DEF DraftStands
<1>3. CASE pc = "prefill"
  <2>1. Mirrors(dft, ctx)
    BY <1>3 DEF DraftStands
  <2>2. Begins(kv, tokens) /\ Begins(ctx, tokens) /\ Len(kv) <= Len(ctx)
    BY <1>0, <1>3 DEF RecordAgrees
  <2>3. Begins(kv, ctx)
    BY <1>0, <2>2, BeginsFacts
  <2>4. Covers(dft, kv)
    BY <1>0, <2>1, <2>3, CoversFacts DEF Mirrors
  <2> QED BY <1>1, <2>4
<1>4. CASE pc \in {"idle", "render", "sample", "decode", "finish"}
  <2>1. Mirrors(dft, ctx)
    BY <1>4 DEF DraftStands
  <2>2. ctx = kv
    BY <1>0, <1>4, AgreedParts DEF RecordAgrees
  <2> QED BY <1>1, <2>1, <2>2 DEF Mirrors
<1> QED BY <1>2, <1>3, <1>4 DEF InTurn

\* A turn begins on what mirrors.
LEMMA DraftBegin == Shape /\ Record /\ DraftStands /\ (BeginGenerate \/ Refuse \/ FeedRaw) => DraftStands'
<1> SUFFICES ASSUME Shape, Record, DraftStands, BeginGenerate \/ Refuse \/ FeedRaw PROVE DraftStands'
  OBVIOUS
<1>1. pc \in {"idle", "render"} /\ pc' \in {"idle", "render"}
  BY DEF BeginGenerate, Refuse, FeedRaw
<1>2. (Remember(Emptied) /\ foreign' = FALSE) \/ UNCHANGED <<memory, foreign>> \/ foreign' = TRUE
  BY DEF BeginGenerate, Refuse, FeedRaw
<1>3. CASE Remember(Emptied)
  <2>1. <<>> \in Seq(Word) /\ <<>> \in Seq(Cell)
    OBVIOUS
  <2>2. Mirrors(<<>>, <<>>)
    BY <2>1, CoversFacts
  <2>3. dft' = <<>> /\ ctx' = <<>> /\ checkpoints' = <<>>
    BY <1>3 DEF Remember, Emptied
  <2>4. Mirrors(dft', ctx') /\ Paired(checkpoints')
    BY <2>2, <2>3, ToSetFacts DEF Paired
  <2> QED BY <1>1, <2>4, DraftRests
<1>4. CASE UNCHANGED <<memory, foreign>>
  <2>1. UNCHANGED <<ctx, dft, checkpoints, foreign>>
    BY <1>4 DEF memory
  <2>2. Mtp /\ ~foreign => Mirrors(dft, ctx) /\ Paired(checkpoints)
    BY <1>1 DEF DraftStands, Paired, InTurn
  <2>3. Mtp /\ ~foreign' => Mirrors(dft', ctx') /\ Paired(checkpoints')
    BY <2>1, <2>2
  <2> QED BY <1>1, <2>3, DraftRests
<1> QED BY <1>2, <1>3, <1>4, DraftForeign

\* A turn undone leaves the draft where the target is.
LEMMA DraftUndone ==
  Shape /\ Record /\ DraftStands /\ (Undoing \/ PrefillFails \/ StepFails) => DraftStands'
<1> SUFFICES ASSUME Shape, Record, DraftStands, Undoing \/ PrefillFails \/ StepFails PROVE DraftStands'
  OBVIOUS
<1>1. CASE PrefillFails \/ StepFails
  BY <1>1, DraftForeign DEF PrefillFails, StepFails, Fail
<1>2. CASE Undoing
  <2>0. Typed /\ Undoes /\ RecordAgrees /\ n_common \in Nat /\ pc \in InTurn
    BY <1>2 DEF Shape, Record, Typed, InTurn, Undoing, PrefillCancelled, SampleFails, DraftRefused,
                ParseFails, FinishCancelled
  <2>1. PICK m : /\ UndoneFrom(m)
                 /\ RecordAgrees /\ ~foreign => \E t \in Seq(Word) : Recorded(m, t)
    BY <1>2, <2>0, UndoingFacts
  <2>2. m \in Memories /\ pc' \in {"idle", "dead"} /\ foreign' = foreign
        /\ m.kv = kv /\ m.cps = checkpoints /\ m.dft = dft
    BY <2>1 DEF UndoneFrom, Rollback
  <2>3. ASSUME Mtp, ~foreign PROVE Mirrors(dft', ctx') /\ Paired(checkpoints')
    <3>1. chat
      BY <2>0, <2>3 DEF Undoes
    <3>2. PICK t \in Seq(Word) : Recorded(m, t)
      BY <2>0, <2>1, <2>3
    <3>3. PICK r \in RolledBack(m) : Remember(r)
      BY <2>1, UndoneFromFacts
    <3>4. Covers(m.dft, m.kv) /\ Paired(m.cps)
      BY <2>0, <2>2, <2>3, DraftCoversRecord
    <3>5. Mirrors(r.dft, r.ctx) /\ Paired(r.cps)
      BY <2>0, <2>2, <2>3, <3>1, <3>2, <3>4, RolledBackMirrors
    <3> QED BY <3>3, <3>5 DEF Remember
  <2> QED BY <2>2, <2>3, DraftRests
<1> QED BY <1>1, <1>2

\* What is kept for a prompt, is kept of both.
LEMMA DraftReuse == Shape /\ Record /\ DraftStands /\ ReuseKvPrefix => DraftStands'
<1> SUFFICES ASSUME Shape, Record, DraftStands, ReuseKvPrefix PROVE DraftStands'
  OBVIOUS
<1>0. Typed /\ Undoes /\ RecordAgrees /\ Memory \in Memories
  BY DEF Shape, Record, Typed
<1>1. /\ ctx \in Seq(Word) /\ dft \in Seq(Cell) /\ kv \in Seq(Word) /\ checkpoints \in Seq(Checkpoint)
      /\ Memory.kv = kv /\ Memory.cps = checkpoints /\ Memory.ctx = ctx /\ Memory.dft = dft
  BY <1>0, MemoryParts
<1>2. pc = "render" /\ pc' = "prefill" /\ foreign' = foreign
  BY DEF ReuseKvPrefix
<1>3. SUFFICES ASSUME Mtp, ~foreign PROVE Mirrors(dft', ctx') /\ Paired(checkpoints')
  BY <1>2, <1>3, DraftRests
<1>4. /\ Agreed(Memory) /\ ctx = kv /\ Covers(dft, kv) /\ Mirrors(dft, ctx) /\ Paired(checkpoints)
      /\ Recorded(Memory, kv)
  <2>1. Agreed(Memory) /\ Mirrors(dft, ctx)
    BY <1>0, <1>2, <1>3 DEF RecordAgrees, DraftStands
  <2>2. Recorded(Memory, kv)
    BY <1>0, <1>1, <2>1, AgreedRecorded
  <2>3. Covers(dft, kv) /\ Paired(checkpoints)
    BY <1>2, <1>3, DraftCoversRecord DEF InTurn
  <2> QED BY <2>1, <2>2, <2>3, AgreedParts
<1>5. CASE UNCHANGED memory
  <2>1. UNCHANGED <<ctx, dft, checkpoints>>
    BY <1>5 DEF memory
  <2> QED BY <1>4, <2>1
<1>6. ASSUME NEW n \in Nat, NEW k, NEW m \in Memories,
             k \in Keep(Memory, n) \/ (n = Len(kv) /\ k = <<Memory, n>>),
             m \in DraftTo(k[1], k[2]), Remember(m)
      PROVE  Mirrors(dft', ctx') /\ Paired(checkpoints')
  <2>1. k[1] \in Memories /\ k[2] = Len(k[1].ctx) /\ k[2] \in Nat /\ Covers(k[1].dft, k[1].ctx) /\ Paired(k[1].cps)
    <3>1. CASE k \in Keep(Memory, n)
      <4>1. k[1] \in Memories /\ k[2] = Len(k[1].kv) /\ k[2] \in Nat /\ Agreed(k[1])
        BY <1>0, <1>1, <1>4, <3>1, KeepAgrees
      <4>2. Covers(k[1].dft, k[1].ctx) /\ Paired(k[1].cps)
        BY <1>0, <1>1, <1>3, <1>4, <3>1, KeepCovers
      <4> QED BY <4>1, <4>2 DEF Agreed
    <3>2. CASE n = Len(kv) /\ k = <<Memory, n>>
      <4>1. k[1] = Memory /\ k[2] = n
        BY <3>2
      <4> QED BY <1>0, <1>1, <1>4, <3>2, <4>1
    <3> QED BY <1>6, <3>1, <3>2
  <2>2. /\ m.ctx = k[1].ctx /\ m.cps = k[1].cps
        /\ m.dft = CutTo(k[1].dft, k[2]) \/ (m.dft = <<>> /\ (Mtp => "draft" \in Refuses))
    BY <1>6, <2>1, DraftToFacts
  <2>3. k[1].dft \in Seq(Cell) /\ k[1].ctx \in Seq(Word)
    BY <2>1, MemoryFields
  <2>4. Mirrors(CutTo(k[1].dft, k[2]), k[1].ctx)
    BY <2>1, <2>3, CutMirrors
  <2>5. "draft" \in Refuses => Mirrors(<<>>, k[1].ctx)
    BY <2>3, CoversFacts
  <2>6. Mirrors(m.dft, m.ctx) /\ Paired(m.cps)
    BY <1>3, <2>1, <2>2, <2>4, <2>5
  <2> QED BY <1>6, <2>6 DEF Remember
<1>7. \/ UNCHANGED memory
      \/ \E n \in Nat : \E k : \E m \in Memories :
                 /\ k \in Keep(Memory, n) \/ (n = Len(kv) /\ k = <<Memory, n>>)
                 /\ m \in DraftTo(k[1], k[2]) /\ Remember(m)
  BY <1>0, ReuseFacts
<1> QED BY <1>5, <1>6, <1>7

\* A piece of the prompt goes through both.
LEMMA DraftPiece == Shape /\ Record /\ DraftStands /\ PrefillPiece => DraftStands'
<1> SUFFICES ASSUME Shape, Record, DraftStands, PrefillPiece PROVE DraftStands'
  OBVIOUS
<1>0. Typed /\ RecordAgrees /\ Memory \in Memories /\ tokens \in Seq(Tokens) /\ fed \in Nat
  BY DEF Shape, Record, Typed
<1>1. ctx \in Seq(Word) /\ dft \in Seq(Cell) /\ kv \in Seq(Word) /\ checkpoints \in Seq(Checkpoint)
  BY <1>0, MemoryParts
<1>2. /\ pc = "prefill" /\ pc' = "prefill" /\ foreign' = foreign /\ fed < Len(tokens) /\ PieceFits
      /\ ctx' = ctx \o Piece /\ dft' = (IF Mtp THEN DecodedAt(dft, fed, Piece) ELSE dft)
      /\ checkpoints' = (IF AtCheckpoint THEN Checkpointed(checkpoints, fed, ctx, dft) ELSE checkpoints)
  BY DEF PrefillPiece
<1>3. SUFFICES ASSUME Mtp, ~foreign PROVE Mirrors(dft', ctx') /\ Paired(checkpoints')
  BY <1>2, <1>3, DraftRests
<1>4. Mirrors(dft, ctx) /\ Paired(checkpoints) /\ fed = Len(ctx)
  BY <1>0, <1>2, <1>3 DEF DraftStands, Paired, RecordAgrees, InTurn
<1>5. Piece \in Seq(Word)
  BY <1>0, <1>2, PieceFacts
<1>6. Follows(dft, fed)
  BY <1>2, <1>3 DEF PieceFits
<1>7. Mirrors(dft', ctx')
  BY <1>1, <1>2, <1>3, <1>4, <1>5, <1>6, DecodedMirrors
<1>8. Paired(checkpoints')
  <2>1. \A c \in ToSet(checkpoints') : c \in ToSet(checkpoints) \/ c = [n |-> fed, tgt |-> ctx, dft |-> dft]
    BY <1>0, <1>2, CheckpointsFit
  <2>2. ASSUME NEW c \in ToSet(checkpoints') PROVE Mirrors(c.dft, c.tgt)
    <3>1. CASE c \in ToSet(checkpoints)
      BY <1>4, <3>1 DEF Paired
    <3>2. CASE c = [n |-> fed, tgt |-> ctx, dft |-> dft]
      <4>1. c.dft = dft /\ c.tgt = ctx
        BY <3>2
      <4> QED BY <1>4, <4>1
    <3> QED BY <2>1, <3>1, <3>2
  <2> QED BY <2>2 DEF Paired
<1> QED BY <1>7, <1>8

----------------------------------------------------------------------------
(***************************************************************************)
(* The draft stands with the target: the answer, the trim, the other       *)
(* calls.                                                                  *)
(***************************************************************************)
\* The prompt's end is a checkpoint, where there are any.
LEMMA DraftEndPrefill == StateComesBack /\ Shape /\ Record /\ DraftStands /\ EndPrefill => DraftStands'
<1> SUFFICES ASSUME StateComesBack, Shape, Record, DraftStands, EndPrefill PROVE DraftStands'
  OBVIOUS
<1>0. /\ Typed /\ Undoes /\ RecordAgrees /\ Fresh /\ Memory \in Memories /\ tokens \in Seq(Tokens)
      /\ fed \in Nat /\ Len(tokens) \in Nat
  BY WordFacts DEF Shape, Record, Typed
<1>1. ctx \in Seq(Word) /\ dft \in Seq(Cell) /\ kv \in Seq(Word) /\ checkpoints \in Seq(Checkpoint)
  BY <1>0, MemoryParts
<1>2. /\ pc = "prefill" /\ pc' = "sample" /\ foreign' = foreign /\ fed = Len(tokens)
      /\ UNCHANGED <<ctx, dft, tokens, n_gen>>
  BY DEF EndPrefill, turn
<1>3. CASE foreign \/ ~Mtp
  BY <1>2, <1>3, DraftForeign DEF DraftStands
<1>4. CASE ~foreign /\ Mtp
  <2>1. chat /\ n_gen = 0
    BY <1>0, <1>2, <1>4 DEF Undoes, Fresh
  <2>2. checkpoints' = Checkpointed(checkpoints, fed, ctx, dft)
    BY <1>2, <2>1 DEF EndPrefill
  <2>3. Mirrors(dft, ctx) /\ Paired(checkpoints)
    BY <1>2, <1>4 DEF DraftStands, Paired, InTurn
  <2>4. PICK new : new = [n |-> fed, tgt |-> ctx, dft |-> dft]
    OBVIOUS
  <2>5. new.n = fed /\ new.tgt = ctx /\ new.dft = dft
    BY <2>4
  <2>6. PICK all : all = Checkpointed(checkpoints, fed, ctx, dft)
    OBVIOUS
  <2>7. /\ ToSet(all) \subseteq ToSet(checkpoints) \cup {new}
        /\ "target" \in Refuses /\ MaxCheckpoints # 0 => new \in ToSet(all)
    BY <1>0, <1>1, <2>4, <2>6, CheckpointedFacts
  <2>8. checkpoints' = all
    BY <2>2, <2>6
  <2>9. Paired(checkpoints')
    BY <2>3, <2>5, <2>7, <2>8 DEF Paired
  <2>10. "target" \in Refuses => \E c \in ToSet(checkpoints') : c.n <= EmittedEnd'
    <3>1. EmittedEnd' = fed
      BY <1>0, <1>2, <2>1 DEF EmittedEnd
    <3>2. "target" \in Refuses => MaxCheckpoints # 0
      BY <1>4, ConversationAssumption DEF StateComesBack
    <3>3. new.n <= EmittedEnd'
      BY <1>0, <2>5, <3>1
    <3> QED BY <2>7, <2>8, <3>2, <3>3
  <2>11. Mirrors(dft', ctx')
    BY <1>2, <2>3
  <2> QED BY <1>2, <2>9, <2>10, <2>11 DEF DraftStands, Paired
<1> QED BY <1>3, <1>4

\* The loop decodes through both.
LEMMA DraftDecode ==
  Shape /\ Record /\ Record' /\ Shape' /\ DraftStands /\ (Sample \/ Step \/ StepCancelled) => DraftStands'
<1> SUFFICES ASSUME Shape, Record, Shape', Record', DraftStands, Sample \/ Step \/ StepCancelled
             PROVE  DraftStands'
  OBVIOUS
<1>0. /\ Typed /\ RecordAgrees /\ RecordAgrees' /\ Memory \in Memories /\ Memory' \in Memories
      /\ tokens \in Seq(Tokens) /\ n_gen \in Nat /\ Len(tokens) \in Nat /\ n_gen' \in Nat
  BY WordFacts DEF Shape, Record, Typed
<1>1. ctx \in Seq(Word) /\ dft \in Seq(Cell) /\ kv \in Seq(Word) /\ checkpoints \in Seq(Checkpoint)
  BY <1>0, MemoryParts
<1>2. ctx' \in Seq(Word) /\ dft' \in Seq(Cell) /\ kv' \in Seq(Word)
  <2>1. /\ Memory'.ctx = ctx' /\ Memory'.dft = dft' /\ Memory'.kv = kv'
    BY DEF Memory
  <2>2. Memory'.ctx \in Seq(Word) /\ Memory'.dft \in Seq(Cell) /\ Memory'.kv \in Seq(Word)
    BY <1>0 DEF Memories
  <2> QED BY <2>1, <2>2
<1>3. /\ pc \in {"sample", "decode"} /\ pc' \in {"sample", "decode", "parse"}
      /\ UNCHANGED <<tokens, foreign, checkpoints>>
  BY DEF Sample, Step, StepCancelled, memory
<1>4. CASE foreign \/ ~Mtp
  BY <1>3, <1>4, DraftForeign DEF DraftStands
<1>5. CASE ~foreign /\ Mtp
  <2>1. /\ Mirrors(dft, ctx) /\ Paired(checkpoints) /\ ctx = kv /\ Len(kv) = EmittedEnd
        /\ "target" \in Refuses => \E c \in ToSet(checkpoints) : c.n <= EmittedEnd
    BY <1>0, <1>3, <1>5, AgreedParts DEF DraftStands, Paired, RecordAgrees, InTurn
  <2>2. SUFFICES /\ pc' \in {"sample", "decode"} => Mirrors(dft', ctx')
                 /\ pc' = "parse" => Covers(dft', kv')
                 /\ n_gen <= n_gen'
    <3>1. EmittedEnd <= EmittedEnd' /\ EmittedEnd \in Nat /\ EmittedEnd' \in Nat
      BY <1>0, <1>3, <2>2 DEF EmittedEnd
    <3>2. \A c \in ToSet(checkpoints) : c.n \in Nat
      BY <1>1, CheckpointFields
    <3>3. "target" \in Refuses => \E c \in ToSet(checkpoints) : c.n <= EmittedEnd'
      BY <2>1, <3>1, <3>2
    <3>4. "target" \in Refuses => \E c \in ToSet(checkpoints') : c.n <= EmittedEnd'
      BY <1>3, <3>3
    <3>5. Paired(checkpoints')
      BY <1>3, <2>1
    <3> QED BY <1>3, <2>2, <3>4, <3>5 DEF DraftStands, Paired
  <2>3. CASE Sample
    <3>1. UNCHANGED <<ctx, dft, kv, n_gen>>
      BY <2>3 DEF Sample, memory
    <3> QED BY <1>0, <2>1, <3>1 DEF Mirrors
  <2>4. CASE Step
    <3>1. PICK group \in Seq(Word), said \in Seq(Word) :
            /\ ctx' = ctx \o group /\ n_gen' = n_gen + Len(said)
            /\ dft' = (IF Mtp THEN DecodedAt(dft, EmittedEnd, group) ELSE dft)
      BY <1>0, <2>4, StepFacts
    <3>2. Follows(dft, EmittedEnd)
      BY <1>5, <2>4 DEF Step
    <3>3. dft' = DecodedAt(dft, EmittedEnd, group) /\ EmittedEnd = Len(ctx)
      BY <1>5, <2>1, <3>1
    <3>4. Mirrors(dft', ctx')
      BY <1>1, <2>1, <3>1, <3>2, <3>3, DecodedMirrors
    <3>5. pc' = "parse" => Covers(dft', kv')
      <4> SUFFICES ASSUME pc' = "parse" PROVE Covers(dft', kv')
        OBVIOUS
      <4>1. Memory'.ctx = ctx' /\ Recorded(Memory', kv') /\ Memory'.kv = kv'
        BY <1>0, <1>3, <1>5 DEF RecordAgrees, Memory
      <4>2. Begins(kv', ctx')
        BY <4>1 DEF Recorded
      <4> QED BY <1>2, <3>4, <4>2, CoversFacts DEF Mirrors
    <3>6. n_gen <= n_gen'
      <4>1. Len(said) \in Nat
        OBVIOUS
      <4> QED BY <1>0, <3>1, <4>1
    <3> QED BY <3>4, <3>5, <3>6
  <2>5. CASE StepCancelled
    <3>1. UNCHANGED <<dft, kv, n_gen>> /\ pc' = "parse"
      BY <2>5 DEF StepCancelled
    <3> QED BY <1>0, <2>1, <3>1 DEF Mirrors
  <2> QED BY <2>3, <2>4, <2>5
<1> QED BY <1>4, <1>5

\* The end of a turn cuts both to the same place.
LEMMA DraftTrim == StateComesBack /\ Shape /\ Record /\ DraftStands /\ Trim => DraftStands'
<1> SUFFICES ASSUME StateComesBack, Shape, Record, DraftStands, Trim PROVE DraftStands'
  OBVIOUS
<1>0. /\ Typed /\ Undoes /\ RecordAgrees /\ Memory \in Memories /\ tokens \in Seq(Tokens)
      /\ n_gen \in Nat /\ Len(tokens) \in Nat
  BY WordFacts DEF Shape, Record, Typed
<1>1. /\ ctx \in Seq(Word) /\ dft \in Seq(Cell) /\ kv \in Seq(Word) /\ checkpoints \in Seq(Checkpoint)
      /\ Memory.kv = kv /\ Memory.cps = checkpoints /\ Memory.ctx = ctx /\ Memory.dft = dft
  BY <1>0, MemoryParts
<1>2. pc = "parse" /\ pc' = "finish" /\ foreign' = foreign
  BY DEF Trim
<1>3. SUFFICES ASSUME Mtp, ~foreign PROVE Mirrors(dft', ctx') /\ Paired(checkpoints')
  BY <1>2, <1>3, DraftRests
<1>4. /\ chat /\ MaxDraft # 0 /\ Recorded(Memory, kv) /\ Len(kv) = EmittedEnd /\ Covers(dft, kv) /\ Paired(checkpoints)
      /\ "target" \in Refuses => \E c \in ToSet(checkpoints) : c.n <= EmittedEnd
  BY <1>0, <1>2, <1>3, ConversationAssumption DEF Undoes, RecordAgrees, DraftStands, Paired, InTurn
<1>5. EmittedEnd \in Nat
  BY <1>0 DEF EmittedEnd
<1>6. PICK m : m \in Trimmed(Memory) /\ Remember(m)
  BY DEF Trim
<1>7. PICK k \in Keep(Memory, EmittedEnd) : m \in DraftTo(k[1], EmittedEnd)
  BY <1>4, <1>6 DEF Trimmed
<1>8. k[1] \in Memories /\ k[2] = Len(k[1].kv) /\ Agreed(k[1]) /\ k[2] <= EmittedEnd /\ k[2] \in Nat
  BY <1>0, <1>1, <1>4, <1>5, <1>7, KeepAgrees
<1>9. /\ Covers(k[1].dft, k[1].ctx) /\ Paired(k[1].cps)
      /\ k[2] = EmittedEnd \/ Mirrors(k[1].dft, k[1].ctx)
  <2>1. PICK n : n = Least(EmittedEnd, Len(Memory.kv))
    OBVIOUS
  <2>2. n = EmittedEnd
    BY <1>1, <1>4, <1>5, <2>1 DEF Least
  <2>3. /\ Covers(k[1].dft, k[1].ctx) /\ Paired(k[1].cps)
        /\ \/ k[2] = n
           \/ Mirrors(k[1].dft, k[1].ctx)
           \/ "target" \in Refuses /\ (LoadsState => \A c \in ToSet(Memory.cps) : c.n > n)
    BY <1>0, <1>1, <1>3, <1>4, <1>5, <1>7, <2>1, KeepCovers
  <2>4. ~ ("target" \in Refuses /\ (LoadsState => \A c \in ToSet(Memory.cps) : c.n > n))
    <3> SUFFICES ASSUME "target" \in Refuses, LoadsState => \A c \in ToSet(Memory.cps) : c.n > n PROVE FALSE
      OBVIOUS
    <3>1. LoadsState
      BY <1>3 DEF StateComesBack
    <3>2. PICK c \in ToSet(checkpoints) : c.n <= EmittedEnd
      BY <1>4
    <3>3. c.n > EmittedEnd
      BY <1>1, <2>2, <3>1
    <3>4. c.n \in Nat
      BY <1>1, CheckpointFields
    <3> QED BY <1>5, <3>2, <3>3, <3>4
  <2> QED BY <2>2, <2>3, <2>4
<1>10. /\ m.ctx = k[1].ctx /\ m.cps = k[1].cps
       /\ m.dft = CutTo(k[1].dft, EmittedEnd) \/ (m.dft = <<>> /\ (Mtp => "draft" \in Refuses))
  BY <1>5, <1>7, <1>8, DraftToFacts
<1>11. k[1].dft \in Seq(Cell) /\ k[1].ctx \in Seq(Word) /\ Len(k[1].ctx) = k[2]
  BY <1>8, MemoryFields DEF Agreed
<1>12. Mirrors(CutTo(k[1].dft, EmittedEnd), k[1].ctx)
  <2>1. EmittedEnd = Len(k[1].ctx) \/ (Len(k[1].ctx) <= EmittedEnd /\ Len(k[1].dft) <= Len(k[1].ctx))
    BY <1>8, <1>9, <1>11 DEF Mirrors
  <2> QED BY <1>5, <1>9, <1>11, <2>1, CutMirrors
<1>13. "draft" \in Refuses => Mirrors(<<>>, k[1].ctx)
  BY <1>11, CoversFacts
<1>14. Mirrors(m.dft, m.ctx) /\ Paired(m.cps)
  BY <1>3, <1>9, <1>10, <1>12, <1>13
<1> QED BY <1>6, <1>14 DEF Remember

\* An answer that joins the conversation changes neither; nor do the calls that are no turn.
LEMMA DraftCalls ==
  Shape /\ Record /\ DraftStands
  /\ (Finish \/ Perplexity \/ Decide \/ DecidePrefill \/ DecideFails \/ Score \/ Cancel \/ Reopen) => DraftStands'
<1> SUFFICES ASSUME Shape, Record, DraftStands,
                    Finish \/ Perplexity \/ Decide \/ DecidePrefill \/ DecideFails \/ Score \/ Cancel \/ Reopen
             PROVE  DraftStands'
  OBVIOUS
<1>0. Decided
  BY DEF Shape
<1>1. CASE Finish
  <2>1. pc = "finish" /\ pc' = "idle" /\ UNCHANGED <<ctx, dft, checkpoints, foreign>>
    BY <1>1 DEF Finish, memory
  <2>2. Mtp /\ ~foreign => Mirrors(dft, ctx) /\ Paired(checkpoints)
    BY <2>1 DEF DraftStands, Paired, InTurn
  <2>3. Mtp /\ ~foreign' => Mirrors(dft', ctx') /\ Paired(checkpoints')
    BY <2>1, <2>2
  <2> QED BY <2>1, <2>3, DraftRests
<1>2. CASE Perplexity \/ Decide \/ DecidePrefill
  BY <1>2, DraftForeign DEF Perplexity, Decide, DecidePrefill
<1>3. CASE DecideFails \/ Score \/ Reopen
  <2>1. pc' \in {"idle", "dead"} /\ ctx' = <<>> /\ dft' = <<>> /\ checkpoints' = <<>>
    BY <1>0, <1>3 DEF DecideFails, Score, Reopen, Remember, Emptied, Decided
  <2>2. <<>> \in Seq(Word) /\ <<>> \in Seq(Cell)
    OBVIOUS
  <2>3. Mirrors(<<>>, <<>>)
    BY <2>2, CoversFacts
  <2>4. Mirrors(dft', ctx') /\ Paired(checkpoints')
    BY <2>1, <2>3, ToSetFacts DEF Paired
  <2> QED BY <2>1, <2>4, DraftRests
<1>4. CASE Cancel
  <2>1. UNCHANGED <<ctx, dft, kv, checkpoints, pc, foreign, tokens, n_gen>>
    BY <1>4 DEF Cancel, memory, turn
  <2>2. EmittedEnd' = EmittedEnd
    BY <2>1 DEF EmittedEnd
  <2> QED BY <2>1, <2>2 DEF DraftStands
<1> QED BY <1>1, <1>2, <1>3, <1>4

\* Where the draft stands is kept in every step.
LEMMA DraftNext == StateComesBack /\ Shape /\ Record /\ DraftStands /\ [Next]_vars => DraftStands'
<1> SUFFICES ASSUME StateComesBack, Shape, Record, DraftStands, [Next]_vars PROVE DraftStands'
  OBVIOUS
<1>0. Shape' /\ Record'
  BY ShapeNext, RecordNext
<1>1. CASE UNCHANGED vars
  <2>1. UNCHANGED <<ctx, dft, kv, checkpoints, pc, foreign, tokens, n_gen>>
    BY <1>1 DEF vars, memory, turn
  <2>2. EmittedEnd' = EmittedEnd
    BY <2>1 DEF EmittedEnd
  <2> QED BY <2>1, <2>2 DEF DraftStands
<1>2. CASE Next
  BY <1>0, <1>2, DraftBegin, DraftUndone, DraftReuse, DraftPiece, DraftEndPrefill, DraftDecode, DraftTrim,
     DraftCalls DEF Next, Undoing
<1> QED BY <1>1, <1>2

\* At the start there is nothing.
LEMMA DraftInit == Init => DraftStands
<1> SUFFICES ASSUME Init PROVE DraftStands
  OBVIOUS
<1>1. pc = "idle" /\ dft = <<>> /\ ctx = <<>> /\ checkpoints = <<>>
  BY DEF Init
<1>2. <<>> \in Seq(Word) /\ <<>> \in Seq(Cell)
  OBVIOUS
<1>3. Mirrors(dft, ctx)
  BY <1>1, <1>2, CoversFacts
<1> QED BY <1>1, <1>3, ToSetFacts DEF DraftStands

\* DraftMirrors: the draft context stands where the target stands, on the same tokens, wherever the
\* target's memory comes back from its checkpoints.
THEOREM DraftStandsWithTarget == StateComesBack => (Spec => []DraftMirrors)
<1> SUFFICES ASSUME StateComesBack PROVE Spec => []DraftMirrors
  OBVIOUS
<1>1. Shape /\ Record /\ DraftStands /\ [Next]_vars => DraftStands'
  BY DraftNext
<1>2. Shape /\ Record /\ DraftStands => DraftMirrors
  <2> SUFFICES ASSUME Shape, DraftStands, Mtp, pc \in {"idle", "prefill"}, ~foreign
      PROVE  \/ dft = <<>> /\ (ctx # <<>> => "draft" \in Refuses)
             \/ /\ Len(dft) = Len(ctx)
                /\ \A i \in DOMAIN dft : dft[i] = ctx[i] \/ (dft[i] = Gap /\ "draft" \in Refuses)
    BY DEF DraftMirrors
  <2>1. Mirrors(dft, ctx)
    BY DEF DraftStands
  <2>2. dft \in Seq(Cell) /\ Len(dft) \in Nat /\ Len(ctx) \in Nat
    BY MemoryParts DEF Shape, Typed
  <2>3. DOMAIN dft = 1..Len(dft)
    BY <2>2
  <2> QED BY <2>1, <2>2, <2>3 DEF Mirrors, Covers
<1> QED BY <1>1, <1>2, DraftInit, RecordHolds, PTL DEF Spec
============================================================================
