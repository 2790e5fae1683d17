------------------------- MODULE ExpertStream_proofs -------------------------
(***************************************************************************)
(* Proofs about ExpertStream, for any number of layers, experts,           *)
(* projections and lanes, any budgets, routings and guesses.  The          *)
(* invariant is built in seven layers, each preserved under the ones       *)
(* before it:                                                              *)
(*   Types        ranges, the place of the eval thread, the batch counter  *)
(*   Listing      the lists and their counters (LruExact)                  *)
(*   Speculation  who owes which speculative page (DoneHasBytes)           *)
(*   Batch        who loads which page of the current layer                *)
(*   Books        what is resident is committed and counted (LedgerExact)  *)
(*   Bytes        what is consumable holds its bytes (MatmulSafe)          *)
(*   Flight       what is written (InFlightCommitted, ReadOnce)            *)
(* Every fault may happen unless a theorem names the ones it excludes:     *)
(* each such hypothesis is a condition under which the code itself loses   *)
(* track, or goes on after a failure.                                      *)
(***************************************************************************)
EXTENDS ExpertStream, WellFoundedInduction, FiniteSetTheorems, TLAPS

(***************************************************************************)
(* Loops.  A function defined by recursion on 0..N, and a fold over a      *)
(* sequence, unrolled one step at a time: what a particular loop returns is *)
(* then the least counterexample's contradiction.                          *)
(***************************************************************************)

\* Every nonempty set of naturals has a least element.
LEMMA LeastNumber ==
  ASSUME NEW P \in SUBSET Nat, P # {}
  PROVE  \E n \in P : \A m \in P : n <= m
<1>1. IsWellFoundedOn(OpToRel(<, Nat), Nat)
  BY NatLessThanWellFounded
<1>2. PICK n \in P : \A m \in P : ~ (<<m, n>> \in OpToRel(<, Nat))
  BY <1>1, WFMin, Zenon
<1>3. ASSUME NEW m \in P PROVE n <= m
  <2>1. <<m, n>> \notin OpToRel(<, Nat)
    BY <1>2
  <2>2. m \in Nat /\ n \in Nat
    OBVIOUS
  <2>3. ~ (m < n)
    BY <2>1, <2>2, Zenon DEF OpToRel
  <2> QED BY <2>2, <2>3
<1> QED BY <1>3

\* What holds of 0, and of a number with its predecessor, holds up to any bound.
LEMMA UpTo ==
  ASSUME NEW N \in Nat, NEW G, 0 \in G, \A n \in 1..N : n - 1 \in G => n \in G
  PROVE  \A n \in 0..N : n \in G
<1> DEFINE Bad == {n \in 0..N : n \notin G}
<1> SUFFICES ASSUME Bad # {} PROVE FALSE
  OBVIOUS
<1>1. Bad \in SUBSET Nat
  OBVIOUS
<1>2. PICK n \in Bad : \A m \in Bad : n <= m
  BY <1>1, LeastNumber
<1> HIDE DEF Bad
<1>3. n \in 0..N /\ n \notin G
  BY <1>2 DEF Bad
<1>4. n # 0
  BY <1>3
<1>5. n \in 1..N /\ n - 1 \in 0..N
  BY <1>3, <1>4
<1>6. n - 1 \notin Bad
  BY <1>2, <1>5
<1>7. n - 1 \in G
  BY <1>5, <1>6 DEF Bad
<1> QED BY <1>3, <1>5, <1>7

\* What a loop of N steps has after each of them.
Unrolled(f, R, N, base, step) ==
    /\ f \in [0..N -> R]
    /\ f[0] = base
    /\ \A i \in 1..N : f[i] = step[<<i, f[i - 1]>>]

\* Every loop can be unrolled.
LEMMA LoopUnrolls ==
  ASSUME NEW R, NEW N \in Nat, NEW base \in R, NEW step \in [(1..N) \X R -> R]
  PROVE  \E f : Unrolled(f, R, N, base, step)
<1> DEFINE Eq(g, n) == g[0] = base /\ \A i \in 1..n : g[i] = step[<<i, g[i - 1]>>]
           G == {n \in 0..N : \E g \in [0..n -> R] : Eq(g, n)}
<1>1. 0 \in G
  <2>1. [i \in 0..0 |-> base] \in [0..0 -> R] /\ Eq([i \in 0..0 |-> base], 0)
    OBVIOUS
  <2>2. 0 \in 0..N
    OBVIOUS
  <2> QED BY <2>1, <2>2, Zenon
<1>2. ASSUME NEW n \in 1..N, n - 1 \in G PROVE n \in G
  <2>1. PICK g \in [0..(n - 1) -> R] : Eq(g, n - 1)
    BY <1>2
  <2> DEFINE h == [i \in 0..n |-> IF i < n THEN g[i] ELSE step[<<n, g[n - 1]>>]]
  <2>2. g[n - 1] \in R
    OBVIOUS
  <2>3. step[<<n, g[n - 1]>>] \in R
    BY <2>2
  <2>4. h \in [0..n -> R]
    BY <2>3
  <2>5. \A i \in 0..(n - 1) : h[i] = g[i]
    OBVIOUS
  <2>6. h[n] = step[<<n, g[n - 1]>>]
    OBVIOUS
  <2> HIDE DEF h
  <2>7. h[0] = base
    BY <2>1, <2>5
  <2>8. ASSUME NEW i \in 1..n PROVE h[i] = step[<<i, h[i - 1]>>]
    <3>1. CASE i = n
      <4>1. h[i - 1] = g[n - 1]
        BY <3>1, <2>5
      <4> QED BY <3>1, <4>1, <2>6
    <3>2. CASE i # n
      <4>1. i \in 1..(n - 1) /\ i - 1 \in 0..(n - 1) /\ i \in 0..(n - 1)
        BY <3>2
      <4> QED BY <4>1, <2>1, <2>5
    <3> QED BY <3>1, <3>2
  <2>9. Eq(h, n)
    BY <2>7, <2>8
  <2>10. n \in 0..N
    OBVIOUS
  <2> QED BY <2>4, <2>9, <2>10
<1>3. N \in G
  <2> HIDE DEF G
  <2>1. \A n \in 0..N : n \in G
    BY <1>1, <1>2, UpTo
  <2> QED BY <2>1
<1>4. PICK g \in [0..N -> R] : Eq(g, N)
  BY <1>3
<1>5. Unrolled(g, R, N, base, step)
  BY <1>4 DEF Unrolled
<1> QED BY <1>5, Zenon

(***************************************************************************)
(* Sequences as lists without repetition: what the model's operators on the *)
(* lists (append, cut, keep, promote, order) do to the elements.           *)
(***************************************************************************)

\* The elements of a sequence.
LEMMA ToSetFacts ==
  /\ ToSet(<<>>) = {} /\ IsInjective(<<>>)
  /\ \A E : \A s \in Seq(E) :
        /\ ToSet(s) = {s[i] : i \in 1..Len(s)}
        /\ ToSet(s) \subseteq E
        /\ s \in Seq(ToSet(s))
        /\ IsInjective(s) <=> \A i, j \in 1..Len(s) : s[i] = s[j] => i = j
<1>1. ASSUME NEW E, NEW s \in Seq(E)
      PROVE  /\ ToSet(s) = {s[i] : i \in 1..Len(s)}
             /\ ToSet(s) \subseteq E
             /\ s \in Seq(ToSet(s))
             /\ IsInjective(s) <=> \A i, j \in 1..Len(s) : s[i] = s[j] => i = j
  <2>1. DOMAIN s = 1..Len(s) /\ s \in [1..Len(s) -> E] /\ Len(s) \in Nat
    OBVIOUS
  <2>2. ToSet(s) = {s[i] : i \in 1..Len(s)}
    BY <2>1 DEF ToSet
  <2>3. ToSet(s) \subseteq E
    BY <2>2, <2>1
  <2>4. s \in [1..Len(s) -> ToSet(s)]
    BY <2>2, <2>1
  <2>5. s \in Seq(ToSet(s))
    BY <2>4, <2>1
  <2>6. IsInjective(s) <=> \A i, j \in 1..Len(s) : s[i] = s[j] => i = j
    BY <2>1 DEF IsInjective
  <2> QED BY <2>2, <2>3, <2>5, <2>6
<1>2. ToSet(<<>>) = {} /\ IsInjective(<<>>)
  BY DEF ToSet, IsInjective
<1> QED BY <1>1, <1>2, Zenon

\* A function on 1..n is a sequence of length n.
LEMMA FunctionIsSeq ==
  ASSUME NEW E, NEW n \in Nat, NEW t \in [1..n -> E]
  PROVE  t \in Seq(E) /\ Len(t) = n
OBVIOUS

\* Appending adds one element.
LEMMA AppendFacts ==
  ASSUME NEW E, NEW s \in Seq(E), NEW x \in E
  PROVE  /\ Append(s, x) \in Seq(E)
         /\ ToSet(Append(s, x)) = ToSet(s) \union {x}
         /\ IsInjective(Append(s, x)) <=> IsInjective(s) /\ x \notin ToSet(s)
<1> DEFINE t == Append(s, x)
<1>1. t \in Seq(E) /\ Len(t) = Len(s) + 1 /\ Len(s) \in Nat
      /\ t[Len(s) + 1] = x /\ \A i \in 1..Len(s) : t[i] = s[i]
  OBVIOUS
<1> HIDE DEF t
<1>2. /\ ToSet(s) = {s[i] : i \in 1..Len(s)} /\ ToSet(t) = {t[i] : i \in 1..Len(t)}
      /\ IsInjective(s) <=> \A i, j \in 1..Len(s) : s[i] = s[j] => i = j
      /\ IsInjective(t) <=> \A i, j \in 1..Len(t) : t[i] = t[j] => i = j
  BY <1>1, ToSetFacts
<1>3. 1..Len(t) = 1..Len(s) \union {Len(s) + 1}
  BY <1>1
<1>4. ToSet(t) = ToSet(s) \union {x}
  <2>1. ASSUME NEW y \in ToSet(t) PROVE y \in ToSet(s) \union {x}
    BY <1>1, <1>2, <1>3
  <2>2. ASSUME NEW y \in ToSet(s) PROVE y \in ToSet(t)
    BY <1>1, <1>2, <1>3
  <2>3. x \in ToSet(t)
    BY <1>1, <1>2, <1>3
  <2> QED BY <2>1, <2>2, <2>3
<1>5. ASSUME IsInjective(s), x \notin ToSet(s) PROVE IsInjective(t)
  <2> SUFFICES ASSUME NEW i \in 1..Len(t), NEW j \in 1..Len(t), t[i] = t[j] PROVE i = j
    BY <1>2
  <2>1. \A k \in 1..Len(s) : t[k] # x
    BY <1>1, <1>2, <1>5
  <2> QED BY <1>1, <1>2, <1>3, <1>5, <2>1
<1>6. ASSUME IsInjective(t) PROVE IsInjective(s) /\ x \notin ToSet(s)
  <2>1. IsInjective(s)
    <3> SUFFICES ASSUME NEW i \in 1..Len(s), NEW j \in 1..Len(s), s[i] = s[j] PROVE i = j
      BY <1>2
    <3>1. i \in 1..Len(t) /\ j \in 1..Len(t)
      BY <1>3
    <3> QED BY <1>1, <1>2, <1>6, <3>1
  <2>2. ASSUME NEW i \in 1..Len(s), s[i] = x PROVE FALSE
    <3>1. i \in 1..Len(t) /\ Len(s) + 1 \in 1..Len(t) /\ i # Len(s) + 1
      BY <1>1, <1>3
    <3>2. t[i] = t[Len(s) + 1]
      BY <1>1, <2>2
    <3> QED BY <1>2, <1>6, <3>1, <3>2
  <2> QED BY <2>1, <2>2, <1>2
<1> QED BY <1>1, <1>4, <1>5, <1>6 DEF t

\* One sequence behind another.
LEMMA ConcatFacts ==
  ASSUME NEW E, NEW s \in Seq(E), NEW t \in Seq(E)
  PROVE  /\ s \o t \in Seq(E)
         /\ ToSet(s \o t) = ToSet(s) \union ToSet(t)
         /\ IsInjective(s \o t) <=> /\ IsInjective(s) /\ IsInjective(t)
                                    /\ ToSet(s) \intersect ToSet(t) = {}
<1> DEFINE u == s \o t
<1>1. /\ u \in Seq(E) /\ Len(u) = Len(s) + Len(t) /\ Len(s) \in Nat /\ Len(t) \in Nat
      /\ \A i \in 1..Len(s) : u[i] = s[i]
      /\ \A i \in 1..Len(t) : u[Len(s) + i] = t[i]
  OBVIOUS
<1> HIDE DEF u
<1>2. /\ ToSet(s) = {s[i] : i \in 1..Len(s)} /\ ToSet(t) = {t[i] : i \in 1..Len(t)}
      /\ ToSet(u) = {u[i] : i \in 1..Len(u)}
      /\ IsInjective(s) <=> \A i, j \in 1..Len(s) : s[i] = s[j] => i = j
      /\ IsInjective(t) <=> \A i, j \in 1..Len(t) : t[i] = t[j] => i = j
      /\ IsInjective(u) <=> \A i, j \in 1..Len(u) : u[i] = u[j] => i = j
  <2>1. ToSet(s) = {s[i] : i \in 1..Len(s)}
        /\ (IsInjective(s) <=> \A i, j \in 1..Len(s) : s[i] = s[j] => i = j)
    BY ToSetFacts
  <2>2. ToSet(t) = {t[i] : i \in 1..Len(t)}
        /\ (IsInjective(t) <=> \A i, j \in 1..Len(t) : t[i] = t[j] => i = j)
    BY ToSetFacts
  <2>3. ToSet(u) = {u[i] : i \in 1..Len(u)}
        /\ (IsInjective(u) <=> \A i, j \in 1..Len(u) : u[i] = u[j] => i = j)
    <3>1. u \in Seq(E)
      BY <1>1
    <3> QED BY <3>1, ToSetFacts
  <2> QED BY <2>1, <2>2, <2>3
<1>3. ASSUME NEW i \in 1..Len(u)
      PROVE  \/ i \in 1..Len(s) /\ u[i] = s[i]
             \/ i - Len(s) \in 1..Len(t) /\ u[i] = t[i - Len(s)]
  <2>1. CASE i \in 1..Len(s)
    BY <2>1, <1>1
  <2>2. CASE i \notin 1..Len(s)
    <3>1. i - Len(s) \in 1..Len(t) /\ i = Len(s) + (i - Len(s))
      BY <2>2, <1>1
    <3> QED BY <3>1, <1>1
  <2> QED BY <2>1, <2>2
<1>4. \A i \in 1..Len(s) : i \in 1..Len(u) /\ u[i] = s[i]
  BY <1>1
<1>5. \A i \in 1..Len(t) : Len(s) + i \in 1..Len(u) /\ u[Len(s) + i] = t[i]
  BY <1>1
<1>6. ToSet(u) = ToSet(s) \union ToSet(t)
  <2>1. ASSUME NEW y \in ToSet(u) PROVE y \in ToSet(s) \union ToSet(t)
    BY <1>2, <1>3
  <2>2. ASSUME NEW y \in ToSet(s) PROVE y \in ToSet(u)
    BY <1>2, <1>4
  <2>3. ASSUME NEW y \in ToSet(t) PROVE y \in ToSet(u)
    <3>1. PICK i \in 1..Len(t) : y = t[i]
      BY <1>2
    <3>2. Len(s) + i \in 1..Len(u) /\ u[Len(s) + i] = y
      BY <3>1, <1>5
    <3> QED BY <3>2, <1>2
  <2> QED BY <2>1, <2>2, <2>3
<1>7. ASSUME IsInjective(s), IsInjective(t), ToSet(s) \intersect ToSet(t) = {}
      PROVE  IsInjective(u)
  <2> SUFFICES ASSUME NEW i \in 1..Len(u), NEW j \in 1..Len(u), u[i] = u[j] PROVE i = j
    BY <1>2
  <2>1. \A k \in 1..Len(s), l \in 1..Len(t) : s[k] # t[l]
    <3> SUFFICES ASSUME NEW k \in 1..Len(s), NEW l \in 1..Len(t) PROVE s[k] # t[l]
      OBVIOUS
    <3>1. s[k] \in ToSet(s) /\ t[l] \in ToSet(t)
      BY <1>2
    <3> QED BY <3>1, <1>7
  <2>2. CASE i \in 1..Len(s) /\ u[i] = s[i]
    <3>1. j \in 1..Len(s) /\ u[j] = s[j]
      BY <2>1, <2>2, <1>3
    <3> QED BY <2>2, <3>1, <1>2, <1>7
  <2>3. CASE i - Len(s) \in 1..Len(t) /\ u[i] = t[i - Len(s)]
    <3>1. j - Len(s) \in 1..Len(t) /\ u[j] = t[j - Len(s)]
      BY <2>1, <2>3, <1>3
    <3>2. i - Len(s) = j - Len(s)
      BY <2>3, <3>1, <1>2, <1>7
    <3> QED BY <3>2, <1>1
  <2> QED BY <2>2, <2>3, <1>3
<1>8. ASSUME IsInjective(u)
      PROVE  IsInjective(s) /\ IsInjective(t) /\ ToSet(s) \intersect ToSet(t) = {}
  <2>1. IsInjective(s)
    BY <1>2, <1>4, <1>8
  <2>2. IsInjective(t)
    <3> SUFFICES ASSUME NEW i \in 1..Len(t), NEW j \in 1..Len(t), t[i] = t[j] PROVE i = j
      BY <1>2
    <3>1. Len(s) + i = Len(s) + j
      BY <1>2, <1>5, <1>8
    <3> QED BY <3>1, <1>1
  <2>3. ASSUME NEW i \in 1..Len(s), NEW j \in 1..Len(t), s[i] = t[j] PROVE FALSE
    <3>1. i = Len(s) + j
      BY <1>2, <1>4, <1>5, <1>8, <2>3
    <3> QED BY <3>1, <1>1
  <2> QED BY <2>1, <2>2, <2>3, <1>2
<1> QED BY <1>1, <1>6, <1>7, <1>8 DEF u

\* The head of a sequence and the rest.
LEMMA HeadTailFacts ==
  ASSUME NEW E, NEW s \in Seq(E), s # <<>>
  PROVE  /\ Head(s) \in E /\ Tail(s) \in Seq(E) /\ Len(Tail(s)) = Len(s) - 1 /\ Len(s) > 0
         /\ ToSet(s) = {Head(s)} \union ToSet(Tail(s))
         /\ IsInjective(s) => IsInjective(Tail(s)) /\ Head(s) \notin ToSet(Tail(s))
<1>1. s = <<Head(s)>> \o Tail(s) /\ <<Head(s)>> \in Seq(E) /\ Head(s) \in E /\ Tail(s) \in Seq(E)
      /\ Len(Tail(s)) = Len(s) - 1 /\ Len(s) > 0
  OBVIOUS
<1>2. ToSet(<<Head(s)>>) = {Head(s)}
  BY DEF ToSet
<1>3. ToSet(s) = ToSet(<<Head(s)>>) \union ToSet(Tail(s))
  <2> DEFINE h == <<Head(s)>>
             t == Tail(s)
  <2>1. h \in Seq(E) /\ t \in Seq(E) /\ s = h \o t
    BY <1>1
  <2> HIDE DEF h, t
  <2>2. ToSet(h \o t) = ToSet(h) \union ToSet(t)
    BY <2>1, ConcatFacts
  <2> QED BY <2>1, <2>2 DEF h, t
<1>4. IsInjective(s) => /\ IsInjective(Tail(s))
                        /\ ToSet(<<Head(s)>>) \intersect ToSet(Tail(s)) = {}
  <2> DEFINE h == <<Head(s)>>
             t == Tail(s)
  <2>1. h \in Seq(E) /\ t \in Seq(E) /\ s = h \o t
    BY <1>1
  <2> HIDE DEF h, t
  <2>2. IsInjective(h \o t) => IsInjective(t) /\ ToSet(h) \intersect ToSet(t) = {}
    BY <2>1, ConcatFacts
  <2> QED BY <2>1, <2>2 DEF h, t
<1> QED BY <1>1, <1>2, <1>3, <1>4

\* Backwards.
LEMMA ReverseFacts ==
  ASSUME NEW E, NEW s \in Seq(E)
  PROVE  /\ Reverse(s) \in Seq(E) /\ Len(Reverse(s)) = Len(s)
         /\ ToSet(Reverse(s)) = ToSet(s)
         /\ IsInjective(s) => IsInjective(Reverse(s))
<1> DEFINE t == Reverse(s)
<1>1. Len(s) \in Nat
  OBVIOUS
<1>2. t = [i \in 1..Len(s) |-> s[(Len(s) - i) + 1]]
  BY DEF Reverse
<1>3. \A i \in 1..Len(s) : (Len(s) - i) + 1 \in 1..Len(s)
  BY <1>1
<1>4. t \in [1..Len(s) -> E]
  BY <1>2, <1>3
<1>5. t \in Seq(E) /\ Len(t) = Len(s)
  BY <1>1, <1>4
<1> HIDE DEF t
<1>6. /\ ToSet(s) = {s[i] : i \in 1..Len(s)} /\ ToSet(t) = {t[i] : i \in 1..Len(s)}
      /\ IsInjective(s) <=> \A i, j \in 1..Len(s) : s[i] = s[j] => i = j
      /\ IsInjective(t) <=> \A i, j \in 1..Len(s) : t[i] = t[j] => i = j
  BY <1>5, ToSetFacts
<1>7. \A i \in 1..Len(s) : t[i] = s[(Len(s) - i) + 1] /\ s[i] = t[(Len(s) - i) + 1]
  <2> TAKE i \in 1..Len(s)
  <2>1. (Len(s) - ((Len(s) - i) + 1)) + 1 = i
    BY <1>1
  <2> QED BY <1>2, <1>3, <2>1
<1>8. ToSet(t) = ToSet(s)
  <2>1. ASSUME NEW i \in 1..Len(s) PROVE t[i] \in ToSet(s) /\ s[i] \in ToSet(t)
    BY <1>3, <1>6, <1>7
  <2>2. \A x \in ToSet(t) : x \in ToSet(s)
    BY <1>6, <2>1
  <2>3. \A x \in ToSet(s) : x \in ToSet(t)
    BY <1>6, <2>1
  <2> QED BY <2>2, <2>3
<1>9. ASSUME IsInjective(s) PROVE IsInjective(t)
  <2> SUFFICES ASSUME NEW i \in 1..Len(s), NEW j \in 1..Len(s), t[i] = t[j] PROVE i = j
    BY <1>6
  <2>1. s[(Len(s) - i) + 1] = s[(Len(s) - j) + 1]
    BY <1>7
  <2>2. (Len(s) - i) + 1 \in 1..Len(s) /\ (Len(s) - j) + 1 \in 1..Len(s)
    BY <1>3
  <2>3. (Len(s) - i) + 1 = (Len(s) - j) + 1
    BY <2>1, <2>2, <1>6, <1>9
  <2> QED BY <2>3, <1>1
<1> QED BY <1>5, <1>8, <1>9 DEF t

\* The elements at the positions from a to b.
Stretch(s, a, b) == {s[i] : i \in a..b}

\* A sequence cut in two.
LEMMA CutFacts ==
  ASSUME NEW E, NEW s \in Seq(E), NEW k \in 0..Len(s)
  PROVE  /\ SubSeq(s, 1, k) \in Seq(E) /\ Len(SubSeq(s, 1, k)) = k
         /\ SubSeq(s, k + 1, Len(s)) \in Seq(E)
         /\ s = SubSeq(s, 1, k) \o SubSeq(s, k + 1, Len(s))
         /\ ToSet(SubSeq(s, k + 1, Len(s))) = Stretch(s, k + 1, Len(s))
<1>1. /\ SubSeq(s, 1, k) \in Seq(E) /\ SubSeq(s, k + 1, Len(s)) \in Seq(E)
      /\ Len(SubSeq(s, 1, k)) = k /\ Len(SubSeq(s, k + 1, Len(s))) = Len(s) - k
      /\ Len(s) \in Nat
  OBVIOUS
<1> DEFINE t == SubSeq(s, k + 1, Len(s))
<1>2. \A i \in 1..Len(t) : t[i] = s[k + i]
  BY <1>1
<1>3. s = SubSeq(s, 1, k) \o t
  <2> DEFINE u == SubSeq(s, 1, k)
  <2>1. \A i \in 1..k : u[i] = s[i]
    BY <1>1
  <2>2. u \in Seq(E) /\ t \in Seq(E) /\ Len(u) = k /\ Len(t) = Len(s) - k /\ k \in Nat
    BY <1>1
  <2> HIDE DEF u, t
  <2>3. u \o t \in Seq(E) /\ Len(u \o t) = Len(s)
    <3>1. u \o t \in Seq(E) /\ Len(u \o t) = Len(u) + Len(t)
      BY <2>2
    <3>2. Len(u) + Len(t) = Len(s)
      BY <2>2, <1>1
    <3> QED BY <3>1, <3>2
  <2>4. ASSUME NEW i \in 1..Len(s) PROVE (u \o t)[i] = s[i]
    <3>1. CASE i <= k
      <4>1. (u \o t)[i] = u[i]
        BY <3>1, <2>2
      <4> QED BY <4>1, <3>1, <2>1
    <3>2. CASE i > k
      <4>1. i - k \in 1..Len(t) /\ k + (i - k) = i
        BY <3>2, <2>2, <1>1
      <4>2. (u \o t)[i] = t[i - k]
        BY <3>2, <2>2, <1>1
      <4> QED BY <4>1, <4>2, <1>2
    <3> QED BY <3>1, <3>2, <2>2, <1>1
  <2>5. u \o t = s
    <3>1. ASSUME NEW w \in Seq(E), Len(w) = Len(s), \A i \in 1..Len(s) : w[i] = s[i]
          PROVE  w = s
      <4>1. w \in [1..Len(s) -> E] /\ s \in [1..Len(s) -> E]
        BY <3>1
      <4> QED BY <4>1, <3>1
    <3> QED BY <2>3, <2>4, <3>1
  <2> QED BY <2>5 DEF u
<1> HIDE DEF t
<1>4. t \in Seq(E) /\ Len(t) = Len(s) - k
  BY <1>1 DEF t
<1>5. ToSet(t) = {t[i] : i \in 1..Len(t)}
  BY <1>4, ToSetFacts
<1>6. {t[i] : i \in 1..Len(t)} = {s[i] : i \in (k + 1)..Len(s)}
  <2>1. ASSUME NEW i \in (k + 1)..Len(s) PROVE i - k \in 1..Len(t) /\ s[i] = t[i - k]
    <3>1. i - k \in 1..Len(t) /\ k + (i - k) = i
      BY <1>1, <1>4
    <3> QED BY <3>1, <1>2
  <2>2. ASSUME NEW i \in 1..Len(t) PROVE k + i \in (k + 1)..Len(s) /\ t[i] = s[k + i]
    BY <1>1, <1>4, <1>2
  <2>3. \A i \in (k + 1)..Len(s) : s[i] \in {t[j] : j \in 1..Len(t)}
    BY <2>1
  <2>4. \A i \in 1..Len(t) : t[i] \in {s[j] : j \in (k + 1)..Len(s)}
    BY <2>2
  <2> QED BY <2>3, <2>4
<1>7. ToSet(t) = Stretch(s, k + 1, Len(s))
  BY <1>5, <1>6 DEF Stretch
<1> QED BY <1>1, <1>3, <1>7 DEF t

\* The length of a sequence without repetitions.
LEMMA LenIsCardinality ==
  ASSUME NEW E, NEW s \in Seq(E)
  PROVE  /\ IsFiniteSet(ToSet(s))
         /\ Cardinality(ToSet(s)) <= Len(s)
         /\ IsInjective(s) => Cardinality(ToSet(s)) = Len(s)
<1>1. Len(s) \in Nat /\ s \in [1..Len(s) -> E]
  OBVIOUS
<1>2. IsFiniteSet(1..Len(s)) /\ Cardinality(1..Len(s)) = Len(s)
  BY <1>1, FS_Interval
<1>3. ToSet(s) = {s[i] : i \in 1..Len(s)}
        /\ (IsInjective(s) <=> \A i, j \in 1..Len(s) : s[i] = s[j] => i = j)
  BY ToSetFacts
<1>4. s \in Surjection(1..Len(s), ToSet(s))
  BY <1>1, <1>3 DEF Surjection
<1>5. IsFiniteSet(ToSet(s)) /\ Cardinality(ToSet(s)) <= Len(s)
  BY <1>2, <1>4, FS_Surjection
<1>6. ASSUME IsInjective(s) PROVE Cardinality(ToSet(s)) = Len(s)
  <2>1. s \in Injection(1..Len(s), ToSet(s))
    BY <1>1, <1>3, <1>4, <1>6 DEF Injection, Surjection, IsInjective
  <2>2. Cardinality(1..Len(s)) = Cardinality(ToSet(s))
    BY <1>2, <1>4, <2>1, FS_Surjection
  <2> QED BY <2>2, <1>2
<1> QED BY <1>5, <1>6

\* Kept keeps what is in the set, in its order.
LEMMA KeptFacts ==
  ASSUME NEW E, NEW s \in Seq(E), NEW T
  PROVE  /\ Kept(s, T) \in Seq(E)
         /\ ToSet(Kept(s, T)) = ToSet(s) \intersect T
         /\ IsInjective(s) => IsInjective(Kept(s, T))
<1> DEFINE N == Len(s)
           step == [x \in (1..N) \X Seq(E) |-> IF s[x[1]] \in T THEN Append(x[2], s[x[1]]) ELSE x[2]]
<1>1. N \in Nat /\ \A i \in 1..N : s[i] \in E
  OBVIOUS
<1>2. step \in [(1..N) \X Seq(E) -> Seq(E)]
  <2>1. ASSUME NEW x \in (1..N) \X Seq(E)
        PROVE  (IF s[x[1]] \in T THEN Append(x[2], s[x[1]]) ELSE x[2]) \in Seq(E)
    <3>1. s[x[1]] \in E /\ x[2] \in Seq(E)
      BY <1>1
    <3> QED BY <3>1
  <2> QED BY <2>1
<1>3. \A i \in 1..N, q \in Seq(E) : step[<<i, q>>] = IF s[i] \in T THEN Append(q, s[i]) ELSE q
  OBVIOUS
<1>4. <<>> \in Seq(E)
  OBVIOUS
<1>5. PICK f \in [0..N -> Seq(E)] : f[0] = <<>> /\ \A i \in 1..N : f[i] = step[<<i, f[i - 1]>>]
  <2> HIDE DEF step, N
  <2>1. \E f : Unrolled(f, Seq(E), N, <<>>, step)
    BY <1>1, <1>2, <1>4, LoopUnrolls, Zenon
  <2> QED BY <2>1, Zenon DEF Unrolled
<1>6. \A i \in 1..N : f[i - 1] \in Seq(E)
  OBVIOUS
<1>7. \A i \in 1..N : f[i] = IF s[i] \in T THEN Append(f[i - 1], s[i]) ELSE f[i - 1]
  BY <1>3, <1>5, <1>6
<1> HIDE DEF step
<1> DEFINE Def(g) == g = [i \in 0..N |->
                           IF i = 0 THEN <<>>
                           ELSE IF s[i] \in T THEN Append(g[i - 1], s[i]) ELSE g[i - 1]]
           kept == CHOOSE g : Def(g)
<1>8. Def(f)
  <2> DEFINE r == [i \in 0..N |-> IF i = 0 THEN <<>>
                                  ELSE IF s[i] \in T THEN Append(f[i - 1], s[i]) ELSE f[i - 1]]
  <2>1. ASSUME NEW i \in 0..N PROVE f[i] = r[i]
    <3>1. CASE i = 0
      BY <3>1, <1>5
    <3>2. CASE i # 0
      <4>1. i \in 1..N
        BY <3>2, <1>1
      <4> QED BY <3>2, <4>1, <1>7, Zenon
    <3> QED BY <3>1, <3>2, Zenon
  <2> QED BY <2>1, Zenon
<1>9. Def(kept)
  BY <1>8, Zenon
<1>10. Kept(s, T) = kept[N]
  BY Zenon DEF Kept
<1> HIDE DEF kept
<1>11. kept[0] = <<>> /\ \A i \in 1..N : kept[i] = IF s[i] \in T THEN Append(kept[i - 1], s[i]) ELSE kept[i - 1]
  <2>1. 0 \in 0..N /\ \A i \in 1..N : i \in 0..N /\ i # 0
    BY <1>1
  <2>2. \A i \in 0..N : kept[i] = IF i = 0 THEN <<>>
                                 ELSE IF s[i] \in T THEN Append(kept[i - 1], s[i]) ELSE kept[i - 1]
    BY <1>9, Zenon
  <2> HIDE DEF Def, N
  <2>3. kept[0] = <<>>
    BY <2>1, <2>2
  <2>4. \A i \in 1..N : kept[i] = IF s[i] \in T THEN Append(kept[i - 1], s[i]) ELSE kept[i - 1]
    BY <2>1, <2>2
  <2> QED BY <2>3, <2>4
<1> HIDE DEF Def
<1> DEFINE G == {i \in 0..N : /\ kept[i] = f[i]
                              /\ \A x : x \in ToSet(f[i]) <=> x \in T /\ \E j \in 1..i : s[j] = x
                              /\ IsInjective(s) => IsInjective(f[i])}
<1>12. 0 \in G
  BY <1>5, <1>11, ToSetFacts
<1>13. ASSUME NEW n \in 1..N, n - 1 \in G PROVE n \in G
  <2>1. n \in 0..N /\ n - 1 \in 0..N /\ f[n - 1] \in Seq(E) /\ s[n] \in E
    BY <1>1
  <2>2. kept[n] = f[n]
    BY <1>7, <1>11, <1>13
  <2>3. \A x : (\E j \in 1..n : s[j] = x) <=> (s[n] = x \/ \E j \in 1..(n - 1) : s[j] = x)
    BY <1>1
  <2>4. CASE s[n] \in T
    <3>1. f[n] = Append(f[n - 1], s[n])
      BY <1>7, <2>4
    <3>2. ToSet(f[n]) = ToSet(f[n - 1]) \union {s[n]}
      BY <2>1, <3>1, AppendFacts
    <3>3. \A x : x \in ToSet(f[n]) <=> x \in T /\ \E j \in 1..n : s[j] = x
      BY <1>13, <2>3, <2>4, <3>2
    <3>4. ASSUME IsInjective(s) PROVE IsInjective(f[n])
      <4>1. \A j \in 1..(n - 1) : s[j] # s[n]
        <5>1. \A i, j \in 1..N : s[i] = s[j] => i = j
          BY <3>4, ToSetFacts
        <5> QED BY <5>1
      <4>2. s[n] \notin ToSet(f[n - 1]) /\ IsInjective(f[n - 1])
        BY <4>1, <1>13, <3>4
      <4> QED BY <2>1, <3>1, <4>2, AppendFacts
    <3> QED BY <2>1, <2>2, <3>3, <3>4
  <2>5. CASE s[n] \notin T
    <3>1. f[n] = f[n - 1]
      BY <1>7, <2>5
    <3>2. \A x : x \in ToSet(f[n]) <=> x \in T /\ \E j \in 1..n : s[j] = x
      BY <1>13, <2>3, <2>5, <3>1
    <3> QED BY <1>13, <2>1, <2>2, <3>1, <3>2
  <2> QED BY <2>4, <2>5
<1>14. N \in G
  <2> HIDE DEF G, N
  <2>1. \A n \in 0..N : n \in G
    BY <1>1, <1>12, <1>13, UpTo
  <2> QED BY <2>1, <1>1
<1>15. Kept(s, T) = f[N] /\ f[N] \in Seq(E) /\ (IsInjective(s) => IsInjective(f[N]))
  BY <1>10, <1>14, <1>1
<1>16. ToSet(f[N]) = ToSet(s) \intersect T
  <2>1. ToSet(s) = {s[i] : i \in 1..N}
    BY ToSetFacts
  <2>2. \A x : x \in ToSet(f[N]) <=> x \in T /\ \E j \in 1..N : s[j] = x
    BY <1>14
  <2> QED BY <2>1, <2>2
<1> QED BY <1>15, <1>16

\* The misses are what was visited and is not resident, each once.
LEMMA MissesFacts ==
  ASSUME NEW es \in Seq(Entry)
  PROVE  /\ Misses(es) \in Seq(Entry)
         /\ ToSet(Misses(es)) = ToSet(es) \ valid
         /\ IsInjective(Misses(es))
<1> DEFINE E == Entry
           N == Len(es)
           step == [x \in (1..N) \X Seq(E) |->
                       IF es[x[1]] \in valid \union ToSet(x[2]) THEN x[2] ELSE Append(x[2], es[x[1]])]
<1>1. N \in Nat /\ \A i \in 1..N : es[i] \in E
  OBVIOUS
<1>2. step \in [(1..N) \X Seq(E) -> Seq(E)]
  <2>1. ASSUME NEW x \in (1..N) \X Seq(E)
        PROVE  (IF es[x[1]] \in valid \union ToSet(x[2]) THEN x[2] ELSE Append(x[2], es[x[1]])) \in Seq(E)
    <3>1. es[x[1]] \in E /\ x[2] \in Seq(E)
      BY <1>1
    <3> QED BY <3>1
  <2> HIDE DEF E
  <2> QED BY <2>1
<1>3. \A i \in 1..N, q \in Seq(E) :
         step[<<i, q>>] = IF es[i] \in valid \union ToSet(q) THEN q ELSE Append(q, es[i])
  <2> HIDE DEF E
  <2> QED OBVIOUS
<1>4. <<>> \in Seq(E)
  OBVIOUS
<1>5. PICK f \in [0..N -> Seq(E)] : f[0] = <<>> /\ \A i \in 1..N : f[i] = step[<<i, f[i - 1]>>]
  <2> HIDE DEF step, N, E
  <2>1. \E f : Unrolled(f, Seq(E), N, <<>>, step)
    BY <1>1, <1>2, <1>4, LoopUnrolls, Zenon
  <2> QED BY <2>1, Zenon DEF Unrolled
<1>6. \A i \in 1..N : f[i - 1] \in Seq(E)
  <2> HIDE DEF E
  <2> QED OBVIOUS
<1>7. \A i \in 1..N : f[i] = IF es[i] \in valid \union ToSet(f[i - 1]) THEN f[i - 1]
                             ELSE Append(f[i - 1], es[i])
  BY <1>3, <1>5, <1>6
<1> HIDE DEF step
<1> DEFINE Def(g) == g = [i \in 0..N |->
                           IF i = 0 THEN <<>>
                           ELSE IF es[i] \in valid \union ToSet(g[i - 1]) THEN g[i - 1]
                           ELSE Append(g[i - 1], es[i])]
           new == CHOOSE g : Def(g)
<1>8. Def(f)
  <2> HIDE DEF E
  <2> DEFINE r == [i \in 0..N |->
                     IF i = 0 THEN <<>>
                     ELSE IF es[i] \in valid \union ToSet(f[i - 1]) THEN f[i - 1]
                     ELSE Append(f[i - 1], es[i])]
  <2>1. ASSUME NEW i \in 0..N PROVE f[i] = r[i]
    <3>1. CASE i = 0
      BY <3>1, <1>5
    <3>2. CASE i # 0
      <4>1. i \in 1..N
        BY <3>2, <1>1
      <4> QED BY <3>2, <4>1, <1>7, Zenon
    <3> QED BY <3>1, <3>2, Zenon
  <2> QED BY <2>1, Zenon
<1>9. Def(new)
  BY <1>8, Zenon
<1>10. Misses(es) = new[N]
  BY Zenon DEF Misses
<1> HIDE DEF new
<1>11. new[0] = <<>> /\ \A i \in 1..N : new[i] = IF es[i] \in valid \union ToSet(new[i - 1]) THEN new[i - 1]
                                                  ELSE Append(new[i - 1], es[i])
  <2>1. 0 \in 0..N /\ \A i \in 1..N : i \in 0..N /\ i # 0
    BY <1>1
  <2>2. \A i \in 0..N : new[i] = IF i = 0 THEN <<>>
                                ELSE IF es[i] \in valid \union ToSet(new[i - 1]) THEN new[i - 1]
                                ELSE Append(new[i - 1], es[i])
    BY <1>9, Zenon
  <2> HIDE DEF Def, N
  <2>3. new[0] = <<>>
    BY <2>1, <2>2
  <2>4. \A i \in 1..N : new[i] = IF es[i] \in valid \union ToSet(new[i - 1]) THEN new[i - 1]
                                 ELSE Append(new[i - 1], es[i])
    BY <2>1, <2>2
  <2> QED BY <2>3, <2>4
<1> HIDE DEF Def, E
<1> DEFINE G == {i \in 0..N : /\ new[i] = f[i]
                              /\ \A x : x \in ToSet(f[i]) <=> x \notin valid /\ \E j \in 1..i : es[j] = x
                              /\ IsInjective(f[i])}
<1>12. 0 \in G
  BY <1>5, <1>11, ToSetFacts
<1>13. ASSUME NEW n \in 1..N, n - 1 \in G PROVE n \in G
  <2>1. n \in 0..N /\ n - 1 \in 0..N /\ f[n - 1] \in Seq(E) /\ es[n] \in E
    <3>1. n \in 0..N /\ n - 1 \in 0..N
      BY <1>1
    <3>2. f[n - 1] \in Seq(E)
      BY <3>1
    <3> QED BY <1>1, <3>1, <3>2
  <2>2. new[n] = f[n]
    BY <1>7, <1>11, <1>13
  <2>3. \A x : (\E j \in 1..n : es[j] = x) <=> (es[n] = x \/ \E j \in 1..(n - 1) : es[j] = x)
    BY <1>1
  <2>4. CASE es[n] \notin valid \union ToSet(f[n - 1])
    <3>1. f[n] = Append(f[n - 1], es[n])
      BY <1>7, <2>4
    <3>2. ToSet(f[n]) = ToSet(f[n - 1]) \union {es[n]}
      BY <2>1, <3>1, AppendFacts
    <3>3. \A x : x \in ToSet(f[n]) <=> x \notin valid /\ \E j \in 1..n : es[j] = x
      BY <1>13, <2>3, <2>4, <3>2
    <3>4. IsInjective(f[n])
      BY <1>13, <2>1, <2>4, <3>1, AppendFacts
    <3> QED BY <2>1, <2>2, <3>3, <3>4
  <2>5. CASE es[n] \in valid \union ToSet(f[n - 1])
    <3>1. f[n] = f[n - 1]
      BY <1>7, <2>5
    <3>2. \A x : x \in ToSet(f[n]) <=> x \notin valid /\ \E j \in 1..n : es[j] = x
      BY <1>13, <2>3, <2>5, <3>1
    <3> QED BY <1>13, <2>1, <2>2, <3>1, <3>2
  <2> QED BY <2>4, <2>5
<1>14. N \in G
  <2> HIDE DEF G, N
  <2>1. \A n \in 0..N : n \in G
    BY <1>1, <1>12, <1>13, UpTo
  <2> QED BY <2>1, <1>1
<1>15. Misses(es) = f[N] /\ f[N] \in Seq(E) /\ IsInjective(f[N])
  BY <1>10, <1>14, <1>1
<1>16. ToSet(f[N]) = ToSet(es) \ valid
  <2>1. ToSet(es) = {es[i] : i \in 1..N}
    BY ToSetFacts DEF E
  <2>2. \A x : x \in ToSet(f[N]) <=> x \notin valid /\ \E j \in 1..N : es[j] = x
    BY <1>14
  <2> QED BY <2>1, <2>2
<1> QED BY <1>15, <1>16 DEF E

\* A promoted entry comes first; an entry that is linked twice, or not at all, is a
\* different matter.
LEMMA PromoteFacts ==
  ASSUME NEW E, NEW s \in Seq(E), NEW e \in E
  PROVE  /\ Promote(s, e) \in Seq(E)
         /\ PushFront(s, e) \in Seq(E)
         /\ ToSet(PushFront(s, e)) = ToSet(s) \union {e}
         /\ IsInjective(PushFront(s, e)) <=> IsInjective(s) /\ e \notin ToSet(s)
         /\ IsInjective(s) /\ e \in ToSet(s) =>
               ToSet(Promote(s, e)) = ToSet(s) /\ IsInjective(Promote(s, e))
<1> DEFINE h == <<e>>
<1>1. h \in Seq(E) /\ ToSet(h) = {e} /\ IsInjective(h)
  BY DEF ToSet, IsInjective
<1>2. PushFront(s, e) = h \o s
  BY DEF PushFront
<1> HIDE DEF h
<1>3. /\ h \o s \in Seq(E)
      /\ ToSet(h \o s) = {e} \union ToSet(s)
      /\ IsInjective(h \o s) <=> IsInjective(s) /\ {e} \intersect ToSet(s) = {}
  BY <1>1, ConcatFacts
<1>4. CASE e \notin ToSet(s)
  <2>1. Unlink(s, e) = <<>>
    BY <1>4 DEF Unlink
  <2>2. Promote(s, e) = h \o <<>>
    BY <2>1 DEF Promote, PushFront, h
  <2>3. h \o <<>> \in Seq(E)
    BY <1>1
  <2> QED BY <1>2, <1>3, <1>4, <2>2, <2>3
<1>5. CASE e \in ToSet(s)
  <2> DEFINE i == CHOOSE j \in DOMAIN s : s[j] = e
             a == SubSeq(s, 1, i - 1)
             b == SubSeq(s, i + 1, Len(s))
  <2>1. i \in 1..Len(s) /\ s[i] = e /\ Len(s) \in Nat
    BY <1>5 DEF ToSet
  <2>2. Unlink(s, e) = a \o b
    BY <1>5 DEF Unlink, RemoveAt
  <2> HIDE DEF i
  <2>3. i - 1 \in 0..Len(s) /\ i \in 0..Len(s) /\ (i - 1) + 1 = i
    BY <2>1
  <2>4. /\ a \in Seq(E) /\ Len(a) = i - 1 /\ b \in Seq(E)
        /\ \A k \in 1..(i - 1) : a[k] = s[k]
        /\ ToSet(b) = {s[k] : k \in (i + 1)..Len(s)}
        /\ s = SubSeq(s, 1, i) \o b /\ SubSeq(s, 1, i) \in Seq(E)
    <3>1. a \in Seq(E) /\ Len(a) = i - 1
      BY <2>3, CutFacts
    <3>2. \A k \in 1..(i - 1) : a[k] = s[k]
      BY <2>1
    <3>3. /\ b \in Seq(E) /\ ToSet(b) = {s[k] : k \in (i + 1)..Len(s)}
          /\ s = SubSeq(s, 1, i) \o b /\ SubSeq(s, 1, i) \in Seq(E)
      <4>1. i \in 0..Len(s)
        BY <2>3
      <4>2. /\ SubSeq(s, 1, i) \in Seq(E) /\ SubSeq(s, i + 1, Len(s)) \in Seq(E)
            /\ s = SubSeq(s, 1, i) \o SubSeq(s, i + 1, Len(s))
            /\ ToSet(SubSeq(s, i + 1, Len(s))) = Stretch(s, i + 1, Len(s))
        BY <4>1, CutFacts, Zenon
      <4> QED BY <4>2 DEF Stretch
    <3> QED BY <3>1, <3>2, <3>3
  <2> DEFINE c == SubSeq(s, i, Len(s))
  <2>5. s = a \o c /\ c \in Seq(E)
    BY <2>3, CutFacts
  <2> HIDE DEF a, b, c
  <2>6. a \o b \in Seq(E) /\ ToSet(a \o b) = ToSet(a) \union ToSet(b)
        /\ (IsInjective(a \o b) <=> IsInjective(a) /\ IsInjective(b) /\ ToSet(a) \intersect ToSet(b) = {})
    BY <2>4, ConcatFacts
  <2>7. ToSet(a) = {s[k] : k \in 1..(i - 1)}
    <3>1. ToSet(a) = {a[k] : k \in 1..Len(a)}
      BY <2>4, ToSetFacts
    <3> QED BY <3>1, <2>4
  <2>8. ToSet(s) = {s[k] : k \in 1..Len(s)}
        /\ (IsInjective(s) <=> \A k, l \in 1..Len(s) : s[k] = s[l] => k = l)
    BY ToSetFacts
  <2>9. ToSet(s) = ToSet(a) \union {e} \union ToSet(b)
    <3>1. \A k \in 1..Len(s) : k \in 1..(i - 1) \/ k = i \/ k \in (i + 1)..Len(s)
      BY <2>1
    <3>2. \A x \in ToSet(s) : x \in ToSet(a) \union {e} \union ToSet(b)
      BY <3>1, <2>1, <2>4, <2>7, <2>8
    <3>3. \A k \in 1..(i - 1) : k \in 1..Len(s)
      BY <2>1
    <3>4. \A k \in (i + 1)..Len(s) : k \in 1..Len(s)
      BY <2>1
    <3>5. \A x \in ToSet(a) \union ToSet(b) : x \in ToSet(s)
      BY <3>3, <3>4, <2>4, <2>7, <2>8
    <3> QED BY <3>2, <3>5, <1>5
  <2>10. ASSUME IsInjective(s)
         PROVE  /\ e \notin ToSet(a \o b) /\ IsInjective(a \o b)
    <3>1. IsInjective(a)
      BY <2>4, <2>5, <2>10, ConcatFacts
    <3>2. IsInjective(b)
      <4> DEFINE d == SubSeq(s, 1, i)
      <4>1. d \in Seq(E) /\ b \in Seq(E) /\ s = d \o b
        BY <2>4
      <4> HIDE DEF d
      <4>2. IsInjective(d \o b) => IsInjective(b)
        BY <4>1, ConcatFacts
      <4> QED BY <4>1, <4>2, <2>10
    <3>3. ASSUME NEW k \in 1..(i - 1), NEW l \in (i + 1)..Len(s) PROVE s[k] # s[l] /\ s[k] # e /\ s[l] # e
      <4>1. k \in 1..Len(s) /\ l \in 1..Len(s) /\ k # l /\ k # i /\ l # i
        BY <2>1
      <4> QED BY <4>1, <2>1, <2>8, <2>10
    <3>4. ToSet(a) \intersect ToSet(b) = {}
      BY <3>3, <2>4, <2>7
    <3>5. \A k \in 1..(i - 1) : s[k] # e
      <4> TAKE k \in 1..(i - 1)
      <4>1. k \in 1..Len(s) /\ k # i
        BY <2>1
      <4> QED BY <4>1, <2>1, <2>8, <2>10
    <3>6. \A k \in (i + 1)..Len(s) : s[k] # e
      <4> TAKE k \in (i + 1)..Len(s)
      <4>1. k \in 1..Len(s) /\ k # i
        BY <2>1
      <4> QED BY <4>1, <2>1, <2>8, <2>10
    <3>7. e \notin ToSet(a) /\ e \notin ToSet(b)
      BY <3>5, <3>6, <2>4, <2>7
    <3> QED BY <2>6, <3>1, <3>2, <3>4, <3>7
  <2>11. Promote(s, e) = h \o (a \o b)
    BY <2>2 DEF Promote, PushFront, h
  <2>12. /\ h \o (a \o b) \in Seq(E)
         /\ ToSet(h \o (a \o b)) = {e} \union ToSet(a \o b)
         /\ IsInjective(h \o (a \o b)) <=> IsInjective(a \o b) /\ {e} \intersect ToSet(a \o b) = {}
    <3>1. ASSUME NEW t \in Seq(E)
          PROVE  /\ h \o t \in Seq(E)
                 /\ ToSet(h \o t) = {e} \union ToSet(t)
                 /\ IsInjective(h \o t) <=> IsInjective(t) /\ {e} \intersect ToSet(t) = {}
      BY <1>1, ConcatFacts
    <3> QED BY <2>6, <3>1, Zenon
  <2>13. IsInjective(s) => ToSet(Promote(s, e)) = ToSet(s) /\ IsInjective(Promote(s, e))
    BY <2>6, <2>9, <2>10, <2>11, <2>12
  <2> QED BY <1>2, <1>3, <2>11, <2>12, <2>13
<1> QED BY <1>4, <1>5

\* What a fold does to the sets of its positions.
Folded(g, R, N, base, step) ==
    /\ g \in [SUBSET (1..N) -> R]
    /\ \A S \in SUBSET (1..N) : g[S] = IF S = {} THEN base ELSE step[<<Max(S), g[S \ {Max(S)}]>>]

\* The largest of a set of positions.
LEMMA MaxOfPrefix ==
  ASSUME NEW n \in Nat, NEW S \in SUBSET (1..n), n \in S
  PROVE  Max(S) = n
<1>1. \A y \in S : n >= y
  OBVIOUS
<1>2. Max(S) \in S /\ \A y \in S : Max(S) >= y
  BY <1>1 DEF Max
<1> DEFINE m == Max(S)
<1> HIDE DEF m
<1>3. m \in S /\ m >= n
  BY <1>2 DEF m
<1>4. m \in Nat /\ n >= m
  BY <1>3
<1>5. m = n
  BY <1>3, <1>4
<1> QED BY <1>5 DEF m

\* The function a fold is defined by exists.
LEMMA FoldExists ==
  ASSUME NEW R, NEW N \in Nat, NEW base \in R, NEW step \in [(1..N) \X R -> R]
  PROVE  \E g : Folded(g, R, N, base, step)
<1> DEFINE G == {n \in 0..N : \E g : Folded(g, R, n, base, step)}
<1>1. 0 \in G
  <2> DEFINE g == [S \in SUBSET (1..0) |-> base]
  <2>1. SUBSET (1..0) = {{}}
    OBVIOUS
  <2>2. g \in [SUBSET (1..0) -> R]
    OBVIOUS
  <2>3. \A S \in SUBSET (1..0) : S = {} /\ g[S] = base
    BY <2>1
  <2> HIDE DEF g
  <2>4. Folded(g, R, 0, base, step)
    BY <2>2, <2>3 DEF Folded
  <2>5. 0 \in 0..N
    OBVIOUS
  <2> QED BY <2>4, <2>5, Zenon
<1>2. ASSUME NEW n \in 1..N, n - 1 \in G PROVE n \in G
  <2>1. PICK g : Folded(g, R, n - 1, base, step)
    BY <1>2, Zenon
  <2>2. n \in Nat /\ n \in 0..N /\ n - 1 \in 0..N
    OBVIOUS
  <2> DEFINE P == SUBSET (1..(n - 1))
             Q == SUBSET (1..n)
             h == [S \in Q |-> IF n \in S THEN step[<<n, g[S \ {n}]>>] ELSE g[S]]
  <2>3. \A S \in Q : S \ {n} \in P /\ (n \notin S => S \in P)
    <3> SUFFICES ASSUME NEW S \in Q, NEW x \in S, x # n PROVE x \in 1..(n - 1)
      OBVIOUS
    <3> QED OBVIOUS
  <2>4. \A S \in P : g[S] \in R
    BY <2>1 DEF Folded
  <2>5. ASSUME NEW S \in Q PROVE (IF n \in S THEN step[<<n, g[S \ {n}]>>] ELSE g[S]) \in R
    <3>1. g[S \ {n}] \in R
      BY <2>3, <2>4
    <3>2. step[<<n, g[S \ {n}]>>] \in R
      BY <3>1
    <3>3. n \notin S => g[S] \in R
      BY <2>3, <2>4
    <3> QED BY <3>2, <3>3
  <2>6. h \in [Q -> R]
    BY <2>5
  <2>7. \A S \in Q : h[S] = IF n \in S THEN step[<<n, g[S \ {n}]>>] ELSE g[S]
    OBVIOUS
  <2> HIDE DEF h
  <2>8. ASSUME NEW S \in Q
        PROVE  h[S] = IF S = {} THEN base ELSE step[<<Max(S), h[S \ {Max(S)}]>>]
    <3>1. CASE n \in S
      <4>1. Max(S) = n
        BY <2>2, <3>1, MaxOfPrefix
      <4>2. S \ {n} \in Q /\ n \notin S \ {n}
        OBVIOUS
      <4>3. h[S \ {n}] = g[S \ {n}]
        BY <2>7, <4>2
      <4> QED BY <2>7, <3>1, <4>1, <4>3
    <3>2. CASE S = {}
      <4>1. S \in P /\ n \notin S
        BY <3>2
      <4>2. g[S] = base
        BY <2>1, <4>1, <3>2 DEF Folded
      <4> QED BY <2>7, <3>2, <4>1, <4>2
    <3>3. CASE n \notin S /\ S # {}
      <4>1. S \in P
        BY <2>3, <3>3
      <4>2. g[S] = step[<<Max(S), g[S \ {Max(S)}]>>]
        BY <2>1, <3>3, <4>1 DEF Folded
      <4>3. S \ {Max(S)} \in Q /\ n \notin S \ {Max(S)}
        BY <3>3
      <4>4. h[S \ {Max(S)}] = g[S \ {Max(S)}]
        BY <2>7, <4>3
      <4> QED BY <2>7, <3>3, <4>2, <4>4
    <3> QED BY <3>1, <3>2, <3>3
  <2>9. Folded(h, R, n, base, step)
    BY <2>6, <2>8 DEF Folded
  <2> QED BY <2>2, <2>9, Zenon
<1>3. N \in G
  <2> HIDE DEF G
  <2>1. \A n \in 0..N : n \in G
    BY <1>1, <1>2, UpTo
  <2> QED BY <2>1
<1> QED BY <1>3

\* A set of positions has a largest one.
LEMMA MaxIsAPosition ==
  ASSUME NEW n \in Nat, NEW S \in SUBSET (1..n), S # {}
  PROVE  Max(S) \in S
<1> DEFINE P == {b \in Nat : \A y \in S : b >= y}
<1>1. P \in SUBSET Nat /\ n \in P
  OBVIOUS
<1>2. PICK b \in P : \A m \in P : b <= m
  BY <1>1, LeastNumber
<1>3. b \in Nat /\ \A y \in S : b >= y
  BY <1>2
<1>4. b \in S
  <2> SUFFICES ASSUME b \notin S PROVE FALSE
    OBVIOUS
  <2>1. PICK z : z \in S
    OBVIOUS
  <2>2. b - 1 \in Nat
    BY <1>3, <2>1
  <2>3. \A y \in S : b - 1 >= y
    <3> TAKE y \in S
    <3>1. y \in Nat /\ b >= y /\ y # b
      BY <1>3
    <3> QED BY <3>1, <1>3
  <2>4. b - 1 \in P
    BY <2>2, <2>3
  <2>5. b <= b - 1
    BY <1>2, <2>4
  <2> QED BY <2>5, <1>3
<1>5. \E x \in S : \A y \in S : x >= y
  BY <1>3, <1>4
<1> QED BY <1>5 DEF Max

\* Promoting entries that are linked rearranges the list.
LEMMA PromoteAllFacts ==
  ASSUME NEW E, NEW s \in Seq(E), NEW es \in Seq(E)
  PROVE  /\ PromoteAll(s, es) \in Seq(E)
         /\ IsInjective(s) /\ ToSet(es) \subseteq ToSet(s) =>
               ToSet(PromoteAll(s, es)) = ToSet(s) /\ IsInjective(PromoteAll(s, es))
<1> DEFINE N == Len(es)
           step == [x \in (1..N) \X Seq(E) |-> Promote(x[2], es[x[1]])]
<1>1. N \in Nat /\ DOMAIN es = 1..N /\ \A i \in 1..N : es[i] \in E
  OBVIOUS
<1>2. \A q \in Seq(E), e \in E : Promote(q, e) \in Seq(E)
  BY PromoteFacts
<1>3. step \in [(1..N) \X Seq(E) -> Seq(E)]
  <2>1. ASSUME NEW x \in (1..N) \X Seq(E) PROVE Promote(x[2], es[x[1]]) \in Seq(E)
    <3>1. es[x[1]] \in E /\ x[2] \in Seq(E)
      BY <1>1
    <3> QED BY <3>1, <1>2
  <2> QED BY <2>1
<1>4. \A i \in 1..N, q \in Seq(E) : step[<<i, q>>] = Promote(q, es[i])
  OBVIOUS
<1>5. PICK f \in [0..N -> Seq(E)] : f[0] = s /\ \A i \in 1..N : f[i] = step[<<i, f[i - 1]>>]
  <2> HIDE DEF step, N
  <2>1. \E f : Unrolled(f, Seq(E), N, s, step)
    BY <1>1, <1>3, LoopUnrolls, Zenon
  <2> QED BY <2>1, Zenon DEF Unrolled
<1>6. \A i \in 1..N : i \in 0..N /\ i - 1 \in 0..N /\ f[i - 1] \in Seq(E)
  <2> HIDE DEF step, N
  <2>1. ASSUME NEW i \in 1..N PROVE i \in 0..N /\ i - 1 \in 0..N
    BY <1>1
  <2> QED BY <2>1, <1>5
<1>7. \A i \in 1..N : f[i] = Promote(f[i - 1], es[i])
  <2> HIDE DEF step, N
  <2> QED BY <1>4, <1>5, <1>6
<1> DEFINE Def(g) == g = [S \in SUBSET DOMAIN es |->
                           IF S = {} THEN s ELSE Promote(g[S \ {Max(S)}], es[Max(S)])]
           iter == CHOOSE g : Def(g)
<1>8. PICK g : Folded(g, Seq(E), N, s, step)
  <2> HIDE DEF step, N
  <2> QED BY <1>1, <1>3, FoldExists, Zenon
<1>9. Def(g)
  <2> HIDE DEF step, N
  <2>1. g \in [SUBSET (1..N) -> Seq(E)]
    BY <1>8 DEF Folded
  <2>2. ASSUME NEW S \in SUBSET (1..N)
        PROVE  g[S] = IF S = {} THEN s ELSE Promote(g[S \ {Max(S)}], es[Max(S)])
    <3>1. CASE S = {}
      BY <3>1, <1>8 DEF Folded
    <3>2. CASE S # {}
      <4>1. Max(S) \in S
        BY <1>1, <3>2, MaxIsAPosition
      <4>2. Max(S) \in 1..N /\ S \ {Max(S)} \in SUBSET (1..N)
        BY <4>1
      <4>3. g[S \ {Max(S)}] \in Seq(E)
        BY <2>1, <4>2
      <4>4. g[S] = step[<<Max(S), g[S \ {Max(S)}]>>]
        BY <3>2, <1>8 DEF Folded
      <4>5. g[S] = Promote(g[S \ {Max(S)}], es[Max(S)])
        BY <4>2, <4>3, <4>4, <1>4, Zenon
      <4> QED BY <3>2, <4>5
    <3> QED BY <3>1, <3>2, Zenon
  <2>3. g = [S \in SUBSET (1..N) |-> g[S]]
    BY <2>1
  <2>4. g = [S \in SUBSET (1..N) |->
               IF S = {} THEN s ELSE Promote(g[S \ {Max(S)}], es[Max(S)])]
    BY <2>2, <2>3, Zenon
  <2> QED BY <2>4, <1>1, Zenon
<1>10. Def(iter)
  BY <1>9, Zenon
<1>11. PromoteAll(s, es) = iter[DOMAIN es]
  BY Zenon DEF PromoteAll, FoldLeft, MapThenFoldSet
<1> HIDE DEF iter, step
<1>12. \A S \in SUBSET DOMAIN es :
          iter[S] = IF S = {} THEN s ELSE Promote(iter[S \ {Max(S)}], es[Max(S)])
  BY <1>10, Zenon
<1> HIDE DEF Def
<1>13. iter[1..0] = s
  <2>1. 1..0 = {}
    OBVIOUS
  <2> QED BY <2>1, <1>12
<1>14. ASSUME NEW i \in 1..N PROVE iter[1..i] = Promote(iter[1..(i - 1)], es[i])
  <2>1. i \in Nat /\ i \in 1..i /\ 1..i \in SUBSET (1..i) /\ 1..i \in SUBSET DOMAIN es /\ 1..i # {}
    <3>1. i \in Nat /\ i \in 1..i
      BY <1>1
    <3>2. \A j \in 1..i : j \in 1..N
      BY <1>1
    <3> QED BY <1>1, <3>1, <3>2
  <2>2. Max(1..i) = i
    BY <2>1, MaxOfPrefix
  <2>3. (1..i) \ {i} = 1..(i - 1)
    BY <1>1
  <2> QED BY <1>12, <2>1, <2>2, <2>3
<1> DEFINE Good(i) == IsInjective(s) /\ ToSet(es) \subseteq ToSet(s) => ToSet(f[i]) = ToSet(s) /\ IsInjective(f[i])
           G == {i \in 0..N : iter[1..i] = f[i] /\ Good(i)}
<1>15. 0 \in G
  <2>1. Good(0)
    BY <1>5
  <2> QED BY <2>1, <1>1, <1>5, <1>13
<1>16. ASSUME NEW n \in 1..N, n - 1 \in G PROVE n \in G
  <2>1. iter[1..n] = f[n]
    BY <1>7, <1>14, <1>16
  <2>2. Good(n - 1) /\ f[n - 1] \in Seq(E) /\ es[n] \in E /\ f[n] = Promote(f[n - 1], es[n])
    BY <1>1, <1>6, <1>7, <1>16
  <2>3. Good(n)
    <3> SUFFICES ASSUME IsInjective(s), ToSet(es) \subseteq ToSet(s)
                 PROVE  ToSet(f[n]) = ToSet(s) /\ IsInjective(f[n])
      OBVIOUS
    <3>1. es[n] \in ToSet(es)
      BY <1>1 DEF ToSet
    <3>2. ToSet(f[n - 1]) = ToSet(s) /\ IsInjective(f[n - 1]) /\ es[n] \in ToSet(f[n - 1])
      BY <2>2, <3>1
    <3>3. \A q \in Seq(E), e \in E : IsInjective(q) /\ e \in ToSet(q) =>
             ToSet(Promote(q, e)) = ToSet(q) /\ IsInjective(Promote(q, e))
      BY PromoteFacts
    <3> QED BY <2>2, <3>2, <3>3
  <2> QED BY <2>1, <2>3, <1>6
<1>17. N \in G
  <2> HIDE DEF G, N
  <2>1. \A n \in 0..N : n \in G
    BY <1>1, <1>15, <1>16, UpTo
  <2> QED BY <2>1, <1>1
<1>18. PromoteAll(s, es) = f[N] /\ f[N] \in Seq(E) /\ Good(N)
  BY <1>1, <1>11, <1>17
<1> QED BY <1>18

\* Touching entries one after the other links those that were not.
LEMMA TouchFoldFacts ==
  ASSUME NEW E, NEW s \in Seq(E), NEW es \in Seq(E)
  PROVE  /\ FoldLeft(Touch, s, es) \in Seq(E)
         /\ IsInjective(s) /\ ToSet(s) = valid =>
               /\ ToSet(FoldLeft(Touch, s, es)) = valid \union ToSet(es)
               /\ IsInjective(FoldLeft(Touch, s, es))
<1> DEFINE N == Len(es)
           step == [x \in (1..N) \X Seq(E) |-> Touch(x[2], es[x[1]])]
<1>1. N \in Nat /\ DOMAIN es = 1..N /\ \A i \in 1..N : es[i] \in E
  OBVIOUS
<1>2. \A q \in Seq(E), e \in E : Touch(q, e) \in Seq(E)
  BY PromoteFacts DEF Touch
<1>3. step \in [(1..N) \X Seq(E) -> Seq(E)]
  <2>1. ASSUME NEW x \in (1..N) \X Seq(E) PROVE Touch(x[2], es[x[1]]) \in Seq(E)
    <3>1. es[x[1]] \in E /\ x[2] \in Seq(E)
      BY <1>1
    <3> QED BY <3>1, <1>2
  <2> QED BY <2>1
<1>4. \A i \in 1..N, q \in Seq(E) : step[<<i, q>>] = Touch(q, es[i])
  OBVIOUS
<1>5. PICK f \in [0..N -> Seq(E)] : f[0] = s /\ \A i \in 1..N : f[i] = step[<<i, f[i - 1]>>]
  <2> HIDE DEF step, N
  <2>1. \E f : Unrolled(f, Seq(E), N, s, step)
    BY <1>1, <1>3, LoopUnrolls, Zenon
  <2> QED BY <2>1, Zenon DEF Unrolled
<1>6. \A i \in 1..N : i \in 0..N /\ i - 1 \in 0..N /\ f[i - 1] \in Seq(E)
  <2> HIDE DEF step, N
  <2>1. ASSUME NEW i \in 1..N PROVE i \in 0..N /\ i - 1 \in 0..N
    BY <1>1
  <2> QED BY <2>1, <1>5
<1>7. \A i \in 1..N : f[i] = Touch(f[i - 1], es[i])
  <2> HIDE DEF step, N
  <2> QED BY <1>4, <1>5, <1>6
<1> DEFINE Def(g) == g = [S \in SUBSET DOMAIN es |->
                           IF S = {} THEN s ELSE Touch(g[S \ {Max(S)}], es[Max(S)])]
           iter == CHOOSE g : Def(g)
<1>8. PICK g : Folded(g, Seq(E), N, s, step)
  <2> HIDE DEF step, N
  <2> QED BY <1>1, <1>3, FoldExists, Zenon
<1>9. Def(g)
  <2> HIDE DEF step, N
  <2>1. g \in [SUBSET (1..N) -> Seq(E)]
    BY <1>8 DEF Folded
  <2>2. ASSUME NEW S \in SUBSET (1..N)
        PROVE  g[S] = IF S = {} THEN s ELSE Touch(g[S \ {Max(S)}], es[Max(S)])
    <3>1. CASE S = {}
      BY <3>1, <1>8 DEF Folded
    <3>2. CASE S # {}
      <4>1. Max(S) \in S
        BY <1>1, <3>2, MaxIsAPosition
      <4>2. Max(S) \in 1..N /\ S \ {Max(S)} \in SUBSET (1..N)
        BY <4>1
      <4>3. g[S \ {Max(S)}] \in Seq(E)
        BY <2>1, <4>2
      <4>4. g[S] = step[<<Max(S), g[S \ {Max(S)}]>>]
        BY <3>2, <1>8 DEF Folded
      <4>5. g[S] = Touch(g[S \ {Max(S)}], es[Max(S)])
        BY <4>2, <4>3, <4>4, <1>4, Zenon
      <4> QED BY <3>2, <4>5
    <3> QED BY <3>1, <3>2, Zenon
  <2>3. g = [S \in SUBSET (1..N) |-> g[S]]
    BY <2>1
  <2>4. g = [S \in SUBSET (1..N) |->
               IF S = {} THEN s ELSE Touch(g[S \ {Max(S)}], es[Max(S)])]
    BY <2>2, <2>3, Zenon
  <2> QED BY <2>4, <1>1, Zenon
<1>10. Def(iter)
  BY <1>9, Zenon
<1>11. FoldLeft(Touch, s, es) = iter[DOMAIN es]
  BY Zenon DEF FoldLeft, MapThenFoldSet
<1> HIDE DEF iter, step
<1>12. \A S \in SUBSET DOMAIN es :
          iter[S] = IF S = {} THEN s ELSE Touch(iter[S \ {Max(S)}], es[Max(S)])
  BY <1>10, Zenon
<1> HIDE DEF Def
<1>13. iter[1..0] = s
  <2>1. 1..0 = {}
    OBVIOUS
  <2> QED BY <2>1, <1>12
<1>14. ASSUME NEW i \in 1..N PROVE iter[1..i] = Touch(iter[1..(i - 1)], es[i])
  <2>1. i \in Nat /\ i \in 1..i /\ 1..i \in SUBSET (1..i) /\ 1..i \in SUBSET DOMAIN es /\ 1..i # {}
    <3>1. i \in Nat /\ i \in 1..i
      BY <1>1
    <3>2. \A j \in 1..i : j \in 1..N
      BY <1>1
    <3> QED BY <1>1, <3>1, <3>2
  <2>2. Max(1..i) = i
    BY <2>1, MaxOfPrefix
  <2>3. (1..i) \ {i} = 1..(i - 1)
    BY <1>1
  <2> QED BY <1>12, <2>1, <2>2, <2>3
<1> DEFINE Good(i) == IsInjective(s) /\ ToSet(s) = valid =>
                        /\ \A x : x \in ToSet(f[i]) <=> x \in valid \/ \E j \in 1..i : es[j] = x
                        /\ IsInjective(f[i])
           G == {i \in 0..N : iter[1..i] = f[i] /\ Good(i)}
<1>15. 0 \in G
  <2>1. Good(0)
    <3>1. \A j \in 1..0 : FALSE
      OBVIOUS
    <3> QED BY <3>1, <1>5
  <2> QED BY <2>1, <1>1, <1>5, <1>13
<1>16. ASSUME NEW n \in 1..N, n - 1 \in G PROVE n \in G
  <2>1. iter[1..n] = f[n]
    BY <1>7, <1>14, <1>16
  <2>2. Good(n - 1) /\ f[n - 1] \in Seq(E) /\ es[n] \in E /\ f[n] = Touch(f[n - 1], es[n])
    BY <1>1, <1>6, <1>7, <1>16
  <2>3. Good(n)
    <3> SUFFICES ASSUME IsInjective(s), ToSet(s) = valid
                 PROVE  /\ \A x : x \in ToSet(f[n]) <=> x \in valid \/ \E j \in 1..n : es[j] = x
                        /\ IsInjective(f[n])
      OBVIOUS
    <3>1. /\ \A x : x \in ToSet(f[n - 1]) <=> x \in valid \/ \E j \in 1..(n - 1) : es[j] = x
          /\ IsInjective(f[n - 1])
      BY <2>2
    <3>2. \A x : (\E j \in 1..n : es[j] = x) <=> (es[n] = x \/ \E j \in 1..(n - 1) : es[j] = x)
      BY <1>1
    <3>5. \A q \in Seq(E), e \in E :
             /\ IsInjective(q) /\ e \in ToSet(q) =>
                   ToSet(Promote(q, e)) = ToSet(q) /\ IsInjective(Promote(q, e))
             /\ ToSet(PushFront(q, e)) = ToSet(q) \union {e}
             /\ IsInjective(PushFront(q, e)) <=> IsInjective(q) /\ e \notin ToSet(q)
      BY PromoteFacts
    <3>3. ToSet(f[n]) = ToSet(f[n - 1]) \union {es[n]} /\ IsInjective(f[n])
      <4>1. CASE es[n] \in ToSet(f[n - 1])
        <5>1. f[n] = Promote(f[n - 1], es[n])
          BY <2>2, <4>1 DEF Touch
        <5> QED BY <2>2, <3>1, <4>1, <5>1, <3>5
      <4>2. CASE es[n] \notin ToSet(f[n - 1])
        <5>1. f[n] = PushFront(f[n - 1], es[n])
          BY <2>2, <3>1, <4>2 DEF Touch
        <5> QED BY <2>2, <3>1, <4>2, <5>1, <3>5
      <4> QED BY <4>1, <4>2
    <3>4. \A x : x \in ToSet(f[n]) <=> x \in valid \/ \E j \in 1..n : es[j] = x
      BY <3>1, <3>2, <3>3
    <3> QED BY <3>3, <3>4
  <2> QED BY <2>1, <2>3, <1>6
<1>17. N \in G
  <2> HIDE DEF G, N
  <2>1. \A n \in 0..N : n \in G
    BY <1>1, <1>15, <1>16, UpTo
  <2> QED BY <2>1, <1>1
<1>18. FoldLeft(Touch, s, es) = f[N] /\ f[N] \in Seq(E) /\ Good(N)
  BY <1>1, <1>11, <1>17
<1>19. ToSet(es) = {es[i] : i \in 1..N}
  BY ToSetFacts
<1>20. IsInjective(s) /\ ToSet(s) = valid => ToSet(f[N]) = valid \union ToSet(es)
  BY <1>18, <1>19
<1> QED BY <1>18, <1>20

\* Row and column of a place in a table of m rows of n, counted row by row.
LEMMA TableFacts ==
  ASSUME NEW m \in Nat, NEW n \in Nat \ {0}
  PROVE  /\ m * n \in Nat
         /\ \A k \in 1..(m * n) : /\ (k - 1) \div n \in 0..(m - 1) /\ (k - 1) % n \in 0..(n - 1)
                                  /\ k = ((k - 1) \div n) * n + ((k - 1) % n) + 1
         /\ \A q \in 0..(m - 1), r \in 0..(n - 1) :
               LET k == q * n + r + 1
               IN  k \in 1..(m * n) /\ (k - 1) \div n = q /\ (k - 1) % n = r
<1>1. m * n \in Nat
  OBVIOUS
<1>2. ASSUME NEW k \in 1..(m * n)
      PROVE  /\ (k - 1) \div n \in 0..(m - 1) /\ (k - 1) % n \in 0..(n - 1)
             /\ k = ((k - 1) \div n) * n + ((k - 1) % n) + 1
  <2> DEFINE a == k - 1
  <2>1. a \in Nat /\ a < m * n /\ k = a + 1
    BY <1>1
  <2> HIDE DEF a
  <2>2. a \div n \in Nat /\ a % n \in 0..(n - 1)
    BY <2>1
  <2>3. a \div n < m
    BY <2>1
  <2>4. a = (a \div n) * n + (a % n)
    BY <2>1
  <2>5. a \div n \in 0..(m - 1)
    BY <2>2, <2>3
  <2>6. k = (a \div n) * n + (a % n) + 1
    BY <2>1, <2>4
  <2> QED BY <2>2, <2>5, <2>6 DEF a
<1>3. ASSUME NEW q \in 0..(m - 1), NEW r \in 0..(n - 1)
      PROVE  q * n + r + 1 \in 1..(m * n) /\ ((q * n + r + 1) - 1) \div n = q
             /\ ((q * n + r + 1) - 1) % n = r
  <2> DEFINE a == q * n + r
  <2>1. q \in Nat /\ q < m
    OBVIOUS
  <2>2. a \in Nat /\ a < m * n
    BY <2>1
  <2>3. a \div n = q /\ a % n = r
    BY <2>1
  <2> HIDE DEF a
  <2>4. a + 1 \in 1..(m * n) /\ (a + 1) - 1 = a
    BY <2>2, <1>1
  <2>5. a + 1 \in 1..(m * n) /\ ((a + 1) - 1) \div n = q /\ ((a + 1) - 1) % n = r
    BY <2>3, <2>4
  <2> QED BY <2>5 DEF a
<1> QED BY <1>1, <1>2, <1>3

\* The slices of some entries, entry by entry.
LEMMA EntryMajorFacts ==
  ASSUME NEW es \in Seq(Entry)
  PROVE  /\ EntryMajor(es) \in Seq(Slice)
         /\ ToSet(EntryMajor(es)) = Slices(ToSet(es))
         /\ IsInjective(es) => IsInjective(EntryMajor(es))
<1> DEFINE m == Len(es)
           n == Projs
           t == EntryMajor(es)
<1>1. m \in Nat /\ n \in Nat \ {0} /\ \A i \in 1..m : es[i] \in Entry
  BY StreamAssumption
<1>2. t = [k \in 1..(m * n) |-> <<es[((k - 1) \div n) + 1], (k - 1) % n>>]
  BY DEF EntryMajor
<1> HIDE DEF t, m, n
<1>3. /\ m * n \in Nat
      /\ \A k \in 1..(m * n) : /\ (k - 1) \div n \in 0..(m - 1) /\ (k - 1) % n \in 0..(n - 1)
                               /\ k = ((k - 1) \div n) * n + ((k - 1) % n) + 1
      /\ \A q \in 0..(m - 1), r \in 0..(n - 1) :
            LET k == q * n + r + 1
            IN  k \in 1..(m * n) /\ (k - 1) \div n = q /\ (k - 1) % n = r
  BY <1>1, TableFacts
<1>4. Proj = 0..(n - 1)
  BY DEF Proj, n
<1>5. \A k \in 1..(m * n) : /\ ((k - 1) \div n) + 1 \in 1..m /\ es[((k - 1) \div n) + 1] \in Entry
                            /\ (k - 1) % n \in Proj
  <2> TAKE k \in 1..(m * n)
  <2>1. (k - 1) \div n \in 0..(m - 1) /\ (k - 1) % n \in Proj
    BY <1>3, <1>4
  <2>2. ((k - 1) \div n) + 1 \in 1..m
    BY <1>1, <2>1
  <2> QED BY <1>1, <2>1, <2>2
<1>6. t \in [1..(m * n) -> Slice]
  BY <1>2, <1>5 DEF Slice
<1>7. t \in Seq(Slice) /\ Len(t) = m * n
  BY <1>3, <1>6, FunctionIsSeq, Zenon
<1>8. /\ ToSet(t) = {t[i] : i \in 1..(m * n)}
      /\ IsInjective(t) <=> \A i, j \in 1..(m * n) : t[i] = t[j] => i = j
  BY <1>7, ToSetFacts
<1>9. /\ ToSet(es) = {es[i] : i \in 1..m}
      /\ IsInjective(es) <=> \A i, j \in 1..m : es[i] = es[j] => i = j
  BY ToSetFacts DEF m
<1>10. \A s \in ToSet(t) : s \in ToSet(es) \X Proj
  <2> SUFFICES ASSUME NEW k \in 1..(m * n) PROVE t[k] \in ToSet(es) \X Proj
    BY <1>8
  <2> QED BY <1>2, <1>5, <1>9
<1>11. ASSUME NEW i \in 1..m, NEW p \in Proj PROVE <<es[i], p>> \in ToSet(t)
  <2> DEFINE k == (i - 1) * n + p + 1
  <2>1. i - 1 \in 0..(m - 1) /\ (i - 1) + 1 = i /\ p \in 0..(n - 1)
    BY <1>1, <1>4
  <2>2. k \in 1..(m * n) /\ (k - 1) \div n = i - 1 /\ (k - 1) % n = p
    BY <2>1, <1>3
  <2> HIDE DEF k
  <2>3. t[k] = <<es[i], p>>
    BY <1>2, <2>1, <2>2
  <2> QED BY <1>8, <2>2, <2>3
<1>12. ToSet(t) = Slices(ToSet(es))
  <2>1. \A s \in ToSet(es) \X Proj : s \in ToSet(t)
    <3> TAKE s \in ToSet(es) \X Proj
    <3>1. PICK i \in 1..m : es[i] = s[1]
      BY <1>9
    <3>2. s = <<es[i], s[2]>> /\ s[2] \in Proj
      BY <3>1
    <3> QED BY <3>2, <1>11
  <2> QED BY <2>1, <1>10 DEF Slices
<1>13. ASSUME IsInjective(es) PROVE IsInjective(t)
  <2> SUFFICES ASSUME NEW i \in 1..(m * n), NEW j \in 1..(m * n), t[i] = t[j] PROVE i = j
    BY <1>8
  <2>1. es[((i - 1) \div n) + 1] = es[((j - 1) \div n) + 1] /\ (i - 1) % n = (j - 1) % n
    BY <1>2
  <2>2. ((i - 1) \div n) + 1 = ((j - 1) \div n) + 1
    BY <1>5, <1>9, <1>13, <2>1
  <2>3. (i - 1) \div n = (j - 1) \div n
    BY <2>2, <1>3
  <2>4. i = ((i - 1) \div n) * n + ((i - 1) % n) + 1 /\ j = ((j - 1) \div n) * n + ((j - 1) % n) + 1
    BY <1>3
  <2> QED BY <2>1, <2>3, <2>4
<1> QED BY <1>7, <1>12, <1>13 DEF t

\* The slices of some entries, projection by projection.
LEMMA ProjMajorFacts ==
  ASSUME NEW es \in Seq(Entry), NEW P \in Seq(Proj)
  PROVE  /\ ProjMajor(es, P) \in Seq(Slice)
         /\ Len(ProjMajor(es, P)) = Len(es) * Len(P)
         /\ ToSet(ProjMajor(es, P)) = ToSet(es) \X ToSet(P)
         /\ IsInjective(es) /\ IsInjective(P) => IsInjective(ProjMajor(es, P))
<1> DEFINE m == Len(P)
           n == Len(es)
           t == ProjMajor(es, P)
<1>1. /\ m \in Nat /\ n \in Nat /\ \A i \in 1..n : es[i] \in Entry
      /\ \A i \in 1..m : P[i] \in Proj
  OBVIOUS
<1>2. t = [k \in 1..(n * m) |-> <<es[((k - 1) % n) + 1], P[((k - 1) \div n) + 1]>>]
  BY DEF ProjMajor
<1>3. /\ ToSet(es) = {es[i] : i \in 1..n}
      /\ IsInjective(es) <=> \A i, j \in 1..n : es[i] = es[j] => i = j
  BY ToSetFacts
<1>4. /\ ToSet(P) = {P[i] : i \in 1..m}
      /\ IsInjective(P) <=> \A i, j \in 1..m : P[i] = P[j] => i = j
  BY ToSetFacts
<1> HIDE DEF t, m, n
<1>5. CASE n = 0
  <2>1. 1..(n * m) = {} /\ n * m = 0
    BY <1>1, <1>5
  <2>2. t = <<>>
    BY <1>2, <2>1
  <2>3. ToSet(es) = {}
    BY <1>3, <1>5
  <2>4. /\ t \in Seq(Slice) /\ Len(t) = n * m /\ ToSet(t) = ToSet(es) \X ToSet(P) /\ IsInjective(t)
    BY <2>1, <2>2, <2>3, ToSetFacts
  <2> QED BY <2>4 DEF t, m, n
<1>6. CASE n # 0
  <2>1. n \in Nat \ {0} /\ n * m = m * n
    BY <1>1, <1>6
  <2>2. /\ m * n \in Nat
        /\ \A k \in 1..(m * n) : /\ (k - 1) \div n \in 0..(m - 1) /\ (k - 1) % n \in 0..(n - 1)
                                 /\ k = ((k - 1) \div n) * n + ((k - 1) % n) + 1
        /\ \A q \in 0..(m - 1), r \in 0..(n - 1) :
              LET k == q * n + r + 1
              IN  k \in 1..(m * n) /\ (k - 1) \div n = q /\ (k - 1) % n = r
    BY <1>1, <2>1, TableFacts
  <2>3. \A k \in 1..(m * n) : /\ ((k - 1) \div n) + 1 \in 1..m /\ ((k - 1) % n) + 1 \in 1..n
                              /\ P[((k - 1) \div n) + 1] \in Proj /\ es[((k - 1) % n) + 1] \in Entry
    <3> TAKE k \in 1..(m * n)
    <3>1. (k - 1) \div n \in 0..(m - 1) /\ (k - 1) % n \in 0..(n - 1)
      BY <2>2
    <3>2. ((k - 1) \div n) + 1 \in 1..m /\ ((k - 1) % n) + 1 \in 1..n
      BY <1>1, <3>1
    <3> QED BY <1>1, <3>2
  <2>4. t = [k \in 1..(m * n) |-> <<es[((k - 1) % n) + 1], P[((k - 1) \div n) + 1]>>]
    BY <1>2, <2>1
  <2>5. t \in [1..(m * n) -> Slice]
    BY <2>3, <2>4 DEF Slice
  <2>6. t \in Seq(Slice) /\ Len(t) = m * n
    BY <2>2, <2>5, FunctionIsSeq, Zenon
  <2>7. /\ ToSet(t) = {t[i] : i \in 1..(m * n)}
        /\ IsInjective(t) <=> \A i, j \in 1..(m * n) : t[i] = t[j] => i = j
    BY <2>6, ToSetFacts
  <2>8. \A s \in ToSet(t) : s \in ToSet(es) \X ToSet(P)
    <3> SUFFICES ASSUME NEW k \in 1..(m * n) PROVE t[k] \in ToSet(es) \X ToSet(P)
      BY <2>7
    <3>1. es[((k - 1) % n) + 1] \in ToSet(es) /\ P[((k - 1) \div n) + 1] \in ToSet(P)
      BY <1>3, <1>4, <2>3
    <3> QED BY <2>4, <3>1
  <2>9. ASSUME NEW i \in 1..n, NEW j \in 1..m PROVE <<es[i], P[j]>> \in ToSet(t)
    <3> DEFINE k == (j - 1) * n + (i - 1) + 1
    <3>1. i - 1 \in 0..(n - 1) /\ (i - 1) + 1 = i /\ j - 1 \in 0..(m - 1) /\ (j - 1) + 1 = j
      BY <1>1
    <3>2. k \in 1..(m * n) /\ (k - 1) \div n = j - 1 /\ (k - 1) % n = i - 1
      BY <3>1, <2>2
    <3> HIDE DEF k
    <3>3. t[k] = <<es[i], P[j]>>
      BY <2>4, <3>1, <3>2
    <3> QED BY <2>7, <3>2, <3>3
  <2>10. ToSet(t) = ToSet(es) \X ToSet(P)
    <3>1. \A s \in ToSet(es) \X ToSet(P) : s \in ToSet(t)
      <4> TAKE s \in ToSet(es) \X ToSet(P)
      <4>1. PICK i \in 1..n : es[i] = s[1]
        BY <1>3
      <4>2. PICK j \in 1..m : P[j] = s[2]
        BY <1>4
      <4>3. s = <<es[i], P[j]>>
        BY <4>1, <4>2
      <4> QED BY <4>3, <2>9
    <3> QED BY <3>1, <2>8
  <2>11. ASSUME IsInjective(es), IsInjective(P) PROVE IsInjective(t)
    <3> SUFFICES ASSUME NEW i \in 1..(m * n), NEW j \in 1..(m * n), t[i] = t[j] PROVE i = j
      BY <2>7
    <3>1. /\ es[((i - 1) % n) + 1] = es[((j - 1) % n) + 1]
          /\ P[((i - 1) \div n) + 1] = P[((j - 1) \div n) + 1]
      BY <2>4
    <3>2. ((i - 1) \div n) + 1 = ((j - 1) \div n) + 1
      BY <1>4, <2>3, <2>11, <3>1
    <3>3. ((i - 1) % n) + 1 = ((j - 1) % n) + 1
      BY <1>3, <2>3, <2>11, <3>1
    <3>4. (i - 1) \div n = (j - 1) \div n /\ (i - 1) % n = (j - 1) % n
      BY <2>2, <3>2, <3>3
    <3>5. i = ((i - 1) \div n) * n + ((i - 1) % n) + 1 /\ j = ((j - 1) \div n) * n + ((j - 1) % n) + 1
      BY <2>2
    <3> QED BY <3>4, <3>5
  <2>12. Len(t) = n * m
    BY <2>1, <2>6
  <2> QED BY <2>6, <2>10, <2>11, <2>12 DEF t, m, n
<1> QED BY <1>5, <1>6

\* Every entry is in line once.
LEMMA InLineFacts ==
  /\ InLine \in Seq(Entry)
  /\ ToSet(InLine) = Entry
  /\ IsInjective(InLine)
<1> DEFINE m == Layers
           n == Experts
           t == InLine
<1>1. m \in Nat /\ n \in Nat \ {0}
  BY StreamAssumption
<1>2. t = [k \in 1..(m * n) |-> <<(k - 1) \div n, (k - 1) % n>>]
  BY DEF InLine
<1>3. Entry = (0..(m - 1)) \X (0..(n - 1))
  BY DEF Entry, Layer, Expert
<1> HIDE DEF t, m, n
<1>4. /\ m * n \in Nat
      /\ \A k \in 1..(m * n) : /\ (k - 1) \div n \in 0..(m - 1) /\ (k - 1) % n \in 0..(n - 1)
                               /\ k = ((k - 1) \div n) * n + ((k - 1) % n) + 1
      /\ \A q \in 0..(m - 1), r \in 0..(n - 1) :
            LET k == q * n + r + 1
            IN  k \in 1..(m * n) /\ (k - 1) \div n = q /\ (k - 1) % n = r
  BY <1>1, TableFacts
<1>5. t \in [1..(m * n) -> Entry]
  BY <1>2, <1>3, <1>4
<1>6. t \in Seq(Entry) /\ Len(t) = m * n
  BY <1>4, <1>5, FunctionIsSeq, Zenon
<1>7. /\ ToSet(t) = {t[i] : i \in 1..(m * n)} /\ ToSet(t) \subseteq Entry
      /\ IsInjective(t) <=> \A i, j \in 1..(m * n) : t[i] = t[j] => i = j
  BY <1>6, ToSetFacts
<1>8. \A e \in Entry : e \in ToSet(t)
  <2> TAKE e \in Entry
  <2> DEFINE k == e[1] * n + e[2] + 1
  <2>1. e[1] \in 0..(m - 1) /\ e[2] \in 0..(n - 1) /\ e = <<e[1], e[2]>>
    BY <1>3
  <2>2. k \in 1..(m * n) /\ (k - 1) \div n = e[1] /\ (k - 1) % n = e[2]
    BY <2>1, <1>4
  <2> HIDE DEF k
  <2>3. t[k] = e
    BY <1>2, <2>1, <2>2
  <2> QED BY <1>7, <2>2, <2>3
<1>9. IsInjective(t)
  <2> SUFFICES ASSUME NEW i \in 1..(m * n), NEW j \in 1..(m * n), t[i] = t[j] PROVE i = j
    BY <1>7
  <2>1. (i - 1) \div n = (j - 1) \div n /\ (i - 1) % n = (j - 1) % n
    BY <1>2
  <2>2. i = ((i - 1) \div n) * n + ((i - 1) % n) + 1 /\ j = ((j - 1) \div n) * n + ((j - 1) % n) + 1
    BY <1>4
  <2> QED BY <2>1, <2>2
<1> QED BY <1>6, <1>7, <1>8, <1>9 DEF t

\* The entries of a set, in ascending order.
LEMMA AscendingFacts ==
  ASSUME NEW F \in SUBSET Entry
  PROVE  Ascending(F) \in Seq(Entry) /\ ToSet(Ascending(F)) = F /\ IsInjective(Ascending(F))
<1>1. /\ Kept(InLine, F) \in Seq(Entry)
      /\ ToSet(Kept(InLine, F)) = ToSet(InLine) \intersect F
      /\ IsInjective(Kept(InLine, F))
  BY InLineFacts, KeptFacts
<1> QED BY <1>1, InLineFacts DEF Ascending

\* Pushing entries one after the other.
LEMMA PushAllFacts ==
  ASSUME NEW E, NEW s \in Seq(E), NEW es \in Seq(E)
  PROVE  /\ PushAll(s, es) \in Seq(E)
         /\ ToSet(PushAll(s, es)) = ToSet(s) \union ToSet(es)
         /\ IsInjective(s) /\ IsInjective(es) /\ ToSet(s) \intersect ToSet(es) = {}
               => IsInjective(PushAll(s, es))
<1> DEFINE r == Reverse(es)
<1>1. r \in Seq(E) /\ ToSet(r) = ToSet(es) /\ (IsInjective(es) => IsInjective(r))
  BY ReverseFacts
<1> HIDE DEF r
<1>2. /\ r \o s \in Seq(E) /\ ToSet(r \o s) = ToSet(r) \union ToSet(s)
      /\ IsInjective(r \o s) <=> /\ IsInjective(r) /\ IsInjective(s)
                                 /\ ToSet(r) \intersect ToSet(s) = {}
  BY <1>1, ConcatFacts
<1> QED BY <1>1, <1>2 DEF PushAll, r

\* The records a lane is described by, field by field.
LEMMA LaneRecords ==
  /\ Nobody.doing = "idle" /\ Landed.doing = "landed" /\ Gone.doing = "gone"
  /\ \A s : Reading(s).doing = "batch" /\ Reading(s).slice = s
  /\ \A s, own : /\ Speculating(s, own).doing = "spec" /\ Speculating(s, own).slice = s
                 /\ Speculating(s, own).owned = own
<1>1. Nobody.doing = "idle" /\ Landed.doing = "landed" /\ Gone.doing = "gone"
  BY DEF Nobody, Landed, Gone
<1>2. \A s : Reading(s).doing = "batch" /\ Reading(s).slice = s
  BY DEF Reading
<1>3. \A s, own : /\ Speculating(s, own).doing = "spec" /\ Speculating(s, own).slice = s
                  /\ Speculating(s, own).owned = own
  BY DEF Speculating
<1> QED BY <1>1, <1>2, <1>3

\* There are finitely many lanes, and lane 0 is one.
LEMMA SomeLane == 0 \in Lane /\ IsFiniteSet(Lane)
<1>1. Workers \in Nat \ {0}
  BY StreamAssumption
<1>2. IsFiniteSet(0..(Workers - 1))
  BY <1>1, FS_Interval
<1> QED BY <1>1, <1>2 DEF Lane

\* A lane is one of the records that its doing says.
LEMMA DoingFacts ==
  ASSUME NEW x \in Doings
  PROVE  /\ x.doing \in {"idle", "batch", "landed", "spec", "gone"}
         /\ x.doing = "idle" <=> x = Nobody
         /\ x.doing = "landed" <=> x = Landed
         /\ x.doing = "gone" <=> x = Gone
         /\ x.doing = "batch" => x.slice \in Slice /\ x = Reading(x.slice)
         /\ x.doing = "spec" => /\ x.slice \in Slice /\ x.owned \in BOOLEAN
                                /\ x = Speculating(x.slice, x.owned)
<1>1. CASE x \in {Nobody, Landed, Gone}
  BY <1>1, LaneRecords
<1>2. CASE x \in {Reading(s) : s \in Slice}
  <2>1. PICK s \in Slice : x = Reading(s)
    BY <1>2
  <2>2. x.doing = "batch" /\ x.slice = s
    BY <2>1, LaneRecords
  <2>3. x # Nobody /\ x # Landed /\ x # Gone
    BY <2>2, LaneRecords
  <2> QED BY <2>1, <2>2, <2>3
<1>3. CASE x \in {Speculating(s, own) : s \in Slice, own \in BOOLEAN}
  <2>1. PICK s \in Slice, own \in BOOLEAN : x = Speculating(s, own)
    BY <1>3
  <2>2. x.doing = "spec" /\ x.slice = s /\ x.owned = own
    BY <2>1, LaneRecords
  <2>3. x # Nobody /\ x # Landed /\ x # Gone
    BY <2>2, LaneRecords
  <2> QED BY <2>1, <2>2, <2>3
<1> QED BY <1>1, <1>2, <1>3 DEF Doings

(***************************************************************************)
(* What a step may touch: for each variable, the actions that change it.   *)
(***************************************************************************)

\* How many evictions there are, with the condition of both loops in load_layer.
LEMMA EvictionsFacts ==
  ASSUME lru \in Seq(Entry), NEW k, k = Evictions(Evictable)
  PROVE  /\ k \in 0..Len(lru)
         /\ \A n \in 0..(k - 1) : Evictable(n)
<1> DEFINE P == {n \in 0..Len(lru) : ~ Evictable(n)}
<1>1. Len(lru) \in Nat /\ ~ Evictable(Len(lru))
  BY DEF Evictable, OverBudget
<1>2. P \in SUBSET Nat /\ Len(lru) \in P
  BY <1>1
<1>3. PICK j \in P : \A n \in P : j <= n
  BY <1>2, LeastNumber
<1>4. j \in 0..Len(lru) /\ ~ Evictable(j)
  BY <1>3
<1>5. \A n \in 0..(j - 1) : Evictable(n)
  <2> SUFFICES ASSUME NEW n \in 0..(j - 1), ~ Evictable(n) PROVE FALSE
    OBVIOUS
  <2>1. n \in 0..Len(lru) /\ ~ (j <= n)
    BY <1>1, <1>4
  <2> QED BY <2>1, <1>3
<1>6. \E i \in 0..Len(lru) : (\A n \in 0..(i - 1) : Evictable(n)) /\ ~ Evictable(i)
  BY <1>4, <1>5
<1>7. k = CHOOSE i \in 0..Len(lru) : (\A n \in 0..(i - 1) : Evictable(n)) /\ ~ Evictable(i)
  BY Zenon DEF Evictions
<1> QED BY <1>6, <1>7, Zenon

\* The same with the condition of the shrink.
LEMMA ShrinkFacts ==
  ASSUME lru \in Seq(Entry), resident \in Nat, NEW b \in Nat, NEW k,
         k = Evictions(LAMBDA n : n < Len(lru) /\ resident > b + n)
  PROVE  /\ k \in 0..Len(lru)
         /\ \A n \in 0..(k - 1) : resident > b + n
<1> DEFINE Over(n) == n < Len(lru) /\ resident > b + n
           P == {n \in 0..Len(lru) : ~ Over(n)}
<1>1. Len(lru) \in Nat /\ ~ Over(Len(lru))
  OBVIOUS
<1> HIDE DEF Over
<1>2. P \in SUBSET Nat /\ Len(lru) \in P
  BY <1>1
<1>3. PICK j \in P : \A n \in P : j <= n
  BY <1>2, LeastNumber
<1>4. j \in 0..Len(lru) /\ ~ Over(j)
  BY <1>3
<1>5. \A n \in 0..(j - 1) : Over(n)
  <2> SUFFICES ASSUME NEW n \in 0..(j - 1), ~ Over(n) PROVE FALSE
    OBVIOUS
  <2>1. n \in 0..Len(lru) /\ ~ (j <= n)
    BY <1>1, <1>4
  <2> QED BY <2>1, <1>3
<1>6. \E i \in 0..Len(lru) : (\A n \in 0..(i - 1) : Over(n)) /\ ~ Over(i)
  BY <1>4, <1>5
<1>7. k = CHOOSE i \in 0..Len(lru) : (\A n \in 0..(i - 1) : Over(n)) /\ ~ Over(i)
  BY Zenon DEF Evictions, Over
<1>8. k \in 0..Len(lru) /\ \A n \in 0..(k - 1) : Over(n)
  BY <1>6, <1>7, Zenon
<1> QED BY <1>8 DEF Over

\* A commit of the second wave fails, at any of its pages.
SecondFails == \E k \in DOMAIN SecondWave, n \in Proj : SecondWaveFails(k, n)

\* The steps that change the cache.
LEMMA CacheFrame ==
  ASSUME [Next]_vars
  PROVE  \/ UNCHANGED <<valid, lru, resident>>
         \/ AdoptEnd \/ Stage \/ StageSecondWave \/ Evict \/ IssueSettle
         \/ FinishQuiesce("cancelled", "stage") \/ FinishQuiesce("shrink_cancelled", "shrunk")
         \/ \E k \in DOMAIN Visited, n \in Proj : StageFails(k, n)
         \/ \E asked \in SUBSET (Targets \X Expert) : Issue(asked)
         \/ \E b \in Budgets : ShrinkTo(b)
<1>1. CASE \E n \in Lane : LaneStep(n)
  BY <1>1 DEF LaneStep, BatchPull, BatchRead, BatchReadFails, BatchCount, SpecPull, SpecRead,
     SpecReadFails, WorkerExit, cache
<1>2. CASE Quiesce \/ Load
  BY <1>2 DEF Quiesce, Load, CancelSpec, AdoptBegin, AdoptPull, SecondWaveFails, InlineRead,
     InlineReadFails, DrainEnd, cache
<1>3. CASE Speculate \/ Shrink
  BY <1>3 DEF Speculate, Shrink, CancelSpec, NoIssue, Prefetch, cache
<1>4. CASE Matmul \/ OverlapOffJoin \/ Release
  BY <1>4 DEF Matmul, OverlapOffJoin, Release, cache
<1>5. CASE Start
  BY <1>5 DEF Start, BeginLoad, Cancel, ShrinkBegin, Grow, OverlapOn, OverlapOff, Shutdown, Ended,
     vars, cache
<1>6. CASE UNCHANGED vars
  BY <1>6 DEF vars, cache
<1> QED BY <1>1, <1>2, <1>3, <1>4, <1>5, <1>6 DEF Next, Continue

\* The steps that change what is staged.
LEMMA StagedFrame ==
  ASSUME [Next]_vars
  PROVE  \/ UNCHANGED <<staged>>
         \/ AdoptEnd \/ Stage \/ IssueSettle
         \/ FinishQuiesce("cancelled", "stage") \/ FinishQuiesce("shrink_cancelled", "shrunk")
         \/ \E k \in DOMAIN Visited, n \in Proj : StageFails(k, n)
<1>1. CASE \E n \in Lane : LaneStep(n)
  BY <1>1 DEF LaneStep, BatchPull, BatchRead, BatchReadFails, BatchCount, SpecPull, SpecRead,
     SpecReadFails, WorkerExit, cache
<1>2. CASE Quiesce \/ Load
  BY <1>2 DEF Quiesce, Load, CancelSpec, AdoptBegin, AdoptPull, StageSecondWave, SecondWaveFails,
     InlineRead, InlineReadFails, DrainEnd, Evict, cache
<1>3. CASE Speculate \/ Shrink
  BY <1>3 DEF Speculate, Shrink, CancelSpec, Issue, NoIssue, Prefetch, ShrinkTo, cache
<1>4. CASE Matmul \/ OverlapOffJoin \/ Release
  BY <1>4 DEF Matmul, OverlapOffJoin, Release, cache
<1>5. CASE Start
  BY <1>5 DEF Start, BeginLoad, Cancel, ShrinkBegin, Grow, OverlapOn, OverlapOff, Shutdown, Ended,
     vars, cache
<1>6. CASE UNCHANGED vars
  BY <1>6 DEF vars, cache
<1> QED BY <1>1, <1>2, <1>3, <1>4, <1>5, <1>6 DEF Next, Continue

\* The steps that change the budget.
LEMMA BudgetFrame ==
  ASSUME [Next]_vars
  PROVE  \/ UNCHANGED <<budget>>
         \/ \E b \in Budgets : Grow(b)
         \/ \E b \in Budgets : ShrinkTo(b)
<1>1. CASE \E n \in Lane : LaneStep(n)
  BY <1>1 DEF LaneStep, BatchPull, BatchRead, BatchReadFails, BatchCount, SpecPull, SpecRead,
     SpecReadFails, WorkerExit, cache
<1>2. CASE Quiesce \/ Load
  BY <1>2 DEF Quiesce, Load, CancelSpec, FinishQuiesce, AdoptBegin, AdoptPull, AdoptEnd, Stage,
     StageFails, StageSecondWave, SecondWaveFails, InlineRead, InlineReadFails, DrainEnd,
     Evict, cache
<1>3. CASE Speculate \/ Shrink
  BY <1>3 DEF Speculate, Shrink, CancelSpec, FinishQuiesce, IssueSettle, Issue, NoIssue, Prefetch,
     cache
<1>4. CASE Matmul \/ OverlapOffJoin \/ Release
  BY <1>4 DEF Matmul, OverlapOffJoin, Release, cache
<1>5. CASE Start
  BY <1>5 DEF Start, BeginLoad, Cancel, ShrinkBegin, OverlapOn, OverlapOff, Shutdown, Ended, vars,
     cache
<1>6. CASE UNCHANGED vars
  BY <1>6 DEF vars, cache
<1> QED BY <1>1, <1>2, <1>3, <1>4, <1>5, <1>6 DEF Next, Continue

\* The steps that commit pages, or give them back.
LEMMA CommittedFrame ==
  ASSUME [Next]_vars
  PROVE  \/ UNCHANGED <<committed>>
         \/ Stage \/ StageSecondWave \/ SecondFails \/ Evict \/ Release
         \/ FinishQuiesce("cancelled", "stage") \/ FinishQuiesce("shrink_cancelled", "shrunk")
         \/ \E k \in DOMAIN Visited, n \in Proj : StageFails(k, n)
         \/ \E k \in 0..Len(cand) : Prefetch(k)
         \/ \E b \in Budgets : ShrinkTo(b)
<1>1. CASE \E n \in Lane : LaneStep(n)
  BY <1>1 DEF LaneStep, BatchPull, BatchRead, BatchReadFails, BatchCount, SpecPull, SpecRead,
     SpecReadFails, WorkerExit, pages
<1>2. CASE Quiesce \/ Load
  BY <1>2 DEF Quiesce, Load, CancelSpec, AdoptBegin, AdoptPull, AdoptEnd, SecondFails,
     InlineRead, InlineReadFails, DrainEnd, pages
<1>3. CASE Speculate \/ Shrink
  BY <1>3 DEF Speculate, Shrink, CancelSpec, IssueSettle, Issue, NoIssue, pages
<1>4. CASE Matmul \/ OverlapOffJoin \/ Release
  BY <1>4 DEF Matmul, OverlapOffJoin, pages
<1>5. CASE Start
  BY <1>5 DEF Start, BeginLoad, Cancel, ShrinkBegin, Grow, OverlapOn, OverlapOff, Shutdown, Ended,
     vars, pages
<1>6. CASE UNCHANGED vars
  BY <1>6 DEF vars, pages
<1> QED BY <1>1, <1>2, <1>3, <1>4, <1>5, <1>6 DEF Next, Continue

\* The steps that fill pages, or give them back.
LEMMA FilledFrame ==
  ASSUME [Next]_vars
  PROVE  \/ UNCHANGED <<filled>>
         \/ InlineRead \/ Evict \/ Release
         \/ \E n \in Lane : BatchRead(n)
         \/ \E n \in Lane : SpecRead(n)
         \/ FinishQuiesce("cancelled", "stage") \/ FinishQuiesce("shrink_cancelled", "shrunk")
         \/ \E k \in 0..Len(cand) : Prefetch(k)
         \/ \E b \in Budgets : ShrinkTo(b)
<1>1. CASE \E n \in Lane : LaneStep(n)
  BY <1>1 DEF LaneStep, BatchPull, BatchReadFails, BatchCount, SpecPull, SpecReadFails, WorkerExit,
     pages
<1>2. CASE Quiesce \/ Load
  BY <1>2 DEF Quiesce, Load, CancelSpec, AdoptBegin, AdoptPull, AdoptEnd, Stage, StageFails,
     StageSecondWave, SecondWaveFails, InlineReadFails, DrainEnd, pages
<1>3. CASE Speculate \/ Shrink
  BY <1>3 DEF Speculate, Shrink, CancelSpec, IssueSettle, Issue, NoIssue, pages
<1>4. CASE Matmul \/ OverlapOffJoin \/ Release
  BY <1>4 DEF Matmul, OverlapOffJoin, pages
<1>5. CASE Start
  BY <1>5 DEF Start, BeginLoad, Cancel, ShrinkBegin, Grow, OverlapOn, OverlapOff, Shutdown, Ended,
     vars, pages
<1>6. CASE UNCHANGED vars
  BY <1>6 DEF vars, pages
<1> QED BY <1>1, <1>2, <1>3, <1>4, <1>5, <1>6 DEF Next, Continue

\* The steps that change the batch.
LEMMA JobsFrame ==
  ASSUME [Next]_vars
  PROVE  \/ UNCHANGED <<jobs>>
         \/ Stage \/ StageSecondWave \/ InlineRead \/ InlineReadFails \/ Release
         \/ \E n \in Lane : BatchPull(n)
<1>1. CASE \E n \in Lane : LaneStep(n)
  BY <1>1 DEF LaneStep, BatchRead, BatchReadFails, BatchCount, SpecPull, SpecRead, SpecReadFails,
     WorkerExit, batch
<1>2. CASE Quiesce \/ Load
  BY <1>2 DEF Quiesce, Load, CancelSpec, FinishQuiesce, AdoptBegin, AdoptPull, AdoptEnd, StageFails,
     SecondWaveFails, DrainEnd, Evict, batch
<1>3. CASE Speculate \/ Shrink
  BY <1>3 DEF Speculate, Shrink, CancelSpec, FinishQuiesce, IssueSettle, Issue, NoIssue, Prefetch,
     ShrinkTo, batch
<1>4. CASE Matmul \/ OverlapOffJoin \/ Release
  BY <1>4 DEF Matmul, OverlapOffJoin, batch
<1>5. CASE Start
  BY <1>5 DEF Start, BeginLoad, Cancel, ShrinkBegin, Grow, OverlapOn, OverlapOff, Shutdown, Ended,
     vars, batch
<1>6. CASE UNCHANGED vars
  BY <1>6 DEF vars, batch
<1> QED BY <1>1, <1>2, <1>3, <1>4, <1>5, <1>6 DEF Next, Continue

\* The steps that count the batch.
LEMMA UndoneFrame ==
  ASSUME [Next]_vars
  PROVE  \/ UNCHANGED <<undone>>
         \/ Stage \/ StageSecondWave \/ Release
         \/ \E n \in Lane : BatchCount(n)
<1>1. CASE \E n \in Lane : LaneStep(n)
  BY <1>1 DEF LaneStep, BatchPull, BatchRead, BatchReadFails, SpecPull, SpecRead, SpecReadFails,
     WorkerExit, batch
<1>2. CASE Quiesce \/ Load
  BY <1>2 DEF Quiesce, Load, CancelSpec, FinishQuiesce, AdoptBegin, AdoptPull, AdoptEnd, StageFails,
     SecondWaveFails, InlineRead, InlineReadFails, DrainEnd, Evict, batch
<1>3. CASE Speculate \/ Shrink
  BY <1>3 DEF Speculate, Shrink, CancelSpec, FinishQuiesce, IssueSettle, Issue, NoIssue, Prefetch,
     ShrinkTo, batch
<1>4. CASE Matmul \/ OverlapOffJoin \/ Release
  BY <1>4 DEF Matmul, OverlapOffJoin, batch
<1>5. CASE Start
  BY <1>5 DEF Start, BeginLoad, Cancel, ShrinkBegin, Grow, OverlapOn, OverlapOff, Shutdown, Ended,
     vars, batch
<1>6. CASE UNCHANGED vars
  BY <1>6 DEF vars, batch
<1> QED BY <1>1, <1>2, <1>3, <1>4, <1>5, <1>6 DEF Next, Continue

\* The steps that change the flags of the batch.
LEMMA ReadyFrame ==
  ASSUME [Next]_vars
  PROVE  \/ UNCHANGED <<ready>>
         \/ Stage
         \/ \E n \in Lane : BatchRead(n)
         \/ \E n \in Lane : BatchReadFails(n)
         \/ \E k \in DOMAIN Visited, n \in Proj : StageFails(k, n)
<1>1. CASE \E n \in Lane : LaneStep(n)
  BY <1>1 DEF LaneStep, BatchPull, BatchCount, SpecPull, SpecRead, SpecReadFails, WorkerExit, batch
<1>2. CASE Quiesce \/ Load
  BY <1>2 DEF Quiesce, Load, CancelSpec, FinishQuiesce, AdoptBegin, AdoptPull, AdoptEnd,
     StageSecondWave, SecondWaveFails, InlineRead, InlineReadFails, DrainEnd, Evict, batch
<1>3. CASE Speculate \/ Shrink
  BY <1>3 DEF Speculate, Shrink, CancelSpec, FinishQuiesce, IssueSettle, Issue, NoIssue, Prefetch,
     ShrinkTo, batch
<1>4. CASE Matmul \/ OverlapOffJoin \/ Release
  BY <1>4 DEF Matmul, OverlapOffJoin, Release, batch
<1>5. CASE Start
  BY <1>5 DEF Start, BeginLoad, Cancel, ShrinkBegin, Grow, OverlapOn, OverlapOff, Shutdown, Ended,
     vars, batch
<1>6. CASE UNCHANGED vars
  BY <1>6 DEF vars, batch
<1> QED BY <1>1, <1>2, <1>3, <1>4, <1>5, <1>6 DEF Next, Continue

\* The steps after which nobody waits.
LEMMA FatalFrame ==
  ASSUME [Next]_vars
  PROVE  \/ UNCHANGED <<io_err, fatal>>
         \/ Stage \/ SecondFails \/ Shutdown
         \/ \E n \in Lane : BatchReadFails(n)
         \/ \E k \in DOMAIN Visited, n \in Proj : StageFails(k, n)
<1>1. CASE \E n \in Lane : LaneStep(n)
  BY <1>1 DEF LaneStep, BatchPull, BatchRead, BatchCount, SpecPull, SpecRead, SpecReadFails,
     WorkerExit, batch
<1>2. CASE Quiesce \/ Load
  BY <1>2 DEF Quiesce, Load, CancelSpec, FinishQuiesce, AdoptBegin, AdoptPull, AdoptEnd,
     StageSecondWave, SecondFails, InlineRead, InlineReadFails, DrainEnd, Evict, batch
<1>3. CASE Speculate \/ Shrink
  BY <1>3 DEF Speculate, Shrink, CancelSpec, FinishQuiesce, IssueSettle, Issue, NoIssue, Prefetch,
     ShrinkTo, batch
<1>4. CASE Matmul \/ OverlapOffJoin \/ Release
  BY <1>4 DEF Matmul, OverlapOffJoin, Release, batch
<1>5. CASE Start
  BY <1>5 DEF Start, BeginLoad, Cancel, ShrinkBegin, Grow, OverlapOn, OverlapOff, Ended, vars,
     batch
<1>6. CASE UNCHANGED vars
  BY <1>6 DEF vars, batch
<1> QED BY <1>1, <1>2, <1>3, <1>4, <1>5, <1>6 DEF Next, Continue

\* The steps that change the speculative queue.
LEMMA QueueFrame ==
  ASSUME [Next]_vars
  PROVE  \/ UNCHANGED <<spec_jobs>>
         \/ AdoptBegin \/ AdoptPull \/ Shutdown
         \/ \E n \in Lane : SpecPull(n)
         \/ CancelSpec("quiesce", "cancelled") \/ CancelSpec("shrink", "shrink_cancelled")
         \/ \E k \in 0..Len(cand) : Prefetch(k)
<1>1. CASE \E n \in Lane : LaneStep(n)
  BY <1>1 DEF LaneStep, BatchPull, BatchRead, BatchReadFails, BatchCount, SpecRead, SpecReadFails,
     WorkerExit, specq
<1>2. CASE Quiesce \/ Load
  BY <1>2 DEF Quiesce, Load, FinishQuiesce, AdoptEnd, Stage, StageFails, StageSecondWave,
     SecondWaveFails, InlineRead, InlineReadFails, DrainEnd, Evict, specq
<1>3. CASE Speculate \/ Shrink
  BY <1>3 DEF Speculate, Shrink, FinishQuiesce, IssueSettle, Issue, NoIssue, ShrinkTo, specq
<1>4. CASE Matmul \/ OverlapOffJoin \/ Release
  BY <1>4 DEF Matmul, OverlapOffJoin, Release, specq
<1>5. CASE Start
  BY <1>5 DEF Start, BeginLoad, Cancel, ShrinkBegin, Grow, OverlapOn, OverlapOff, Ended, vars,
     specq
<1>6. CASE UNCHANGED vars
  BY <1>6 DEF vars, specq
<1> QED BY <1>1, <1>2, <1>3, <1>4, <1>5, <1>6 DEF Next, Continue

\* The steps that count a speculation.
LEMMA RemainingFrame ==
  ASSUME [Next]_vars
  PROVE  \/ UNCHANGED <<spec_remaining>>
         \/ \E n \in Lane : SpecRead(n)
         \/ \E n \in Lane : SpecReadFails(n)
         \/ FinishQuiesce("cancelled", "stage") \/ FinishQuiesce("shrink_cancelled", "shrunk")
         \/ \E k \in 0..Len(cand) : Prefetch(k)
<1>1. CASE \E n \in Lane : LaneStep(n)
  BY <1>1 DEF LaneStep, BatchPull, BatchRead, BatchReadFails, BatchCount, SpecPull, WorkerExit,
     specq
<1>2. CASE Quiesce \/ Load
  BY <1>2 DEF Quiesce, Load, CancelSpec, AdoptBegin, AdoptPull, AdoptEnd, Stage, StageFails,
     StageSecondWave, SecondWaveFails, InlineRead, InlineReadFails, DrainEnd, Evict, specq
<1>3. CASE Speculate \/ Shrink
  BY <1>3 DEF Speculate, Shrink, CancelSpec, IssueSettle, Issue, NoIssue, ShrinkTo, specq
<1>4. CASE Matmul \/ OverlapOffJoin \/ Release
  BY <1>4 DEF Matmul, OverlapOffJoin, Release, specq
<1>5. CASE Start
  BY <1>5 DEF Start, BeginLoad, Cancel, ShrinkBegin, Grow, OverlapOn, OverlapOff, Shutdown, Ended,
     vars, specq
<1>6. CASE UNCHANGED vars
  BY <1>6 DEF vars, specq
<1> QED BY <1>1, <1>2, <1>3, <1>4, <1>5, <1>6 DEF Next, Continue

\* The steps that change what is complete.
LEMMA DoneFrame ==
  ASSUME [Next]_vars
  PROVE  \/ UNCHANGED <<spec_done>>
         \/ AdoptEnd \/ IssueSettle \/ Release
         \/ \E n \in Lane : SpecRead(n)
         \/ FinishQuiesce("cancelled", "stage") \/ FinishQuiesce("shrink_cancelled", "shrunk")
<1>1. CASE \E n \in Lane : LaneStep(n)
  BY <1>1 DEF LaneStep, BatchPull, BatchRead, BatchReadFails, BatchCount, SpecPull, SpecReadFails,
     WorkerExit, specq
<1>2. CASE Quiesce \/ Load
  BY <1>2 DEF Quiesce, Load, CancelSpec, AdoptBegin, AdoptPull, Stage, StageFails, StageSecondWave,
     SecondWaveFails, InlineRead, InlineReadFails, DrainEnd, Evict, specq
<1>3. CASE Speculate \/ Shrink
  BY <1>3 DEF Speculate, Shrink, CancelSpec, Issue, NoIssue, Prefetch, ShrinkTo, specq
<1>4. CASE Matmul \/ OverlapOffJoin \/ Release
  BY <1>4 DEF Matmul, OverlapOffJoin, specq
<1>5. CASE Start
  BY <1>5 DEF Start, BeginLoad, Cancel, ShrinkBegin, Grow, OverlapOn, OverlapOff, Shutdown, Ended,
     vars, specq
<1>6. CASE UNCHANGED vars
  BY <1>6 DEF vars, specq
<1> QED BY <1>1, <1>2, <1>3, <1>4, <1>5, <1>6 DEF Next, Continue

\* The steps that change what was speculated.
LEMMA TouchedFrame ==
  ASSUME [Next]_vars
  PROVE  \/ UNCHANGED <<spec_touched>>
         \/ AdoptBegin \/ Release
         \/ FinishQuiesce("cancelled", "stage") \/ FinishQuiesce("shrink_cancelled", "shrunk")
         \/ \E k \in 0..Len(cand) : Prefetch(k)
<1>1. CASE \E n \in Lane : LaneStep(n)
  BY <1>1 DEF LaneStep, BatchPull, BatchRead, BatchReadFails, BatchCount, SpecPull, SpecRead,
     SpecReadFails, WorkerExit, specq
<1>2. CASE Quiesce \/ Load
  BY <1>2 DEF Quiesce, Load, CancelSpec, AdoptPull, AdoptEnd, Stage, StageFails, StageSecondWave,
     SecondWaveFails, InlineRead, InlineReadFails, DrainEnd, Evict, specq
<1>3. CASE Speculate \/ Shrink
  BY <1>3 DEF Speculate, Shrink, CancelSpec, IssueSettle, Issue, NoIssue, ShrinkTo, specq
<1>4. CASE Matmul \/ OverlapOffJoin \/ Release
  BY <1>4 DEF Matmul, OverlapOffJoin, specq
<1>5. CASE Start
  BY <1>5 DEF Start, BeginLoad, Cancel, ShrinkBegin, Grow, OverlapOn, OverlapOff, Shutdown, Ended,
     vars, specq
<1>6. CASE UNCHANGED vars
  BY <1>6 DEF vars, specq
<1> QED BY <1>1, <1>2, <1>3, <1>4, <1>5, <1>6 DEF Next, Continue

\* The steps that change what a lane does.
LEMMA LaneFrame ==
  ASSUME [Next]_vars
  PROVE  \/ UNCHANGED <<lane>>
         \/ AdoptPull \/ OverlapOffJoin \/ Shutdown
         \/ \E n \in Lane : BatchPull(n)
         \/ \E n \in Lane : BatchRead(n)
         \/ \E n \in Lane : BatchReadFails(n)
         \/ \E n \in Lane : BatchCount(n)
         \/ \E n \in Lane : SpecPull(n)
         \/ \E n \in Lane : SpecRead(n)
         \/ \E n \in Lane : SpecReadFails(n)
         \/ \E n \in Lane : WorkerExit(n)
         \/ CancelSpec("quiesce", "cancelled") \/ CancelSpec("shrink", "shrink_cancelled")
<1>1. CASE \E n \in Lane : LaneStep(n)
  BY <1>1 DEF LaneStep, threads
<1>2. CASE Quiesce \/ Load
  BY <1>2 DEF Quiesce, Load, FinishQuiesce, AdoptBegin, AdoptEnd, Stage, StageFails,
     StageSecondWave, SecondWaveFails, InlineRead, InlineReadFails, DrainEnd, Evict,
     threads
<1>3. CASE Speculate \/ Shrink
  BY <1>3 DEF Speculate, Shrink, FinishQuiesce, IssueSettle, Issue, NoIssue, Prefetch, ShrinkTo,
     threads
<1>4. CASE Matmul \/ OverlapOffJoin \/ Release
  BY <1>4 DEF Matmul, Release, threads
<1>5. CASE Start
  BY <1>5 DEF Start, BeginLoad, Cancel, ShrinkBegin, Grow, OverlapOn, OverlapOff, Ended, vars,
     threads
<1>6. CASE UNCHANGED vars
  BY <1>6 DEF vars, threads
<1> QED BY <1>1, <1>2, <1>3, <1>4, <1>5, <1>6 DEF Next, Continue

\* The steps that stop the lanes.
LEMMA StopFrame ==
  ASSUME [Next]_vars
  PROVE  \/ UNCHANGED <<lane0_stop, io_stop>>
         \/ OverlapOn \/ OverlapOff \/ Shutdown
<1>1. CASE \E n \in Lane : LaneStep(n)
  BY <1>1 DEF LaneStep, BatchPull, BatchRead, BatchReadFails, BatchCount, SpecPull, SpecRead,
     SpecReadFails, WorkerExit, threads
<1>2. CASE Quiesce \/ Load
  BY <1>2 DEF Quiesce, Load, CancelSpec, FinishQuiesce, AdoptBegin, AdoptPull, AdoptEnd, Stage,
     StageFails, StageSecondWave, SecondWaveFails, InlineRead, InlineReadFails, DrainEnd,
     Evict, threads
<1>3. CASE Speculate \/ Shrink
  BY <1>3 DEF Speculate, Shrink, CancelSpec, FinishQuiesce, IssueSettle, Issue, NoIssue, Prefetch,
     ShrinkTo, threads
<1>4. CASE Matmul \/ OverlapOffJoin \/ Release
  BY <1>4 DEF Matmul, OverlapOffJoin, Release, threads
<1>5. CASE Start
  BY <1>5 DEF Start, BeginLoad, Cancel, ShrinkBegin, Grow, Ended, vars, threads
<1>6. CASE UNCHANGED vars
  BY <1>6 DEF vars, threads
<1> QED BY <1>1, <1>2, <1>3, <1>4, <1>5, <1>6 DEF Next, Continue

\* The steps that change the candidates.
LEMMA CandFrame ==
  ASSUME [Next]_vars
  PROVE  \/ UNCHANGED <<cand>>
         \/ \E asked \in SUBSET (Targets \X Expert) : Issue(asked)
         \/ \E k \in 0..Len(cand) : Prefetch(k)
<1>1. CASE \E n \in Lane : LaneStep(n)
  BY <1>1 DEF LaneStep, BatchPull, BatchRead, BatchReadFails, BatchCount, SpecPull, SpecRead,
     SpecReadFails, WorkerExit, threads
<1>2. CASE Quiesce \/ Load
  BY <1>2 DEF Quiesce, Load, CancelSpec, FinishQuiesce, AdoptBegin, AdoptPull, AdoptEnd, Stage,
     StageFails, StageSecondWave, SecondWaveFails, InlineRead, InlineReadFails, DrainEnd,
     Evict, threads
<1>3. CASE Speculate \/ Shrink
  BY <1>3 DEF Speculate, Shrink, CancelSpec, FinishQuiesce, IssueSettle, NoIssue, ShrinkTo, threads
<1>4. CASE Matmul \/ OverlapOffJoin \/ Release
  BY <1>4 DEF Matmul, OverlapOffJoin, Release, threads
<1>5. CASE Start
  BY <1>5 DEF Start, BeginLoad, Cancel, ShrinkBegin, Grow, OverlapOn, OverlapOff, Shutdown, Ended,
     vars, threads
<1>6. CASE UNCHANGED vars
  BY <1>6 DEF vars, threads
<1> QED BY <1>1, <1>2, <1>3, <1>4, <1>5, <1>6 DEF Next, Continue

(***************************************************************************)
(* First layer, Types: every value is in its range, lanes do only what the *)
(* place of the eval thread allows, the batch counter is the count.        *)
(***************************************************************************)

\* Where the eval thread is, after any step.
LEMMA PlaceTypes ==
  ASSUME TypeOK, [Next]_vars
  PROVE  pc' \in Places /\ il' \in Layer /\ ids' \in Seq(Expert) /\ overlap' \in BOOLEAN
<1>0. pc \in Places /\ il \in Layer /\ ids \in Seq(Expert) /\ overlap \in BOOLEAN
  BY DEF TypeOK
<1>a. 0 \in Layer /\ <<>> \in Seq(Expert) /\ (il + 1) % Layers \in Layer
  BY <1>0, StreamAssumption DEF Layer
<1>b. \A s \in BoundedSeq(Expert, TopK) : s \in Seq(Expert)
  <2>1. ASSUME NEW s \in BoundedSeq(Expert, TopK) PROVE s \in Seq(Expert)
    <3>1. PICK m \in 0..TopK : s \in [1..m -> Expert]
      BY DEF BoundedSeq, SeqOf
    <3> QED BY <3>1, StreamAssumption, FunctionIsSeq
  <2> QED BY <2>1
<1>1. CASE \E n \in Lane : LaneStep(n)
  BY <1>0, <1>1 DEF LaneStep, BatchPull, BatchRead, BatchReadFails, BatchCount, SpecPull, SpecRead,
     SpecReadFails, WorkerExit, where
<1>2. CASE Quiesce \/ Load
  BY <1>0, <1>2 DEF Quiesce, Load, CancelSpec, FinishQuiesce, AdoptBegin, AdoptPull, AdoptEnd, Stage,
     StageFails, StageSecondWave, SecondWaveFails, InlineRead, InlineReadFails, DrainEnd, Evict,
     where, Places
<1>3. CASE Speculate \/ Shrink
  BY <1>0, <1>3 DEF Speculate, Shrink, CancelSpec, FinishQuiesce, IssueSettle, Issue, NoIssue, Prefetch,
     ShrinkTo, where, Places
<1>4. CASE Matmul \/ OverlapOffJoin \/ Release
  BY <1>0, <1>a, <1>4 DEF Matmul, OverlapOffJoin, Release, Places
<1>5. CASE Start
  BY <1>0, <1>a, <1>b, <1>5 DEF Start, BeginLoad, Cancel, ShrinkBegin, Grow, OverlapOn, OverlapOff,
     Shutdown, Ended, vars, where, Places
<1>6. CASE UNCHANGED vars
  BY <1>0, <1>6 DEF vars, where
<1> QED BY <1>1, <1>2, <1>3, <1>4, <1>5, <1>6 DEF Next, Continue

\* The flags stay flags.
LEMMA FlagTypes ==
  ASSUME TypeOK, [Next]_vars
  PROVE  io_err' \in BOOLEAN /\ fatal' \in BOOLEAN /\ lane0_stop' \in BOOLEAN /\ io_stop' \in BOOLEAN
<1>0. io_err \in BOOLEAN /\ fatal \in BOOLEAN /\ lane0_stop \in BOOLEAN /\ io_stop \in BOOLEAN
  BY DEF TypeOK
<1>1. io_err' \in BOOLEAN /\ fatal' \in BOOLEAN
  BY <1>0, FatalFrame DEF Stage, SecondFails, SecondWaveFails, Shutdown, BatchReadFails, StageFails, ReadError
<1>2. lane0_stop' \in BOOLEAN /\ io_stop' \in BOOLEAN
  BY <1>0, StopFrame DEF OverlapOn, OverlapOff, Shutdown
<1> QED BY <1>1, <1>2

\* A lane does one of the things a lane does.
LEMMA LaneTypes ==
  ASSUME TypeOK, [Next]_vars
  PROVE  lane' \in [Lane -> Doings]
<1>0. lane \in [Lane -> Doings] /\ jobs \in Seq(Slice) /\ spec_jobs \in Seq(Slice) /\ 0 \in Lane
  BY SomeLane DEF TypeOK
<1>1. /\ Nobody \in Doings /\ Landed \in Doings /\ Gone \in Doings
      /\ \A s \in Slice : Reading(s) \in Doings
      /\ \A s \in Slice, own \in BOOLEAN : Speculating(s, own) \in Doings
  BY DEF Doings
<1>2. \A n \in Lane, x \in Doings : [lane EXCEPT ![n] = x] \in [Lane -> Doings]
  BY <1>0
<1>3. (jobs # <<>> => Head(jobs) \in Slice) /\ (spec_jobs # <<>> => Head(spec_jobs) \in Slice)
  BY <1>0, HeadTailFacts
<1>4. Disowned \in [Lane -> Doings]
  <2>1. ASSUME NEW n \in Lane PROVE (IF n \in InFlight THEN Speculating(lane[n].slice, FALSE) ELSE lane[n]) \in Doings
    <3>1. lane[n] \in Doings
      BY <1>0
    <3>2. n \in InFlight => lane[n].slice \in Slice
      BY <3>1, DoingFacts DEF InFlight
    <3> QED BY <3>1, <3>2, <1>1
  <2> QED BY <2>1 DEF Disowned
<1> QED BY <1>0, <1>1, <1>2, <1>3, <1>4, LaneFrame
       DEF AdoptPull, OverlapOffJoin, Shutdown, BatchPull, BatchRead, BatchReadFails, BatchCount,
           SpecPull, SpecRead, SpecReadFails, WorkerExit, CancelSpec

\* The entries a load visits are the routed ones.
LEMMA VisitedFacts ==
  ASSUME TypeOK
  PROVE  /\ Routed \subseteq Entry
         /\ InOrder \in Seq(Entry) /\ ToSet(InOrder) = Routed
         /\ Visited \in Seq(Entry) /\ ToSet(Visited) = Routed
         /\ overlap => IsInjective(Visited)
<1>0. il \in Layer /\ ids \in Seq(Expert)
  BY DEF TypeOK
<1>1. ToSet(ids) \subseteq Expert /\ ToSet(ids) = {ids[i] : i \in 1..Len(ids)}
  BY <1>0, ToSetFacts
<1>2. Routed \subseteq Entry
  BY <1>0, <1>1 DEF Routed, Entry
<1>3. DOMAIN ids = 1..Len(ids) /\ Len(ids) \in Nat /\ \A i \in 1..Len(ids) : ids[i] \in Expert
  BY <1>0
<1>4. InOrder \in [1..Len(ids) -> Entry] /\ \A i \in 1..Len(ids) : InOrder[i] = <<il, ids[i]>>
  BY <1>0, <1>3 DEF InOrder, Entry
<1>5. InOrder \in Seq(Entry) /\ Len(InOrder) = Len(ids)
  BY <1>3, <1>4, FunctionIsSeq
<1>6. ToSet(InOrder) = {InOrder[i] : i \in 1..Len(ids)}
  BY <1>5, ToSetFacts, Zenon
<1>7. ToSet(InOrder) = Routed
  BY <1>1, <1>4, <1>6 DEF Routed
<1>8. Ascending(Routed) \in Seq(Entry) /\ ToSet(Ascending(Routed)) = Routed /\ IsInjective(Ascending(Routed))
  BY <1>2, AscendingFacts
<1> QED BY <1>2, <1>5, <1>7, <1>8 DEF Visited

\* What the loops over sequences make are sequences of the same things.
LEMMA MadeOfEntries ==
  ASSUME TypeOK
  PROVE  /\ Eligible \in Seq(Entry) /\ ToSet(Eligible) = ToSet(spec_done) \ (valid \union Pending)
         /\ Misses(Visited) \in Seq(Entry) /\ SecondWave \in Seq(Entry)
         /\ ToSet(SecondWave) = {e \in Routed : <<e[2], 1>> \notin ready}
         /\ TouchAll(Visited) \in Seq(Entry)
<1>0. spec_done \in Seq(Entry) /\ lru \in Seq(Entry)
  BY DEF TypeOK
<1>1. Visited \in Seq(Entry) /\ InOrder \in Seq(Entry) /\ ToSet(Visited) = Routed /\ Routed \subseteq Entry
  BY VisitedFacts
<1>2. Eligible \in Seq(Entry) /\ ToSet(Eligible) = ToSet(spec_done) \intersect (Entry \ (valid \union Pending))
  BY <1>0, KeptFacts DEF Eligible
<1>3. ToSet(spec_done) \subseteq Entry
  BY <1>0, ToSetFacts
<1>4. Misses(Visited) \in Seq(Entry)
  BY <1>1, MissesFacts
<1>5. SecondWave \in Seq(Entry) /\ ToSet(SecondWave) = ToSet(Visited) \intersect {e \in Entry : <<e[2], 1>> \notin ready}
  BY <1>1, KeptFacts DEF SecondWave
<1>6. PushAll(lru, Misses(Visited)) \in Seq(Entry)
  BY <1>0, <1>4, PushAllFacts
<1>7. PromoteAll(PushAll(lru, Misses(Visited)), InOrder) \in Seq(Entry)
  BY <1>1, <1>6, PromoteAllFacts
<1>8. FoldLeft(Touch, lru, Visited) \in Seq(Entry)
  BY <1>0, <1>1, TouchFoldFacts
<1>9. TouchAll(Visited) \in Seq(Entry)
  BY <1>6, <1>7, <1>8 DEF TouchAll
<1>10. ToSet(SecondWave) = {e \in Routed : <<e[2], 1>> \notin ready}
  BY <1>1, <1>5
<1> QED BY <1>2, <1>3, <1>4, <1>5, <1>9, <1>10

\* Eviction takes a stretch off the cold end.
LEMMA EvictTailsFacts ==
  ASSUME TypeOK, NEW k \in 0..Len(lru), k <= resident, EvictTails(k)
  PROVE  /\ lru' \in Seq(Entry) /\ resident' \in Nat /\ resident' = resident - k
         /\ \E out \in SUBSET Entry :
               /\ out = Stretch(lru, Len(lru) - k + 1, Len(lru))
               /\ valid' = valid \ out
               /\ committed' = committed \ Slices(out) /\ filled' = filled \ Slices(out)
               /\ lru = lru' \o SubSeq(lru, Len(lru) - k + 1, Len(lru))
               /\ SubSeq(lru, Len(lru) - k + 1, Len(lru)) \in Seq(Entry)
               /\ ToSet(SubSeq(lru, Len(lru) - k + 1, Len(lru))) = out
<1>0. lru \in Seq(Entry) /\ resident \in Nat /\ Len(lru) \in Nat
  BY DEF TypeOK
<1> DEFINE c == Len(lru) - k
           out == Stretch(lru, c + 1, Len(lru))
<1>1. c \in 0..Len(lru) /\ c + 1 = Len(lru) - k + 1
  BY <1>0
<1> HIDE DEF c
<1>2. /\ SubSeq(lru, 1, c) \in Seq(Entry) /\ SubSeq(lru, c + 1, Len(lru)) \in Seq(Entry)
      /\ lru = SubSeq(lru, 1, c) \o SubSeq(lru, c + 1, Len(lru))
      /\ ToSet(SubSeq(lru, c + 1, Len(lru))) = out
  BY <1>0, <1>1, CutFacts
<1>3. out \subseteq Entry
  <2> DEFINE cut == SubSeq(lru, c + 1, Len(lru))
  <2> HIDE DEF cut
  <2>1. cut \in Seq(Entry) /\ ToSet(cut) = out
    BY <1>2 DEF cut
  <2>2. ToSet(cut) \subseteq Entry
    BY <2>1, ToSetFacts
  <2> QED BY <2>1, <2>2
<1>4. /\ lru' = SubSeq(lru, 1, c) /\ resident' = resident - k
      /\ valid' = valid \ out /\ committed' = committed \ Slices(out) /\ filled' = filled \ Slices(out)
  BY <1>1, Zenon DEF EvictTails, Stretch, c
<1>5. resident - k \in Nat
  BY <1>0
<1> QED BY <1>1, <1>2, <1>3, <1>4, <1>5

\* Neither loop evicts more than there is.
LEMMA EvictsWithin ==
  ASSUME TypeOK
  PROVE  /\ EvictStep => \E k \in 0..Len(lru) : k <= resident /\ EvictTails(k) /\ \A n \in 0..(k - 1) : Evictable(n)
         /\ \A b \in Budgets : ShrinkTo(b) => \E k \in 0..Len(lru) : k <= resident /\ EvictTails(k)
<1>0. lru \in Seq(Entry) /\ resident \in Nat /\ Len(lru) \in Nat /\ budget \in Nat
  BY DEF TypeOK
<1>1. ASSUME EvictStep
      PROVE  \E k \in 0..Len(lru) : k <= resident /\ EvictTails(k) /\ \A n \in 0..(k - 1) : Evictable(n)
  <2> DEFINE k == Evictions(Evictable)
  <2>1. k \in 0..Len(lru) /\ \A n \in 0..(k - 1) : Evictable(n)
    BY <1>0, EvictionsFacts
  <2>2. EvictTails(k)
    BY <1>1 DEF EvictStep
  <2> HIDE DEF k
  <2>3. k <= resident
    <3>1. CASE k = 0
      BY <3>1, <1>0
    <3>2. CASE k # 0
      <4>1. k - 1 \in 0..(k - 1)
        BY <2>1, <1>0, <3>2
      <4>2. Evictable(k - 1)
        BY <2>1, <4>1
      <4>3. resident > budget + (k - 1)
        BY <4>2 DEF Evictable, OverBudget
      <4> QED BY <4>3, <2>1, <1>0
    <3> QED BY <3>1, <3>2
  <2> QED BY <2>1, <2>2, <2>3
<1>2. ASSUME NEW b \in Budgets, ShrinkTo(b)
      PROVE  \E k \in 0..Len(lru) : k <= resident /\ EvictTails(k)
  <2> DEFINE k == Evictions(LAMBDA n : n < Len(lru) /\ resident > b + n)
  <2>0. b \in Nat
    BY StreamAssumption
  <2>1. k \in 0..Len(lru) /\ \A n \in 0..(k - 1) : resident > b + n
    BY <1>0, <2>0, ShrinkFacts
  <2>2. EvictTails(k)
    BY <1>2 DEF ShrinkTo
  <2> HIDE DEF k
  <2>3. k <= resident
    <3>1. CASE k = 0
      BY <3>1, <1>0
    <3>2. CASE k # 0
      <4>1. k - 1 \in 0..(k - 1)
        BY <2>1, <1>0, <3>2
      <4>2. resident > b + (k - 1)
        BY <2>1, <4>1
      <4> QED BY <4>2, <2>1, <2>0, <1>0
    <3> QED BY <3>1, <3>2
  <2> QED BY <2>1, <2>2, <2>3
<1> QED BY <1>1, <1>2

\* The cache's variables keep their types.
LEMMA CacheTypes ==
  ASSUME TypeOK, [Next]_vars
  PROVE  /\ valid' \subseteq Entry /\ staged' \subseteq Entry /\ lru' \in Seq(Entry)
         /\ resident' \in Nat /\ budget' \in Nat \ {0}
<1>0. /\ valid \subseteq Entry /\ staged \subseteq Entry /\ lru \in Seq(Entry)
      /\ resident \in Nat /\ budget \in Nat \ {0} /\ cand \in Seq(Entry) /\ spec_done \in Seq(Entry)
      /\ Len(lru) \in Nat
  BY DEF TypeOK
<1>1. budget' \in Nat \ {0}
  BY <1>0, BudgetFrame, StreamAssumption DEF Grow, ShrinkTo
<1>2. Visited \in Seq(Entry) /\ ToSet(Visited) = Routed /\ Routed \subseteq Entry
  BY VisitedFacts
<1>3. ASSUME NEW k \in DOMAIN Visited
      PROVE  SubSeq(Visited, 1, k - 1) \in Seq(Entry) /\ ToSet(SubSeq(Visited, 1, k - 1)) \subseteq Entry
  <2>1. Len(Visited) \in Nat /\ k \in 1..Len(Visited)
    BY <1>2
  <2>2. k - 1 \in 0..Len(Visited)
    BY <2>1
  <2> DEFINE cut == SubSeq(Visited, 1, k - 1)
  <2>3. cut \in Seq(Entry)
    BY <2>2, <1>2, CutFacts
  <2> HIDE DEF cut
  <2>4. ToSet(cut) \subseteq Entry
    BY <2>3, ToSetFacts
  <2> QED BY <2>3, <2>4 DEF cut
<1>4. ToSet(Eligible) \subseteq Entry /\ Len(Eligible) \in Nat /\ Eligible \in Seq(Entry)
  BY MadeOfEntries, ToSetFacts
<1>5. staged' \subseteq Entry
  BY <1>0, <1>2, <1>3, StagedFrame DEF AdoptEnd, Stage, IssueSettle, FinishQuiesce, StageFails, TouchEntries, Integrate
<1>6. CASE UNCHANGED <<valid, lru, resident>>
  BY <1>0, <1>1, <1>5, <1>6
<1>7. ASSUME Integrate PROVE valid' \subseteq Entry /\ lru' \in Seq(Entry) /\ resident' \in Nat
  <2>1. valid' \subseteq Entry /\ resident' \in Nat
    BY <1>0, <1>4, <1>7 DEF Integrate
  <2>2. PushAll(lru, Eligible) \in Seq(Entry) /\ lru \o Eligible \in Seq(Entry)
    BY <1>0, <1>4, PushAllFacts, ConcatFacts
  <2> QED BY <2>1, <2>2, <1>7 DEF Integrate
<1>8. CASE AdoptEnd \/ IssueSettle \/ \E from, to : FinishQuiesce(from, to)
  BY <1>1, <1>5, <1>7, <1>8 DEF AdoptEnd, IssueSettle, FinishQuiesce
<1>9. CASE Stage
  <2>1. Len(Misses(Visited)) \in Nat
    BY MadeOfEntries
  <2>2. valid' \subseteq Entry /\ resident' \in Nat
    BY <1>0, <1>2, <2>1, <1>9 DEF Stage, TouchEntries
  <2>3. lru' \in Seq(Entry)
    BY MadeOfEntries, <1>9 DEF Stage
  <2> QED BY <1>1, <1>5, <2>2, <2>3
<1>10. CASE \E k \in DOMAIN Visited, n \in Proj : StageFails(k, n)
  <2>1. PICK k \in DOMAIN Visited, n \in Proj : StageFails(k, n)
    BY <1>10
  <2> DEFINE es == SubSeq(Visited, 1, k - 1)
  <2>2. es \in Seq(Entry) /\ ToSet(es) \subseteq Entry
    BY <1>3
  <2>3. /\ valid' = valid \union ToSet(es) /\ resident' = resident + Len(Misses(es))
        /\ lru' = IF overlap THEN PushAll(lru, Misses(es)) ELSE FoldLeft(Touch, lru, es)
    BY <2>1, Zenon DEF StageFails, TouchEntries
  <2> HIDE DEF es
  <2>4. Misses(es) \in Seq(Entry) /\ FoldLeft(Touch, lru, es) \in Seq(Entry)
    BY <1>0, <2>2, MissesFacts, TouchFoldFacts
  <2>5. PushAll(lru, Misses(es)) \in Seq(Entry)
    BY <1>0, <2>4, PushAllFacts
  <2>6. Len(Misses(es)) \in Nat
    BY <2>4
  <2>7. valid' \subseteq Entry /\ resident' \in Nat
    BY <2>2, <2>3, <2>6, <1>0
  <2>8. lru' \in Seq(Entry)
    BY <2>3, <2>4, <2>5
  <2> QED BY <1>1, <1>5, <2>7, <2>8
<1>11. CASE Evict \/ \E b \in Budgets : ShrinkTo(b)
  <2>1. \E k \in 0..Len(lru) : k <= resident /\ EvictTails(k)
    BY <1>11, EvictsWithin DEF Evict
  <2>2. valid' \subseteq Entry /\ lru' \in Seq(Entry) /\ resident' \in Nat
    BY <2>1, <1>0, EvictTailsFacts
  <2> QED BY <1>1, <1>5, <2>2
<1>12. CASE \E asked \in SUBSET (Targets \X Expert) : Issue(asked)
  <2>1. PICK asked \in SUBSET (Targets \X Expert) : Issue(asked)
    BY <1>12
  <2> DEFINE es == Ascending(asked \intersect valid)
  <2>2. asked \intersect valid \in SUBSET Entry
    BY <1>0
  <2>3. es \in Seq(Entry)
    BY <2>2, AscendingFacts
  <2>4. lru' = PromoteAll(lru, es) /\ valid' = valid /\ resident' = resident
    BY <2>1 DEF Issue
  <2> HIDE DEF es
  <2>5. lru' \in Seq(Entry)
    BY <2>3, <2>4, <1>0, PromoteAllFacts
  <2> QED BY <1>0, <1>1, <1>5, <2>4, <2>5
<1>13. CASE StageSecondWave
  <2>1. Kept(InOrder, valid) \in Seq(Entry)
    BY VisitedFacts, KeptFacts
  <2>2. lru' = PromoteAll(lru, Kept(InOrder, valid)) /\ valid' = valid /\ resident' = resident
    BY <1>13, Zenon DEF StageSecondWave
  <2>3. lru' \in Seq(Entry)
    BY <2>1, <2>2, <1>0, PromoteAllFacts
  <2> QED BY <1>0, <1>1, <1>5, <2>2, <2>3
<1> QED BY <1>6, <1>8, <1>9, <1>10, <1>11, <1>12, <1>13, CacheFrame

\* A second wave that fails commits pages of its own experts only, and gives
\* none back.
LEMMA SecondFailsFacts ==
  ASSUME TypeOK, SecondFails
  PROVE  committed \subseteq committed' /\ committed' \subseteq committed \union (ToSet(SecondWave) \X Proj)
<1>1. PICK k \in DOMAIN SecondWave, n \in Proj : SecondWaveFails(k, n)
  BY DEF SecondFails
<1>2. SecondWave \in Seq(Entry) /\ Len(SecondWave) \in Nat /\ k \in 1..Len(SecondWave)
  BY MadeOfEntries
<1>3. k - 1 \in 0..Len(SecondWave)
  BY <1>2
<1> DEFINE cut == SubSeq(SecondWave, 1, k - 1)
<1>4. cut \in Seq(Entry) /\ Len(cut) = k - 1 /\ \A i \in 1..(k - 1) : cut[i] = SecondWave[i]
  BY <1>2, <1>3
<1>5. committed' = committed \union (ToSet(cut) \X Proj) \union ({SecondWave[k]} \X (0..n))
  BY <1>1, Zenon DEF SecondWaveFails
<1> HIDE DEF cut
<1>6. ToSet(cut) = {cut[i] : i \in 1..Len(cut)} /\ ToSet(SecondWave) = {SecondWave[i] : i \in 1..Len(SecondWave)}
  BY <1>2, <1>4, ToSetFacts
<1>7. ToSet(cut) \subseteq ToSet(SecondWave) /\ SecondWave[k] \in ToSet(SecondWave)
  BY <1>2, <1>4, <1>6
<1>8. 0..n \subseteq Proj
  BY StreamAssumption DEF Proj
<1> QED BY <1>5, <1>7, <1>8

\* The pages and the flags keep their types.
LEMMA PageTypes ==
  ASSUME TypeOK, [Next]_vars
  PROVE  committed' \subseteq Slice /\ filled' \subseteq Slice /\ ready' \subseteq Expert \X Proj
<1>0. /\ valid \subseteq Entry /\ staged \subseteq Entry /\ lru \in Seq(Entry) /\ ids \in Seq(Expert)
      /\ cand \in Seq(Entry) /\ Len(lru) \in Nat /\ committed \subseteq Slice /\ filled \subseteq Slice
      /\ ready \subseteq Expert \X Proj /\ jobs \in Seq(Slice) /\ lane \in [Lane -> Doings] /\ Len(cand) \in Nat
  BY DEF TypeOK
<1>1. /\ Visited \in Seq(Entry) /\ ToSet(Visited) = Routed /\ Routed \subseteq Entry
      /\ \A k \in DOMAIN Visited : Visited[k] \in Entry
  BY VisitedFacts
<1>2. FirstWave \subseteq Proj /\ 0 \in Proj /\ \A n \in Proj : 0..(n - 1) \subseteq Proj
  BY StreamAssumption DEF FirstWave, Proj
<1>3. \A es \in Seq(Entry) : ToSet(Misses(es)) \subseteq Entry /\ ToSet(es) \subseteq Entry
  BY MissesFacts, ToSetFacts
<1>4. ASSUME NEW k \in DOMAIN Visited PROVE SubSeq(Visited, 1, k - 1) \in Seq(Entry)
  <2>1. Len(Visited) \in Nat /\ k \in 1..Len(Visited)
    BY <1>1
  <2>2. k - 1 \in 0..Len(Visited)
    BY <2>1
  <2> QED BY <2>2, <1>1, CutFacts
<1>5. SecondWave \in Seq(Entry) /\ ToSet(SecondWave) \subseteq Entry
  BY MadeOfEntries, ToSetFacts
<1>6. \A k \in 0..Len(cand) : ToSet(Queued(k)) \subseteq Entry
  <2> TAKE k \in 0..Len(cand)
  <2>1. Queued(k) \in Seq(Entry)
    BY <1>0, CutFacts DEF Queued
  <2> QED BY <2>1, ToSetFacts
<1>7. jobs # <<>> => Head(jobs) \in Slice
  BY <1>0, HeadTailFacts
<1>8. \A n \in Lane : lane[n].doing \in {"batch", "spec"} => lane[n].slice \in Slice
  BY <1>0, DoingFacts
<1>9. (Evict \/ \E b \in Budgets : ShrinkTo(b)) => committed' \subseteq committed /\ filled' \subseteq filled
  BY DEF Evict, EvictStep, ShrinkTo, EvictTails
<1>10. \A e \in Entry : e[2] \in Expert
  BY DEF Entry
<1>11. \A s \in Slice : <<s[1][2], s[2]>> \in Expert \X Proj
  BY DEF Slice, Entry
<1>12. \A E : E \subseteq Entry => \A P : P \subseteq Proj => E \X P \subseteq Slice
  BY DEF Slice
<1>13. committed' \subseteq Slice
  <2>1. CASE Stage
    <3>1. ToSet(Misses(Visited)) \X FirstWave \subseteq Slice
      BY <1>1, <1>2, <1>3, <1>12
    <3> QED BY <3>1, <2>1, <1>0 DEF Stage
  <2>2. CASE StageSecondWave
    BY <2>2, <1>0, <1>5, <1>12 DEF StageSecondWave
  <2>3. ASSUME NEW k \in DOMAIN Visited, NEW n \in Proj, StageFails(k, n) PROVE committed' \subseteq Slice
    <3>1. ToSet(Misses(SubSeq(Visited, 1, k - 1))) \X FirstWave \subseteq Slice
      BY <1>2, <1>3, <1>4, <1>12
    <3>2. {Visited[k]} \X (0..(n - 1)) \subseteq Slice
      BY <1>1, <1>2, <1>12
    <3> QED BY <3>1, <3>2, <2>3, <1>0 DEF StageFails
  <2>4. ASSUME NEW k \in 0..Len(cand), Prefetch(k) PROVE committed' \subseteq Slice
    <3>1. Slices(ToSet(Queued(k))) \subseteq Slice
      BY <1>6, <1>12 DEF Slices
    <3> QED BY <3>1, <2>4, <1>0 DEF Prefetch
  <2>5. CASE Release \/ \E from, to : FinishQuiesce(from, to)
    BY <2>5, <1>0 DEF Release, FinishQuiesce
  <2>6. CASE SecondFails
    <3>1. ToSet(SecondWave) \X Proj \subseteq Slice
      BY <1>5, <1>12
    <3> QED BY <3>1, <2>6, <1>0, SecondFailsFacts
  <2> QED BY <2>1, <2>2, <2>3, <2>4, <2>5, <2>6, <1>0, <1>9, CommittedFrame
<1>14. filled' \subseteq Slice
  <2>1. CASE InlineRead
    BY <2>1, <1>0, <1>7 DEF InlineRead
  <2>2. CASE \E n \in Lane : BatchRead(n) \/ SpecRead(n)
    BY <2>2, <1>0, <1>8 DEF BatchRead, SpecRead
  <2>3. CASE Release \/ \E from, to : FinishQuiesce(from, to)
    BY <2>3, <1>0 DEF Release, FinishQuiesce
  <2>4. CASE \E k \in 0..Len(cand) : Prefetch(k)
    BY <2>4, <1>0 DEF Prefetch
  <2> QED BY <2>1, <2>2, <2>3, <2>4, <1>0, <1>9, FilledFrame
<1>15. ready' \subseteq Expert \X Proj
  <2>1. ASSUME NEW es \in Seq(Entry), TouchEntries(es) PROVE ready' \subseteq Expert \X Proj
    BY <2>1, <1>0, <1>10 DEF TouchEntries
  <2>2. CASE Stage
    BY <2>2, <2>1, <1>1 DEF Stage
  <2>3. ASSUME NEW k \in DOMAIN Visited, NEW n \in Proj, StageFails(k, n) PROVE ready' \subseteq Expert \X Proj
    BY <2>3, <2>1, <1>4 DEF StageFails
  <2>4. CASE \E n \in Lane : BatchRead(n) \/ BatchReadFails(n)
    <3>1. PICK n \in Lane : BatchRead(n) \/ BatchReadFails(n)
      BY <2>4
    <3>2. lane[n].slice \in Slice /\ RaiseFlag(lane[n].slice)
      BY <3>1, <1>8 DEF BatchRead, BatchReadFails
    <3> QED BY <3>2, <1>0, <1>11 DEF RaiseFlag
  <2> QED BY <2>2, <2>3, <2>4, <1>0, ReadyFrame
<1> QED BY <1>13, <1>14, <1>15

\* The queues keep their types.
LEMMA QueueTypes ==
  ASSUME TypeOK, [Next]_vars
  PROVE  /\ jobs' \in Seq(Slice) /\ spec_jobs' \in Seq(Slice) /\ spec_done' \in Seq(Entry)
         /\ spec_remaining' \in [Entry -> 0..Projs] /\ spec_touched' \subseteq Entry /\ cand' \in Seq(Entry)
<1>0. /\ cand \in Seq(Entry) /\ jobs \in Seq(Slice) /\ spec_jobs \in Seq(Slice) /\ spec_done \in Seq(Entry)
      /\ spec_remaining \in [Entry -> 0..Projs] /\ spec_touched \subseteq Entry /\ lane \in [Lane -> Doings]
  BY DEF TypeOK
<1>a. Projs \in Nat \ {0} /\ <<>> \in Seq(Slice) /\ <<>> \in Seq(Entry)
  BY StreamAssumption
<1>1. (jobs # <<>> => Tail(jobs) \in Seq(Slice)) /\ (spec_jobs # <<>> => Tail(spec_jobs) \in Seq(Slice))
  BY <1>0
<1>2. \A P \in Seq(Proj), es \in Seq(Entry) : ProjMajor(es, P) \in Seq(Slice) /\ EntryMajor(es) \in Seq(Slice)
  BY ProjMajorFacts, EntryMajorFacts
<1>3. AllProjs \in Seq(Proj) /\ LaterProjs \in Seq(Proj) /\ <<0>> \in Seq(Proj)
  <2>1. AllProjs \in [1..Projs -> Proj] /\ LaterProjs \in [1..(Projs - 1) -> Proj] /\ Projs - 1 \in Nat
    BY <1>a DEF AllProjs, LaterProjs, Proj
  <2>2. 0 \in Proj
    BY <1>a DEF Proj
  <2> QED BY <2>1, <2>2, <1>a, FunctionIsSeq
<1>4. Misses(Visited) \in Seq(Entry) /\ SecondWave \in Seq(Entry)
  BY MadeOfEntries
<1>5. \A k \in 0..Len(cand) : Queued(k) \in Seq(Entry) /\ ToSet(Queued(k)) \subseteq Entry
  <2> TAKE k \in 0..Len(cand)
  <2>1. Queued(k) \in Seq(Entry)
    BY <1>0, CutFacts DEF Queued
  <2> QED BY <2>1, ToSetFacts
<1>6. jobs' \in Seq(Slice)
  <2>1. CASE Stage
    BY <2>1, <1>2, <1>3, <1>4, Zenon DEF Stage
  <2>2. CASE StageSecondWave
    <3>1. ProjMajor(SecondWave, LaterProjs) \in Seq(Slice)
      BY <1>2, <1>3, <1>4
    <3>2. jobs' = jobs \o ProjMajor(SecondWave, LaterProjs)
      BY <2>2 DEF StageSecondWave
    <3> QED BY <3>1, <3>2, <1>0, ConcatFacts
  <2> QED BY <2>1, <2>2, <1>0, <1>a, <1>1, JobsFrame DEF InlineRead, InlineReadFails, Release, BatchPull
<1>7. spec_jobs' \in Seq(Slice)
  <2>1. CASE AdoptBegin
    <3>1. OfLayer(spec_jobs, il) \in Seq(Slice) /\ NotOfLayer(spec_jobs, il) \in Seq(Slice)
      BY <1>0, KeptFacts DEF OfLayer, NotOfLayer
    <3>2. spec_jobs' = OfLayer(spec_jobs, il) \o NotOfLayer(spec_jobs, il)
      BY <2>1 DEF AdoptBegin
    <3> QED BY <3>1, <3>2, ConcatFacts
  <2>2. ASSUME NEW k \in 0..Len(cand), Prefetch(k) PROVE spec_jobs' \in Seq(Slice)
    <3>1. EntryMajor(Queued(k)) \in Seq(Slice)
      BY <1>2, <1>3, <1>5
    <3>2. spec_jobs' = spec_jobs \o EntryMajor(Queued(k))
      BY <2>2, Zenon DEF Prefetch
    <3> QED BY <3>1, <3>2, <1>0, ConcatFacts
  <2> QED BY <2>1, <2>2, <1>0, <1>a, <1>1, QueueFrame DEF AdoptPull, Shutdown, SpecPull, CancelSpec
<1>8. \A n \in Lane : lane[n].doing = "spec" => lane[n].slice \in Slice /\ lane[n].slice[1] \in Entry
  BY <1>0, DoingFacts DEF Slice
<1>9. ASSUME NEW e \in Entry, CountDown(e)
      PROVE  spec_remaining' \in [Entry -> 0..Projs] /\ spec_done' \in Seq(Entry)
  <2>1. spec_remaining[e] \in 0..Projs
    BY <1>0
  <2>2. spec_remaining[e] # 0 => spec_remaining[e] - 1 \in 0..Projs
    BY <2>1, <1>a
  <2>3. spec_remaining' \in [Entry -> 0..Projs]
    <3>1. CASE spec_remaining[e] = 0
      BY <3>1, <1>9, <1>0 DEF CountDown
    <3>2. CASE spec_remaining[e] # 0
      <4>1. spec_remaining' = [spec_remaining EXCEPT ![e] = spec_remaining[e] - 1]
        BY <3>2, <1>9 DEF CountDown
      <4> QED BY <4>1, <2>2, <3>2, <1>0
    <3> QED BY <3>1, <3>2
  <2>4. Append(spec_done, e) \in Seq(Entry)
    BY <1>0, AppendFacts
  <2>5. spec_done' \in {spec_done, Append(spec_done, e)}
    BY <1>9 DEF CountDown
  <2> QED BY <2>3, <2>4, <2>5, <1>0
<1>10. spec_done' \in Seq(Entry)
  <2>1. CASE \E n \in Lane : SpecRead(n)
    BY <2>1, <1>0, <1>8, <1>9 DEF SpecRead
  <2> QED BY <2>1, <1>0, <1>a, DoneFrame DEF AdoptEnd, IssueSettle, FinishQuiesce, Release, Integrate
<1>11. spec_remaining' \in [Entry -> 0..Projs]
  <2>1. CASE \E n \in Lane : SpecRead(n)
    BY <2>1, <1>0, <1>8, <1>9 DEF SpecRead
  <2>2. CASE \E n \in Lane : SpecReadFails(n)
    BY <2>2, <1>0, <1>a, <1>8 DEF SpecReadFails, Forget
  <2>3. CASE \E from, to : FinishQuiesce(from, to)
    BY <2>3, <1>0, <1>a DEF FinishQuiesce
  <2>4. CASE \E k \in 0..Len(cand) : Prefetch(k)
    BY <2>4, <1>0, <1>a DEF Prefetch
  <2> QED BY <2>1, <2>2, <2>3, <2>4, <1>0, RemainingFrame
<1>12. spec_touched' \subseteq Entry
  BY <1>0, <1>5, TouchedFrame DEF AdoptBegin, Release, FinishQuiesce, Prefetch
<1>13. cand' \in Seq(Entry)
  <2>1. ASSUME NEW asked \in SUBSET (Targets \X Expert), Issue(asked) PROVE cand' \in Seq(Entry)
    <3>1. Targets \subseteq Layer
      BY DEF Targets
    <3>2. {e \in asked : e \notin valid /\ spec_remaining[e] = 0} \in SUBSET Entry
      BY <3>1 DEF Entry
    <3> QED BY <3>2, <2>1, AscendingFacts, Zenon DEF Issue
  <2> QED BY <2>1, <1>0, <1>a, CandFrame DEF Prefetch
<1> QED BY <1>6, <1>7, <1>10, <1>11, <1>12, <1>13

\* The lanes that have a job of the batch, read or to be counted.
Busy == {n \in Lane : lane[n].doing \in {"batch", "landed"}}

\* How many lanes that is, after a lane turned to something else.
LEMMA BusyFacts ==
  ASSUME TypeOK
  PROVE  /\ IsFiniteSet(Busy) /\ Cardinality(Busy) \in Nat
         /\ Cardinality(Busy) = 0 <=> \A n \in Lane : lane[n].doing \notin {"batch", "landed"}
         /\ \A n \in Lane, x \in Doings :
               lane' = [lane EXCEPT ![n] = x] =>
                 /\ Busy' = IF x.doing \in {"batch", "landed"} THEN Busy \union {n} ELSE Busy \ {n}
                 /\ Cardinality(Busy') =
                      IF x.doing \in {"batch", "landed"}
                        THEN IF n \in Busy THEN Cardinality(Busy) ELSE Cardinality(Busy) + 1
                        ELSE IF n \in Busy THEN Cardinality(Busy) - 1 ELSE Cardinality(Busy)
         /\ lane' = Disowned => Busy' = Busy
<1>0. lane \in [Lane -> Doings]
  BY DEF TypeOK
<1>1. IsFiniteSet(Busy) /\ Cardinality(Busy) \in Nat
  <2>1. Busy \subseteq Lane /\ IsFiniteSet(Lane)
    BY SomeLane DEF Busy
  <2> QED BY <2>1, FS_Subset, FS_CardinalityType
<1>2. Cardinality(Busy) = 0 <=> \A n \in Lane : lane[n].doing \notin {"batch", "landed"}
  <2>1. Cardinality(Busy) = 0 <=> Busy = {}
    BY <1>1, FS_EmptySet
  <2> QED BY <2>1 DEF Busy
<1>3. ASSUME NEW n \in Lane, NEW x \in Doings, lane' = [lane EXCEPT ![n] = x]
      PROVE  /\ Busy' = IF x.doing \in {"batch", "landed"} THEN Busy \union {n} ELSE Busy \ {n}
             /\ Cardinality(Busy') =
                  IF x.doing \in {"batch", "landed"}
                    THEN IF n \in Busy THEN Cardinality(Busy) ELSE Cardinality(Busy) + 1
                    ELSE IF n \in Busy THEN Cardinality(Busy) - 1 ELSE Cardinality(Busy)
  <2>1. lane'[n] = x /\ \A m \in Lane \ {n} : lane'[m] = lane[m]
    BY <1>0, <1>3
  <2>2. Busy' = IF x.doing \in {"batch", "landed"} THEN Busy \union {n} ELSE Busy \ {n}
    BY <2>1 DEF Busy
  <2>3. /\ Cardinality(Busy \union {n}) = IF n \in Busy THEN Cardinality(Busy) ELSE Cardinality(Busy) + 1
        /\ Cardinality(Busy \ {n}) = IF n \in Busy THEN Cardinality(Busy) - 1 ELSE Cardinality(Busy)
    BY <1>1, FS_AddElement, FS_RemoveElement
  <2> QED BY <2>2, <2>3
<1>4. ASSUME lane' = Disowned PROVE Busy' = Busy
  <2>1. \A n \in Lane : lane'[n] = IF n \in InFlight THEN Speculating(lane[n].slice, FALSE) ELSE lane[n]
    BY <1>4 DEF Disowned
  <2>2. ASSUME NEW n \in Lane PROVE lane'[n].doing = lane[n].doing
    <3>1. CASE n \in InFlight
      <4>1. lane'[n] = Speculating(lane[n].slice, FALSE) /\ lane[n].doing = "spec"
        BY <3>1, <2>1 DEF InFlight
      <4>2. Speculating(lane[n].slice, FALSE).doing = "spec"
        BY DEF Speculating
      <4> QED BY <4>1, <4>2
    <3>2. CASE n \notin InFlight
      BY <3>2, <2>1
    <3> QED BY <3>1, <3>2
  <2> QED BY <2>2 DEF Busy
<1> QED BY <1>1, <1>2, <1>3, <1>4

\* Where the eval thread may be, and what the lanes may do meanwhile.
PlaceInv ==
    /\ overlap \in Modes /\ budget \in Budgets
    /\ io_stop <=> pc \in {"stopping", "off"}
    /\ (lane0_stop /\ overlap <=> pc = "joining") /\ (pc = "joining" => FALSE \in Modes)
    /\ pc = "wave2" => overlap /\ TwoWave
    /\ pc \in {"drain", "inline"} => ~overlap
    /\ pc = "adopting" => Adopt
    /\ pc = "cancelled" => ~Adopt
    /\ pc \in {"shrink", "shrink_cancelled", "shrunk"} => \E b \in Budgets : b < budget
    /\ pc \in {"shrink", "shrink_cancelled", "shrunk", "joining"} => il = 0
    /\ pc \in {"stopping", "off"} => fatal
    /\ ~overlap /\ pc # "adopting" => lane[0].doing # "spec"

\* batch_njobs_ - done_cnt_ is the jobs not yet taken and the lanes that have one.
UndoneInv ==
    /\ undone = (IF pc = "inline" THEN 0 ELSE Len(jobs)) + Cardinality(Busy)
    /\ ~overlap /\ pc # "drain" => undone = 0
    /\ pc \in {"quiesce", "cancelled", "adopting", "stage", "joining"} => undone = 0

\* The first layer of the invariant.
Types == TypeOK /\ PlaceInv /\ UndoneInv

\* At most the lanes of the batch are counted down.
LEMMA UndoneTypes ==
  ASSUME Types, [Next]_vars
  PROVE  undone' \in Nat
<1>0. /\ undone \in Nat /\ jobs \in Seq(Slice) /\ lane \in [Lane -> Doings] /\ Len(jobs) \in Nat
  BY DEF Types, TypeOK
<1>1. IsFiniteSet(Busy) /\ Cardinality(Busy) \in Nat
  BY BusyFacts DEF Types
<1>2. CASE \E n \in Lane : BatchCount(n)
  <2>1. PICK n \in Lane : BatchCount(n)
    BY <1>2
  <2>2. undone' = undone - 1 /\ lane[n].doing = "landed"
    BY <2>1, LaneRecords DEF BatchCount
  <2>3. Cardinality(Busy) # 0
    BY <2>2, BusyFacts DEF Types
  <2>4. undone # 0
    BY <1>0, <1>1, <2>3 DEF Types, UndoneInv
  <2> QED BY <2>2, <2>4, <1>0
<1>3. CASE Stage
  <2>1. TypeOK /\ jobs' \in Seq(Slice)
    BY QueueTypes DEF Types
  <2>2. undone' \in {undone, Len(jobs')}
    BY <1>3 DEF Stage
  <2> QED BY <2>1, <2>2, <1>0
<1>4. CASE StageSecondWave
  <2>1. SecondWave \in Seq(Entry) /\ Projs \in Nat \ {0}
    BY MadeOfEntries, StreamAssumption DEF Types
  <2>2. Len(SecondWave) \in Nat /\ Projs - 1 \in Nat
    BY <2>1
  <2>3. Len(SecondWave) * (Projs - 1) \in Nat
    BY <2>2
  <2>4. undone' = undone + Len(SecondWave) * (Projs - 1)
    BY <1>4 DEF StageSecondWave
  <2> QED BY <2>3, <2>4, <1>0
<1>5. CASE Release
  BY <1>5 DEF Release
<1> QED BY <1>0, <1>2, <1>3, <1>4, <1>5, UndoneFrame

\* The types are kept.
LEMMA TypesStep ==
  ASSUME Types, [Next]_vars
  PROVE  TypeOK'
<1>1. TypeOK
  BY DEF Types
<1>2. /\ pc' \in Places /\ il' \in Layer /\ ids' \in Seq(Expert) /\ overlap' \in BOOLEAN
  BY <1>1, PlaceTypes
<1>3. io_err' \in BOOLEAN /\ fatal' \in BOOLEAN /\ lane0_stop' \in BOOLEAN /\ io_stop' \in BOOLEAN
  BY <1>1, FlagTypes
<1>4. lane' \in [Lane -> Doings] /\ undone' \in Nat
  BY <1>1, LaneTypes, UndoneTypes
<1>5. /\ valid' \subseteq Entry /\ staged' \subseteq Entry /\ lru' \in Seq(Entry)
      /\ resident' \in Nat /\ budget' \in Nat \ {0}
  BY <1>1, CacheTypes
<1>6. committed' \subseteq Slice /\ filled' \subseteq Slice /\ ready' \subseteq Expert \X Proj
  BY <1>1, PageTypes
<1>7. /\ jobs' \in Seq(Slice) /\ spec_jobs' \in Seq(Slice) /\ spec_done' \in Seq(Entry)
      /\ spec_remaining' \in [Entry -> 0..Projs] /\ spec_touched' \subseteq Entry /\ cand' \in Seq(Entry)
  BY <1>1, QueueTypes
<1> QED BY <1>2, <1>3, <1>4, <1>5, <1>6, <1>7, Zenon DEF TypeOK

\* The place of the eval thread and the modes it is in agree after any step.
LEMMA PlaceStep ==
  ASSUME Types, [Next]_vars
  PROVE  PlaceInv'
<1>0. /\ pc \in Places /\ il \in Layer /\ overlap \in BOOLEAN /\ lane0_stop \in BOOLEAN /\ io_stop \in BOOLEAN
      /\ fatal \in BOOLEAN /\ lane \in [Lane -> Doings] /\ 0 \in Lane /\ TypeOK
  BY SomeLane DEF Types, TypeOK
<1>1. PlaceInv
  BY DEF Types
<1>v. UNCHANGED vars => UNCHANGED <<pc, il, overlap, budget>>
  BY DEF vars, where, cache
<1>2. overlap' \in Modes /\ budget' \in Budgets
  <2>1. overlap' \in Modes
    <3>1. CASE \E n \in Lane : LaneStep(n)
      BY <1>1, <3>1 DEF LaneStep, BatchPull, BatchRead, BatchReadFails, BatchCount, SpecPull, SpecRead,
         SpecReadFails, WorkerExit, where, PlaceInv
    <3>2. CASE Quiesce \/ Load
      BY <1>1, <3>2 DEF Quiesce, Load, CancelSpec, FinishQuiesce, AdoptBegin, AdoptPull, AdoptEnd, Stage,
         StageFails, StageSecondWave, SecondWaveFails, InlineRead, InlineReadFails, DrainEnd, Evict, where, PlaceInv
    <3>3. CASE Speculate \/ Shrink
      BY <1>1, <3>3 DEF Speculate, Shrink, CancelSpec, FinishQuiesce, IssueSettle, Issue, NoIssue, Prefetch,
         ShrinkTo, where, PlaceInv
    <3>4. CASE Matmul \/ OverlapOffJoin \/ Release
      <4>1. OverlapOffJoin => FALSE \in Modes
        BY <1>1, <1>0 DEF OverlapOffJoin, PlaceInv
      <4> QED BY <1>1, <3>4 DEF Matmul, OverlapOffJoin, Release, PlaceInv
    <3>5. CASE Start
      BY <1>1, <3>5 DEF Start, BeginLoad, Cancel, ShrinkBegin, Grow, OverlapOn, OverlapOff,
         Shutdown, Ended, vars, where, PlaceInv
    <3>6. CASE UNCHANGED vars
      BY <1>1, <3>6 DEF vars, where, PlaceInv
    <3> QED BY <3>1, <3>2, <3>3, <3>4, <3>5, <3>6 DEF Next, Continue
  <2>2. budget' \in Budgets
    BY <1>1, BudgetFrame DEF Grow, ShrinkTo, PlaceInv
  <2> QED BY <2>1, <2>2
<1>3. (io_stop' <=> pc' \in {"stopping", "off"}) /\ (pc' \in {"stopping", "off"} => fatal')
  <2>0. (io_stop <=> pc \in {"stopping", "off"}) /\ (pc \in {"stopping", "off"} => fatal)
    BY <1>1 DEF PlaceInv
  <2>1. CASE \E n \in Lane : LaneStep(n)
    BY <1>0, <2>0, <2>1 DEF LaneStep, BatchPull, BatchRead, BatchReadFails, BatchCount, SpecPull, SpecRead,
       SpecReadFails, WorkerExit, ReadError, where, threads, batch
  <2>2. CASE Quiesce \/ Load
    BY <1>0, <2>0, <2>2 DEF Quiesce, Load, CancelSpec, FinishQuiesce, AdoptBegin, AdoptPull, AdoptEnd, Stage,
       StageFails, StageSecondWave, SecondWaveFails, InlineRead, InlineReadFails, DrainEnd, Evict, where, threads, batch
  <2>3. CASE Speculate \/ Shrink
    BY <1>0, <2>0, <2>3 DEF Speculate, Shrink, CancelSpec, FinishQuiesce, IssueSettle, Issue, NoIssue, Prefetch,
       ShrinkTo, where, threads, batch
  <2>4. CASE Matmul \/ OverlapOffJoin \/ Release
    BY <1>0, <2>0, <2>4 DEF Matmul, OverlapOffJoin, Release, where, threads, batch
  <2>5. CASE Start
    BY <1>0, <2>0, <2>5 DEF Start, BeginLoad, Cancel, ShrinkBegin, Grow, OverlapOn, OverlapOff,
       Shutdown, Ended, BetweenDecodes, vars, where, threads, batch
  <2>6. CASE UNCHANGED vars
    BY <1>0, <2>0, <2>6 DEF vars, where, threads, batch
  <2> QED BY <2>1, <2>2, <2>3, <2>4, <2>5, <2>6 DEF Next, Continue
<1>4. (lane0_stop' /\ overlap' <=> pc' = "joining") /\ (pc' = "joining" => FALSE \in Modes)
  <2>0. (lane0_stop /\ overlap <=> pc = "joining") /\ (pc = "joining" => FALSE \in Modes)
    BY <1>1 DEF PlaceInv
  <2>1. CASE \E n \in Lane : LaneStep(n)
    BY <1>0, <2>0, <2>1 DEF LaneStep, BatchPull, BatchRead, BatchReadFails, BatchCount, SpecPull, SpecRead,
       SpecReadFails, WorkerExit, ReadError, where, threads
  <2>2. CASE Quiesce \/ Load
    BY <1>0, <2>0, <2>2 DEF Quiesce, Load, CancelSpec, FinishQuiesce, AdoptBegin, AdoptPull, AdoptEnd, Stage,
       StageFails, StageSecondWave, SecondWaveFails, InlineRead, InlineReadFails, DrainEnd, Evict, where, threads
  <2>3. CASE Speculate \/ Shrink
    BY <1>0, <2>0, <2>3 DEF Speculate, Shrink, CancelSpec, FinishQuiesce, IssueSettle, Issue, NoIssue, Prefetch,
       ShrinkTo, where, threads
  <2>4. CASE Matmul \/ OverlapOffJoin \/ Release
    BY <1>0, <2>0, <2>4 DEF Matmul, OverlapOffJoin, Release, where, threads
  <2>5. CASE Start
    BY <1>0, <2>0, <2>5 DEF Start, BeginLoad, Cancel, ShrinkBegin, Grow, OverlapOn, OverlapOff,
       Shutdown, Ended, BetweenDecodes, vars, where, threads
  <2>6. CASE UNCHANGED vars
    BY <1>0, <2>0, <2>6 DEF vars, where, threads
  <2> QED BY <2>1, <2>2, <2>3, <2>4, <2>5, <2>6 DEF Next, Continue
<1>5. /\ pc' = "wave2" => overlap' /\ TwoWave
      /\ pc' \in {"drain", "inline"} => ~overlap'
      /\ pc' = "adopting" => Adopt
      /\ pc' = "cancelled" => ~Adopt
  <2>0. /\ pc = "wave2" => overlap /\ TwoWave
        /\ pc \in {"drain", "inline"} => ~overlap
        /\ pc = "adopting" => Adopt
        /\ pc = "cancelled" => ~Adopt
    BY <1>1 DEF PlaceInv
  <2>1. CASE \E n \in Lane : LaneStep(n)
    BY <1>0, <2>0, <2>1 DEF LaneStep, BatchPull, BatchRead, BatchReadFails, BatchCount, SpecPull, SpecRead,
       SpecReadFails, WorkerExit, ReadError, where
  <2>a. Adopt \in BOOLEAN /\ TwoWave \in BOOLEAN
    BY StreamAssumption
  <2>b. CASE Stage
    <3>1. overlap' = overlap /\ pc' \in {"inline", IF ~overlap THEN "drain" ELSE IF TwoWave THEN "wave2" ELSE "evict"}
          /\ (pc' = "inline" => ~overlap)
      BY <2>b, Zenon DEF Stage
    <3> QED BY <3>1, <2>a, <1>0
  <2>c. CASE Quiesce
    BY <1>0, <2>0, <2>a, <2>c DEF Quiesce, CancelSpec, FinishQuiesce, AdoptBegin, AdoptPull, AdoptEnd, where
  <2>d. CASE StageSecondWave \/ SecondFails \/ InlineReadFails \/ DrainEnd \/ Evict
              \/ \E k \in DOMAIN Visited, n \in Proj : StageFails(k, n)
    BY <2>d DEF StageFails, StageSecondWave, SecondFails, SecondWaveFails, InlineReadFails, DrainEnd, Evict
  <2>e. CASE InlineRead
    BY <1>0, <2>0, <2>e DEF InlineRead
  <2>2. CASE Quiesce \/ Load
    BY <2>2, <2>b, <2>c, <2>d, <2>e DEF Load, SecondFails
  <2>3. CASE Speculate \/ Shrink
    BY <1>0, <2>0, <2>3 DEF Speculate, Shrink, CancelSpec, FinishQuiesce, IssueSettle, Issue, NoIssue, Prefetch,
       ShrinkTo, where
  <2>4. CASE Matmul \/ OverlapOffJoin \/ Release
    BY <1>0, <2>0, <2>4 DEF Matmul, OverlapOffJoin, Release, where
  <2>5. CASE Start
    BY <1>0, <2>0, <2>5 DEF Start, BeginLoad, Cancel, ShrinkBegin, Grow, OverlapOn, OverlapOff,
       Shutdown, Ended, BetweenDecodes, vars, where
  <2>6. CASE UNCHANGED vars
    BY <1>v, <2>0, <2>6
  <2> QED BY <2>1, <2>2, <2>3, <2>4, <2>5, <2>6 DEF Next, Continue
<1>6. /\ pc' \in {"shrink", "shrink_cancelled", "shrunk"} => \E b \in Budgets : b < budget'
      /\ pc' \in {"shrink", "shrink_cancelled", "shrunk", "joining"} => il' = 0
  <2>0. /\ pc \in {"shrink", "shrink_cancelled", "shrunk"} => \E b \in Budgets : b < budget
        /\ pc \in {"shrink", "shrink_cancelled", "shrunk", "joining"} => il = 0
    BY <1>1 DEF PlaceInv
  <2>1. CASE \E n \in Lane : LaneStep(n)
    BY <1>0, <2>0, <2>1 DEF LaneStep, BatchPull, BatchRead, BatchReadFails, BatchCount, SpecPull, SpecRead,
       SpecReadFails, WorkerExit, ReadError, where, cache
  <2>2. CASE Quiesce \/ Load
    BY <1>0, <2>0, <2>2 DEF Quiesce, Load, CancelSpec, FinishQuiesce, AdoptBegin, AdoptPull, AdoptEnd, Stage,
       StageFails, StageSecondWave, SecondWaveFails, InlineRead, InlineReadFails, DrainEnd, Evict, where, cache
  <2>3. CASE Speculate \/ Shrink
    BY <1>0, <2>0, <2>3 DEF Speculate, Shrink, CancelSpec, FinishQuiesce, IssueSettle, Issue, NoIssue, Prefetch,
       ShrinkTo, where, cache
  <2>4. CASE Matmul \/ OverlapOffJoin \/ Release
    BY <1>0, <2>0, <2>4 DEF Matmul, OverlapOffJoin, Release, where, cache
  <2>5. CASE Start
    <3>1. CASE ShrinkBegin
      BY <3>1, <1>0 DEF ShrinkBegin, BetweenDecodes, cache
    <3>2. CASE \E b \in Budgets : Grow(b)
      BY <3>2, <1>0, <2>0 DEF Grow, BetweenDecodes, where
    <3>3. CASE Cancel \/ OverlapOn \/ OverlapOff \/ Shutdown \/ \E s \in BoundedSeq(Expert, TopK) : BeginLoad(s)
      BY <1>0, <2>0, <3>3 DEF Cancel, OverlapOn, OverlapOff, Shutdown, BeginLoad, BetweenDecodes, where, cache
    <3>4. CASE UNCHANGED vars
      BY <1>v, <2>0, <3>4
    <3> QED BY <2>5, <3>1, <3>2, <3>3, <3>4 DEF Start, Ended
  <2>6. CASE UNCHANGED vars
    BY <1>v, <2>0, <2>6
  <2> QED BY <2>1, <2>2, <2>3, <2>4, <2>5, <2>6 DEF Next, Continue
<1>7. ~overlap' /\ pc' # "adopting" => lane'[0].doing # "spec"
  <2>0. ~overlap /\ pc # "adopting" => lane[0].doing # "spec"
    BY <1>1 DEF PlaceInv
  <2>1. /\ Nobody.doing # "spec" /\ Landed.doing # "spec" /\ Gone.doing # "spec"
        /\ \A s : Reading(s).doing # "spec"
    BY LaneRecords, Zenon
  <2>a. lane'[0].doing = "spec" => lane[0].doing = "spec" \/ (\E n \in Lane : SpecPull(n)) \/ AdoptPull
    <3>1. lane' = Disowned => lane'[0].doing = lane[0].doing
      <4>1. lane' = Disowned => lane'[0] = IF 0 \in InFlight THEN Speculating(lane[0].slice, FALSE) ELSE lane[0]
        BY <1>0 DEF Disowned
      <4>2. Speculating(lane[0].slice, FALSE).doing = "spec"
        BY DEF Speculating
      <4> QED BY <4>1, <4>2, <1>0 DEF InFlight
    <3> QED BY <1>0, <2>1, <3>1, LaneFrame DEF OverlapOffJoin, Shutdown, BatchPull, BatchRead, BatchReadFails,
          BatchCount, SpecRead, SpecReadFails, WorkerExit, CancelSpec
  <2>b. \/ ~overlap' /\ pc' # "adopting" => ~overlap /\ pc # "adopting"
        \/ lane[0] = Nobody /\ lane' = lane
        \/ lane'[0] = Nobody
    <3>1. CASE \E n \in Lane : LaneStep(n)
      BY <3>1 DEF LaneStep, BatchPull, BatchRead, BatchReadFails, BatchCount, SpecPull, SpecRead,
         SpecReadFails, WorkerExit, where
    <3>2. CASE Quiesce
      BY <1>0, <3>2 DEF Quiesce, CancelSpec, FinishQuiesce, AdoptBegin, AdoptPull, AdoptEnd, where, threads
    <3>3. CASE Load
      BY <3>3 DEF Load, Stage, StageFails, StageSecondWave, SecondWaveFails, InlineRead, InlineReadFails, DrainEnd, Evict
    <3>4. CASE Speculate \/ Shrink
      BY <3>4 DEF Speculate, Shrink, CancelSpec, FinishQuiesce, IssueSettle, Issue, NoIssue, Prefetch, ShrinkTo, where
    <3>5. CASE Matmul \/ OverlapOffJoin \/ Release
      BY <1>0, <3>5 DEF Matmul, OverlapOffJoin, Release
    <3>6. CASE Start
      BY <1>0, <3>6 DEF Start, BeginLoad, Cancel, ShrinkBegin, Grow, OverlapOn, OverlapOff, Shutdown, Ended, BetweenDecodes, vars, where
    <3>7. CASE UNCHANGED vars
      BY <3>7 DEF vars, where
    <3> QED BY <3>1, <3>2, <3>3, <3>4, <3>5, <3>6, <3>7 DEF Next, Continue
  <2>c. (\E n \in Lane : SpecPull(n)) \/ AdoptPull => (~overlap' /\ pc' # "adopting" => lane'[0] = lane[0])
    BY <1>0 DEF SpecPull, AdoptPull, Served, where
  <2> QED BY <2>0, <2>1, <2>a, <2>b, <2>c
<1> QED BY <1>2, <1>3, <1>4, <1>5, <1>6, <1>7 DEF PlaceInv

\* The batch is counted right after any step.
LEMMA UndoneStep ==
  ASSUME Types, [Next]_vars
  PROVE  UndoneInv'
<1> DEFINE queued == IF pc = "inline" THEN 0 ELSE Len(jobs)
<1>0. /\ pc \in Places /\ overlap \in BOOLEAN /\ undone \in Nat /\ jobs \in Seq(Slice) /\ Len(jobs) \in Nat
      /\ lane \in [Lane -> Doings] /\ lane0_stop \in BOOLEAN /\ 0 \in Lane /\ TypeOK
  BY SomeLane DEF Types, TypeOK
<1>1. PlaceInv /\ UndoneInv /\ PlaceInv'
  BY PlaceStep DEF Types
<1>2. Cardinality(Busy) \in Nat /\ queued \in Nat /\ undone = queued + Cardinality(Busy)
  BY <1>0, <1>1, BusyFacts DEF UndoneInv
<1>3. Projs \in Nat \ {0} /\ TwoWave \in BOOLEAN
  BY StreamAssumption
<1> DEFINE Turned(n, x) == lane' = [lane EXCEPT ![n] = x]
           kept == /\ undone' = queued' + Cardinality(Busy')
                   /\ ~overlap' /\ pc' # "drain" => undone' = 0
                   /\ pc' \in {"quiesce", "cancelled", "adopting", "stage", "joining"} => undone' = 0
<1>4. /\ Nobody \in Doings /\ Landed \in Doings /\ Gone \in Doings
      /\ \A s \in Slice : Reading(s) \in Doings
      /\ \A s \in Slice, own \in BOOLEAN : Speculating(s, own) \in Doings
  BY DEF Doings
<1>5. ASSUME NEW n \in Lane, NEW x \in Doings, Turned(n, x)
      PROVE  Cardinality(Busy') =
                  IF x.doing \in {"batch", "landed"}
                    THEN IF n \in Busy THEN Cardinality(Busy) ELSE Cardinality(Busy) + 1
                    ELSE IF n \in Busy THEN Cardinality(Busy) - 1 ELSE Cardinality(Busy)
  BY <1>5, <1>0, BusyFacts
<1>6. lane' = Disowned \/ lane' = lane => Cardinality(Busy') = Cardinality(Busy)
  BY <1>0, BusyFacts DEF Busy
<1>7. CASE UNCHANGED vars
  <2>1. UNCHANGED <<pc, overlap, jobs, undone, lane>>
    BY <1>7 DEF vars, where, batch, threads
  <2> QED BY <2>1, <1>1 DEF UndoneInv, Busy
<1>8. CASE \E n \in Lane : LaneStep(n)
  <2>1. PICK n \in Lane : LaneStep(n)
    BY <1>8
  <2>2. UNCHANGED <<pc, overlap>>
    BY <2>1 DEF LaneStep, BatchPull, BatchRead, BatchReadFails, BatchCount, SpecPull, SpecRead,
       SpecReadFails, WorkerExit, where
  <2>3. CASE BatchPull(n)
    <3>1. /\ lane[n] = Nobody /\ jobs # <<>> /\ jobs' = Tail(jobs) /\ undone' = undone /\ pc # "inline"
          /\ lane' = [lane EXCEPT ![n] = Reading(Head(jobs))]
      BY <2>3 DEF BatchPull
    <3>2. Head(jobs) \in Slice /\ Len(Tail(jobs)) = Len(jobs) - 1
      BY <1>0, <3>1, HeadTailFacts
    <3>3. Reading(Head(jobs)) \in Doings /\ Reading(Head(jobs)).doing = "batch"
      BY <3>2, <1>4, LaneRecords, Zenon
    <3>4. n \notin Busy
      BY <3>1, LaneRecords DEF Busy
    <3>5. Cardinality(Busy') = Cardinality(Busy) + 1
      BY <3>1, <3>3, <3>4, <1>5
    <3> QED BY <2>2, <3>1, <3>2, <3>5, <1>0, <1>1, <1>2 DEF UndoneInv
  <2>4. CASE BatchRead(n) \/ BatchReadFails(n)
    <3>1. lane[n].doing = "batch" /\ jobs' = jobs /\ undone' = undone /\ Turned(n, Landed)
      BY <2>4 DEF BatchRead, BatchReadFails
    <3>2. Cardinality(Busy') = Cardinality(Busy)
      <4>1. n \in Busy /\ Landed.doing = "landed"
        BY <3>1, LaneRecords DEF Busy
      <4> QED BY <3>1, <4>1, <1>4, <1>5
    <3> QED BY <2>2, <3>1, <3>2, <1>1 DEF UndoneInv
  <2>5. CASE BatchCount(n)
    <3>1. lane[n] = Landed /\ jobs' = jobs /\ undone' = undone - 1 /\ Turned(n, Nobody)
      BY <2>5 DEF BatchCount
    <3>2. Cardinality(Busy') = Cardinality(Busy) - 1 /\ Cardinality(Busy) # 0
      <4>1. n \in Busy /\ Nobody.doing = "idle"
        BY <3>1, LaneRecords DEF Busy
      <4>2. Cardinality(Busy) # 0
        BY <4>1, <1>0, BusyFacts DEF Busy
      <4> QED BY <3>1, <4>1, <4>2, <1>4, <1>5
    <3> QED BY <2>2, <3>1, <3>2, <1>0, <1>1, <1>2 DEF UndoneInv
  <2>6. CASE SpecPull(n) \/ SpecRead(n) \/ SpecReadFails(n) \/ WorkerExit(n)
    <3>1. jobs' = jobs /\ undone' = undone
      BY <2>6 DEF SpecPull, SpecRead, SpecReadFails, WorkerExit, batch
    <3>2. Cardinality(Busy') = Cardinality(Busy)
      <4>1. ASSUME NEW x \in Doings, Turned(n, x), x.doing \in {"idle", "spec", "gone"}, n \notin Busy
            PROVE  Cardinality(Busy') = Cardinality(Busy)
        BY <4>1, <1>5
      <4>2. Nobody.doing = "idle" /\ Gone.doing = "gone"
        BY LaneRecords
      <4>3. CASE SpecPull(n)
        <5>1. spec_jobs \in Seq(Slice)
          BY <1>0 DEF TypeOK
        <5>2. lane[n] = Nobody /\ spec_jobs # <<>> /\ Turned(n, Speculating(Head(spec_jobs), TRUE))
          BY <4>3 DEF SpecPull
        <5>3. Head(spec_jobs) \in Slice
          BY <5>1, <5>2
        <5>4. Speculating(Head(spec_jobs), TRUE) \in Doings /\ Speculating(Head(spec_jobs), TRUE).doing = "spec"
          BY <5>3, <1>4, LaneRecords, Zenon
        <5> QED BY <5>2, <5>4, <4>1, <4>2 DEF Busy
      <4>4. CASE SpecRead(n) \/ SpecReadFails(n)
        <5>1. lane[n].doing = "spec" /\ Turned(n, Nobody)
          BY <4>4 DEF SpecRead, SpecReadFails
        <5> QED BY <5>1, <4>1, <4>2, <1>4 DEF Busy
      <4>5. CASE WorkerExit(n)
        <5>1. lane[n] = Nobody /\ Turned(n, Gone)
          BY <4>5 DEF WorkerExit
        <5> QED BY <5>1, <4>1, <4>2, <1>4 DEF Busy
      <4> QED BY <2>6, <4>3, <4>4, <4>5
    <3> QED BY <2>2, <3>1, <3>2, <1>1 DEF UndoneInv
  <2> QED BY <2>1, <2>3, <2>4, <2>5, <2>6 DEF LaneStep
<1>9. CASE Quiesce
  <2>1. UNCHANGED <<jobs, undone, overlap>>
    BY <1>9 DEF Quiesce, CancelSpec, FinishQuiesce, AdoptBegin, AdoptPull, AdoptEnd, where, batch
  <2>2. pc \in {"quiesce", "cancelled", "adopting"} /\ pc' \in {"cancelled", "stage", "adopting"}
    BY <1>9 DEF Quiesce, CancelSpec, FinishQuiesce, AdoptBegin, AdoptPull, AdoptEnd, where
  <2>3. Cardinality(Busy') = Cardinality(Busy)
    <3>1. CASE AdoptPull
      <4>1. spec_jobs \in Seq(Slice)
        BY <1>0 DEF TypeOK
      <4>2. lane[0] = Nobody /\ spec_jobs # <<>> /\ Turned(0, Speculating(Head(spec_jobs), TRUE))
        BY <3>1 DEF AdoptPull
      <4>3. Head(spec_jobs) \in Slice
        BY <4>1, <4>2
      <4>4. Speculating(Head(spec_jobs), TRUE) \in Doings /\ Speculating(Head(spec_jobs), TRUE).doing = "spec"
        BY <4>3, <1>4, LaneRecords, Zenon
      <4>5. 0 \notin Busy
        BY <4>2, LaneRecords DEF Busy
      <4> QED BY <4>2, <4>4, <4>5, <1>0, <1>5
    <3>2. CASE ~ AdoptPull
      BY <3>2, <1>6, <1>9 DEF Quiesce, CancelSpec, FinishQuiesce, AdoptBegin, AdoptEnd, threads
    <3> QED BY <3>1, <3>2
  <2> QED BY <2>1, <2>2, <2>3, <1>1 DEF UndoneInv
<1>10. CASE Load
  <2>1. UNCHANGED <<lane, overlap>>
    BY <1>10 DEF Load, Stage, StageFails, StageSecondWave, SecondWaveFails, InlineRead, InlineReadFails,
       DrainEnd, Evict, threads
  <2>2. Cardinality(Busy') = Cardinality(Busy)
    BY <2>1, <1>6
  <2>3. CASE Stage
    <3>1. Cardinality(Busy) = 0
      BY <2>3, <1>1, <1>2 DEF Stage, UndoneInv
    <3>2. Len(jobs') \in Nat
      <4>1. jobs' \in Seq(Slice)
        BY <1>0, QueueTypes
      <4> QED BY <4>1
    <3>3. \/ pc' = "inline" /\ undone' = undone
          \/ /\ pc' = IF ~overlap THEN "drain" ELSE IF TwoWave THEN "wave2" ELSE "evict"
             /\ undone' = Len(jobs')
      BY <2>3 DEF Stage
    <3>4. undone = 0
      BY <2>3, <1>1 DEF Stage, UndoneInv
    <3> QED BY <2>1, <2>2, <3>1, <3>2, <3>3, <3>4, <1>0, <1>3 DEF UndoneInv
  <2>4. CASE \E k \in DOMAIN Visited, n \in Proj : StageFails(k, n)
    <3>1. jobs' = jobs /\ undone' = undone /\ pc = "stage" /\ pc' = "issue"
      BY <2>4 DEF StageFails
    <3> QED BY <3>1, <2>1, <2>2, <1>1 DEF UndoneInv
  <2>5. CASE StageSecondWave
    <3>1. /\ jobs' = jobs \o ProjMajor(SecondWave, LaterProjs)
          /\ undone' = undone + Len(SecondWave) * (Projs - 1)
          /\ pc = "wave2" /\ pc' = "evict"
      BY <2>5 DEF StageSecondWave
    <3>2. Projs - 1 \in Nat /\ LaterProjs \in [1..(Projs - 1) -> Proj]
      BY <1>3 DEF LaterProjs, Proj
    <3>3. LaterProjs \in Seq(Proj) /\ Len(LaterProjs) = Projs - 1
      BY <3>2, FunctionIsSeq
    <3>4. SecondWave \in Seq(Entry)
      BY <1>0, MadeOfEntries
    <3> DEFINE more == ProjMajor(SecondWave, LaterProjs)
    <3>5. more \in Seq(Slice) /\ Len(more) = Len(SecondWave) * (Projs - 1)
      BY <3>3, <3>4, ProjMajorFacts
    <3> HIDE DEF more
    <3>6. Len(jobs') = Len(jobs) + Len(SecondWave) * (Projs - 1)
      <4>1. jobs' = jobs \o more
        BY <3>1 DEF more
      <4>2. Len(jobs \o more) = Len(jobs) + Len(more)
        BY <1>0, <3>5
      <4> QED BY <4>1, <4>2, <3>5
    <3>7. overlap
      BY <3>1, <1>1 DEF PlaceInv
    <3>8. Len(SecondWave) * (Projs - 1) \in Nat
      BY <3>5
    <3>9. undone' = queued' + Cardinality(Busy')
      BY <3>1, <3>6, <3>8, <2>2, <1>0, <1>2
    <3> QED BY <3>1, <3>7, <3>9, <2>1, <1>0 DEF UndoneInv
  <2>6. CASE SecondFails
    <3>1. jobs' = jobs /\ undone' = undone /\ pc = "wave2" /\ pc' = "issue"
      BY <2>6 DEF SecondFails, SecondWaveFails
    <3> QED BY <3>1, <2>1, <2>2, <1>1 DEF UndoneInv
  <2>7. CASE InlineRead
    <3>1. /\ pc = "inline" /\ undone' = undone /\ pc' \in {"inline", "evict"}
          /\ pc' = "evict" => jobs = <<>> /\ jobs' = jobs
      BY <2>7 DEF InlineRead
    <3>2. jobs = <<>> => Len(jobs) = 0
      OBVIOUS
    <3> QED BY <3>1, <3>2, <2>1, <2>2, <1>1, <1>0 DEF UndoneInv
  <2>8. CASE InlineReadFails
    <3>1. pc = "inline" /\ undone' = undone /\ pc' = "issue" /\ jobs' = <<>> /\ Len(<<>>) = 0
      BY <2>8 DEF InlineReadFails
    <3> QED BY <3>1, <2>1, <2>2, <1>1, <1>0 DEF UndoneInv
  <2>9. CASE DrainEnd \/ Evict
    <3>1. /\ jobs' = jobs /\ undone' = undone /\ pc \in {"drain", "evict"} /\ pc' \in {"issue", "evict"}
          /\ pc = "drain" => undone = 0
      BY <2>9 DEF DrainEnd, Evict, batch, BatchDone
    <3> QED BY <3>1, <2>1, <2>2, <1>1, <1>0 DEF UndoneInv
  <2> QED BY <1>10, <2>3, <2>4, <2>5, <2>6, <2>7, <2>8, <2>9 DEF Load, SecondFails
<1>11. CASE Speculate \/ Shrink \/ Matmul
  <2>1. UNCHANGED <<jobs, undone, overlap>>
    BY <1>11 DEF Speculate, Shrink, CancelSpec, FinishQuiesce, IssueSettle, Issue, NoIssue, Prefetch,
       ShrinkTo, Matmul, where, batch
  <2>2. /\ pc \in {"issue", "prefetch", "shrink", "shrink_cancelled", "shrunk", "matmul"}
        /\ pc' \in {"issue", "prefetch", "shrink_cancelled", "shrunk", "matmul", "route", "aborted"}
    BY <1>11 DEF Speculate, Shrink, CancelSpec, FinishQuiesce, IssueSettle, Issue, NoIssue, Prefetch,
       ShrinkTo, Matmul, where
  <2>3. Cardinality(Busy') = Cardinality(Busy)
    BY <1>6, <1>11 DEF Speculate, Shrink, CancelSpec, FinishQuiesce, IssueSettle, Issue, NoIssue, Prefetch,
       ShrinkTo, Matmul, threads
  <2> QED BY <2>1, <2>2, <2>3, <1>1 DEF UndoneInv
<1>12. CASE OverlapOffJoin
  <2>1. /\ jobs' = jobs /\ undone' = undone /\ pc = "joining" /\ pc' = "route" /\ lane[0] = Gone
        /\ Turned(0, Nobody)
    BY <1>12 DEF OverlapOffJoin, batch
  <2>2. 0 \notin Busy /\ Nobody.doing = "idle"
    BY <2>1, LaneRecords DEF Busy
  <2>3. Cardinality(Busy') = Cardinality(Busy)
    BY <2>1, <2>2, <1>0, <1>4, <1>5
  <2> QED BY <2>1, <2>3, <1>1, <1>0 DEF UndoneInv
<1>13. CASE Release
  <2>1. jobs' = <<>> /\ undone' = 0 /\ pc = "stopping" /\ pc' = "off" /\ lane' = lane
    BY <1>13 DEF Release, threads
  <2>2. Cardinality(Busy) = 0
    <3>1. CASE overlap
      <4>1. ~lane0_stop
        BY <2>1, <3>1, <1>1, <1>0 DEF PlaceInv
      <4>2. \A n \in Lane : lane[n] = Gone
        BY <4>1, <3>1, <1>13 DEF Release, Joined, Served
      <4>3. \A n \in Lane : lane[n].doing \notin {"batch", "landed"}
        BY <4>2, LaneRecords
      <4> QED BY <4>3, <1>0, BusyFacts
    <3>2. CASE ~overlap
      BY <3>2, <2>1, <1>1, <1>2 DEF UndoneInv
    <3> QED BY <3>1, <3>2
  <2>3. Cardinality(Busy') = 0 /\ Len(<<>>) = 0
    BY <2>1, <2>2, <1>6
  <2> QED BY <2>1, <2>3 DEF UndoneInv
<1>14. CASE Start
  <2>1. UNCHANGED <<jobs, undone>> /\ pc # "drain" /\ pc # "inline"
    BY <1>14 DEF Start, BeginLoad, Cancel, ShrinkBegin, Grow, OverlapOn, OverlapOff,
       Shutdown, Ended, BetweenDecodes, vars, where, batch
  <2>2. Cardinality(Busy') = Cardinality(Busy)
    BY <1>6, <1>14 DEF Start, BeginLoad, Cancel, ShrinkBegin, Grow, OverlapOn, OverlapOff,
       Shutdown, Ended, vars, threads
  <2>3. /\ overlap' = overlap \/ (overlap' = TRUE)
        /\ pc' \notin {"drain", "inline", "cancelled", "adopting", "stage"}
        /\ pc' = "quiesce" => overlap' = overlap /\ (overlap => undone = 0)
        /\ pc' = "joining" => undone = 0
    BY <1>14 DEF Start, BeginLoad, Cancel, ShrinkBegin, Grow, OverlapOn, OverlapOff,
       Shutdown, Ended, BetweenDecodes, BatchDone, vars, where
  <2> QED BY <2>1, <2>2, <2>3, <1>1, <1>0 DEF UndoneInv
<1> QED BY <1>7, <1>8, <1>9, <1>10, <1>11, <1>12, <1>13, <1>14 DEF Next, Continue

\* The first layer of the invariant is inductive.
LEMMA TypesInduction ==
  /\ Init => Types
  /\ Types /\ [Next]_vars => Types'
<1>1. ASSUME Init PROVE Types
  <2>0. /\ {Layers, Experts, Projs, Workers} \subseteq Nat \ {0} /\ Budgets \subseteq Nat \ {0} /\ Modes \subseteq BOOLEAN
        /\ 0 \in Layer /\ 0 \in Lane
    BY StreamAssumption, SomeLane DEF Layer
  <2>1. TypeOK
    <3>1. lane \in [Lane -> Doings] /\ lane = [n \in Lane |-> Nobody]
      BY <1>1 DEF Init, Doings
    <3>2. spec_remaining \in [Entry -> 0..Projs]
      BY <1>1, <2>0 DEF Init
    <3>3. /\ pc \in Places /\ io_err \in BOOLEAN /\ fatal \in BOOLEAN /\ lane0_stop \in BOOLEAN /\ io_stop \in BOOLEAN
          /\ overlap \in BOOLEAN /\ il \in Layer /\ budget \in Nat \ {0}
      BY <1>1, <2>0 DEF Init, Places
    <3>4. /\ ids \in Seq(Expert) /\ lru \in Seq(Entry) /\ jobs \in Seq(Slice) /\ spec_jobs \in Seq(Slice)
          /\ spec_done \in Seq(Entry) /\ cand \in Seq(Entry) /\ resident \in Nat /\ undone \in Nat
      BY <1>1 DEF Init
    <3>5. /\ valid \subseteq Entry /\ staged \subseteq Entry /\ committed \subseteq Slice /\ filled \subseteq Slice
          /\ ready \subseteq Expert \X Proj /\ spec_touched \subseteq Entry
      BY <1>1 DEF Init
    <3> QED BY <3>1, <3>2, <3>3, <3>4, <3>5, Zenon DEF TypeOK
  <2>2. \A n \in Lane : lane[n].doing = "idle"
    BY <1>1, LaneRecords DEF Init
  <2>3. PlaceInv
    BY <1>1, <2>0, <2>2 DEF Init, PlaceInv
  <2>4. UndoneInv
    <3>1. Cardinality(Busy) = 0
      BY <2>1, <2>2, BusyFacts
    <3>2. pc = "route" /\ undone = 0 /\ Len(jobs) = 0
      BY <1>1 DEF Init
    <3> QED BY <3>1, <3>2 DEF UndoneInv
  <2> QED BY <2>1, <2>3, <2>4 DEF Types
<1>2. ASSUME Types, [Next]_vars PROVE Types'
  BY <1>2, TypesStep, PlaceStep, UndoneStep DEF Types
<1> QED BY <1>1, <1>2

(***************************************************************************)
(* Second layer, Listing: each list of experts is the set its counter      *)
(* says, and holds an expert once.  The last conjunct is LruExact.         *)
(***************************************************************************)

\* What a step makes of the speculation: prefetch adds to what is pending; any
\* other step leaves it, ends some of it, or completes one entry.
LEMMA SpeculationMoves ==
  ASSUME TypeOK, [Next]_vars
  PROVE  \/ \E k \in 0..Len(cand) :
               /\ Prefetch(k) /\ spec_done' = spec_done
               /\ Queued(k) \in Seq(Entry) /\ ToSet(Queued(k)) \subseteq ToSet(cand)
               /\ Pending' = Pending \union ToSet(Queued(k))
         \/ Pending' \subseteq Pending /\ spec_done' \in {spec_done, <<>>}
         \/ \E e \in Pending : Pending' = Pending \ {e} /\ spec_done' = Append(spec_done, e)
<1>0. /\ cand \in Seq(Entry) /\ spec_done \in Seq(Entry) /\ lane \in [Lane -> Doings]
      /\ spec_remaining \in [Entry -> 0..Projs] /\ Projs \in Nat \ {0} /\ Len(cand) \in Nat
  BY StreamAssumption DEF TypeOK
<1>1. \A n \in Lane : lane[n].doing = "spec" => lane[n].slice[1] \in Entry
  BY <1>0, DoingFacts DEF Slice
<1>2. CASE \E n \in Lane : SpecRead(n)
  <2>1. PICK n \in Lane : SpecRead(n)
    BY <1>2
  <2> DEFINE e == lane[n].slice[1]
  <2>2. e \in Entry /\ (CountDown(e) \/ UNCHANGED <<spec_remaining, spec_done>>)
    BY <1>1, <2>1 DEF SpecRead
  <2> HIDE DEF e
  <2>3. CASE UNCHANGED <<spec_remaining, spec_done>>
    BY <2>3 DEF Pending
  <2>4. CASE CountDown(e) /\ spec_remaining[e] # 0
    <3>1. spec_remaining' = [spec_remaining EXCEPT ![e] = spec_remaining[e] - 1]
      BY <2>4 DEF CountDown
    <3>2. spec_remaining'[e] = spec_remaining[e] - 1 /\ \A d \in Entry \ {e} : spec_remaining'[d] = spec_remaining[d]
      BY <3>1, <2>2, <1>0
    <3>3. CASE spec_remaining[e] = 1
      <4>1. Pending' = Pending \ {e}
        BY <3>2, <3>3 DEF Pending
      <4>2. spec_done' = Append(spec_done, e) /\ e \in Pending
        BY <2>2, <2>4, <3>3 DEF CountDown, Pending
      <4> QED BY <4>1, <4>2
    <3>4. CASE spec_remaining[e] # 1
      <4>1. Pending' \subseteq Pending
        BY <2>4, <3>2 DEF Pending
      <4>2. spec_done' = spec_done
        BY <2>4, <3>4 DEF CountDown
      <4> QED BY <4>1, <4>2
    <3> QED BY <3>3, <3>4
  <2>5. CASE CountDown(e) /\ spec_remaining[e] = 0
    BY <2>5, <2>3 DEF CountDown
  <2> QED BY <2>2, <2>3, <2>4, <2>5
<1>3. CASE \E n \in Lane : SpecReadFails(n)
  <2>1. PICK n \in Lane : SpecReadFails(n)
    BY <1>3
  <2>2. spec_done' = spec_done /\ (spec_remaining' = spec_remaining \/ spec_remaining' = [spec_remaining EXCEPT ![lane[n].slice[1]] = 0])
    BY <2>1 DEF SpecReadFails, Forget
  <2>3. \A e \in Entry : spec_remaining'[e] \in {spec_remaining[e], 0}
    BY <2>2, <1>0
  <2> QED BY <2>2, <2>3 DEF Pending
<1>4. CASE \E from, to : FinishQuiesce(from, to)
  <2>1. spec_done' = <<>> /\ \A e \in Entry : spec_remaining'[e] \in {spec_remaining[e], 0}
    BY <1>4, <1>0 DEF FinishQuiesce, Integrate
  <2> QED BY <2>1 DEF Pending
<1>5. CASE \E k \in 0..Len(cand) : Prefetch(k)
  <2>1. PICK k \in 0..Len(cand) : Prefetch(k)
    BY <1>5
  <2>2. spec_done' = spec_done /\ \A e \in Entry : spec_remaining'[e] = IF e \in ToSet(Queued(k)) THEN Projs ELSE spec_remaining[e]
    BY <2>1, <1>0 DEF Prefetch
  <2>3. Queued(k) \in Seq(Entry) /\ ToSet(Queued(k)) \subseteq Entry /\ ToSet(Queued(k)) \subseteq ToSet(cand)
    <3>1. Queued(k) = SubSeq(cand, 1, k) /\ Queued(k) \in Seq(Entry)
      BY <1>0, CutFacts DEF Queued
    <3> DEFINE rest == SubSeq(cand, k + 1, Len(cand))
    <3>2. rest \in Seq(Entry) /\ cand = Queued(k) \o rest
      BY <1>0, <3>1, CutFacts
    <3> HIDE DEF rest
    <3>3. ToSet(Queued(k) \o rest) = ToSet(Queued(k)) \union ToSet(rest)
      BY <3>1, <3>2, ConcatFacts
    <3> QED BY <3>1, <3>2, <3>3, ToSetFacts
  <2>4. Pending' = Pending \union ToSet(Queued(k))
    BY <2>2, <2>3, <1>0 DEF Pending
  <2> QED BY <2>1, <2>2, <2>3, <2>4
<1>6. CASE UNCHANGED spec_remaining
  <2>1. Pending' = Pending
    BY <1>6 DEF Pending
  <2>2. CASE UNCHANGED spec_done
    BY <2>1, <2>2
  <2>3. CASE AdoptEnd \/ IssueSettle \/ Release
    BY <2>1, <2>3 DEF AdoptEnd, IssueSettle, Release, Integrate
  <2> QED BY <1>2, <1>4, <2>2, <2>3, DoneFrame
<1> QED BY <1>2, <1>3, <1>4, <1>5, <1>6, RemainingFrame

\* What a step makes of a lane.
LEMMA LaneMoves ==
  ASSUME TypeOK, [Next]_vars, NEW n \in Lane
  PROVE  \/ lane'[n] = lane[n]
         \/ BatchPull(n) /\ lane'[n] = Reading(Head(jobs))
         \/ (BatchRead(n) \/ BatchReadFails(n)) /\ lane'[n] = Landed
         \/ BatchCount(n) /\ lane'[n] = Nobody
         \/ (SpecPull(n) \/ (n = 0 /\ AdoptPull)) /\ lane'[n] = Speculating(Head(spec_jobs), TRUE)
         \/ (SpecRead(n) \/ SpecReadFails(n)) /\ lane'[n] = Nobody
         \/ WorkerExit(n) /\ lane'[n] = Gone
         \/ n = 0 /\ OverlapOffJoin /\ lane'[n] = Nobody
         \/ lane' = Disowned /\ lane[n].doing = "spec" /\ lane'[n] = Speculating(lane[n].slice, FALSE)
<1>0. lane \in [Lane -> Doings]
  BY DEF TypeOK
<1>1. lane' = Disowned => lane'[n] = lane[n] \/ (lane[n].doing = "spec" /\ lane'[n] = Speculating(lane[n].slice, FALSE))
  BY DEF Disowned, InFlight
<1>2. CASE Shutdown \/ \E from, to : CancelSpec(from, to)
  BY <1>1, <1>2 DEF Shutdown, CancelSpec
<1>3. ASSUME NEW m \in Lane,
             \/ BatchPull(m) \/ BatchRead(m) \/ BatchReadFails(m) \/ BatchCount(m)
             \/ SpecPull(m) \/ SpecRead(m) \/ SpecReadFails(m) \/ WorkerExit(m)
      PROVE  \/ lane'[n] = lane[n]
             \/ BatchPull(n) /\ lane'[n] = Reading(Head(jobs))
             \/ (BatchRead(n) \/ BatchReadFails(n)) /\ lane'[n] = Landed
             \/ BatchCount(n) /\ lane'[n] = Nobody
             \/ SpecPull(n) /\ lane'[n] = Speculating(Head(spec_jobs), TRUE)
             \/ (SpecRead(n) \/ SpecReadFails(n)) /\ lane'[n] = Nobody
             \/ WorkerExit(n) /\ lane'[n] = Gone
  <2>1. CASE m # n
    <3>1. \E x : lane' = [lane EXCEPT ![m] = x]
      BY <1>3 DEF BatchPull, BatchRead, BatchReadFails, BatchCount, SpecPull, SpecRead, SpecReadFails, WorkerExit
    <3> QED BY <3>1, <2>1, <1>0
  <2>2. CASE m = n
    <3>1. \A x : lane' = [lane EXCEPT ![n] = x] => lane'[n] = x
      BY <1>0
    <3>2. BatchPull(n) => lane'[n] = Reading(Head(jobs))
      BY <3>1 DEF BatchPull
    <3>3. BatchRead(n) \/ BatchReadFails(n) => lane'[n] = Landed
      BY <3>1 DEF BatchRead, BatchReadFails
    <3>4. BatchCount(n) \/ SpecRead(n) \/ SpecReadFails(n) => lane'[n] = Nobody
      BY <3>1 DEF BatchCount, SpecRead, SpecReadFails
    <3>5. SpecPull(n) => lane'[n] = Speculating(Head(spec_jobs), TRUE)
      BY <3>1 DEF SpecPull
    <3>6. WorkerExit(n) => lane'[n] = Gone
      BY <3>1 DEF WorkerExit
    <3> QED BY <3>2, <3>3, <3>4, <3>5, <3>6, <2>2, <1>3
  <2> QED BY <2>1, <2>2
<1>4. CASE AdoptPull
  BY <1>4, <1>0, SomeLane DEF AdoptPull
<1>5. CASE OverlapOffJoin
  BY <1>5, <1>0, SomeLane DEF OverlapOffJoin
<1>6. CASE UNCHANGED lane
  BY <1>6
<1> QED BY <1>2, <1>3, <1>4, <1>5, <1>6, LaneFrame

\* A lane begins to speculate by taking the head of the queue.
LEMMA SpeculationBegins ==
  ASSUME TypeOK, [Next]_vars, NEW n \in Lane, lane'[n].doing = "spec"
  PROVE  \/ lane[n].doing = "spec" /\ lane'[n].slice = lane[n].slice
         \/ /\ SpecPull(n) \/ (n = 0 /\ AdoptPull)
            /\ lane'[n].slice = Head(spec_jobs) /\ lane'[n].owned = TRUE
<1>1. /\ Nobody.doing # "spec" /\ Landed.doing # "spec" /\ Gone.doing # "spec"
      /\ Reading(Head(jobs)).doing # "spec"
      /\ Speculating(Head(spec_jobs), TRUE).slice = Head(spec_jobs)
      /\ Speculating(Head(spec_jobs), TRUE).owned = TRUE
      /\ Speculating(lane[n].slice, FALSE).slice = lane[n].slice
  BY LaneRecords, Zenon
<1> DEFINE y == lane'[n]
<1>2. y.doing = "spec"
  OBVIOUS
<1>3. \/ y = lane[n]
      \/ (SpecPull(n) \/ (n = 0 /\ AdoptPull)) /\ y = Speculating(Head(spec_jobs), TRUE)
      \/ lane[n].doing = "spec" /\ y = Speculating(lane[n].slice, FALSE)
  <2>1. y # Nobody /\ y # Landed /\ y # Gone /\ y # Reading(Head(jobs))
    BY <1>1, <1>2
  <2> QED BY <2>1, LaneMoves
<1> QED BY <1>1, <1>2, <1>3

\* What the load of a layer goes through once the speculation was settled.
Settled == {"stage", "shrunk", "wave2", "drain", "inline", "evict", "issue", "prefetch"}

\* Without route-ahead a load, and a shrink, work on a cache nobody speculates for;
\* what is pending was touched; a destructive quiesce leaves nothing queued.
QuietInv ==
    /\ pc \in {"cancelled", "shrink_cancelled", "stopping", "off"} => spec_jobs = <<>>
    /\ pc # "off" => Pending \subseteq spec_touched
    /\ ~Adopt /\ pc \in Settled =>
          spec_jobs = <<>> /\ InFlight = {} /\ spec_done = <<>> /\ Pending = {}

\* A settled place is entered by the quiesce, or from another one.
LEMMA SettledFrom ==
  ASSUME Types, [Next]_vars, ~Adopt, pc' \in Settled
  PROVE  pc \in Settled \/ (pc \in {"cancelled", "shrink_cancelled"} /\ FinishQuiesce(pc, pc'))
<1>0. pc \in Places
  BY DEF Types, TypeOK
<1>1. CASE \E n \in Lane : LaneStep(n)
  BY <1>1 DEF LaneStep, BatchPull, BatchRead, BatchReadFails, BatchCount, SpecPull, SpecRead,
     SpecReadFails, WorkerExit, where
<1>2. CASE Quiesce
  <2>1. pc # "adopting"
    BY DEF Types, PlaceInv
  <2> QED BY <1>2, <2>1 DEF Quiesce, CancelSpec, FinishQuiesce, AdoptBegin, AdoptPull, AdoptEnd, where, Settled
<1>3. CASE Load
  BY <1>3 DEF Load, Stage, StageFails, StageSecondWave, SecondWaveFails, InlineRead, InlineReadFails,
     DrainEnd, Evict, Settled
<1>4. CASE Speculate
  BY <1>4 DEF Speculate, IssueSettle, Issue, NoIssue, Prefetch, Settled
<1>5. CASE Shrink
  BY <1>5 DEF Shrink, CancelSpec, FinishQuiesce, ShrinkTo, Settled
<1>6. CASE Matmul \/ OverlapOffJoin \/ Release
  BY <1>6 DEF Matmul, OverlapOffJoin, Release, Settled
<1>7. CASE Start
  BY <1>7 DEF Start, BeginLoad, Cancel, ShrinkBegin, Grow, OverlapOn, OverlapOff, Shutdown, Ended,
     BetweenDecodes, vars, where, Settled
<1>8. CASE UNCHANGED vars
  BY <1>8 DEF vars, where
<1> QED BY <1>1, <1>2, <1>3, <1>4, <1>5, <1>6, <1>7, <1>8 DEF Next, Continue

\* Nothing is queued once a destructive quiesce began.
LEMMA NothingQueued ==
  ASSUME Types, QuietInv, [Next]_vars,
         pc' \in {"cancelled", "shrink_cancelled", "stopping", "off"}
  PROVE  spec_jobs' = <<>>
<1>0. pc \in Places
  BY DEF Types, TypeOK
<1>a. spec_jobs = <<>> => spec_jobs' = <<>> \/ AdoptBegin \/ AdoptPull \/ \E k \in 0..Len(cand) : Prefetch(k)
  BY QueueFrame DEF Shutdown, SpecPull, CancelSpec
<1>b. ~ AdoptBegin /\ ~ AdoptPull /\ ~ \E k \in 0..Len(cand) : Prefetch(k)
  BY DEF AdoptBegin, AdoptPull, Prefetch, where
<1>c. pc \in {"cancelled", "shrink_cancelled", "stopping", "off"} => spec_jobs' = <<>>
  BY <1>a, <1>b DEF QuietInv
<1>1. CASE \E n \in Lane : LaneStep(n)
  BY <1>1, <1>c DEF LaneStep, BatchPull, BatchRead, BatchReadFails, BatchCount, SpecPull, SpecRead,
     SpecReadFails, WorkerExit, where
<1>2. CASE Quiesce
  BY <1>2, <1>c DEF Quiesce, CancelSpec, FinishQuiesce, AdoptBegin, AdoptPull, AdoptEnd, where
<1>3. CASE Load
  BY <1>3, <1>c DEF Load, Stage, StageFails, StageSecondWave, SecondWaveFails, InlineRead, InlineReadFails,
     DrainEnd, Evict
<1>4. CASE Speculate
  BY <1>4, <1>c DEF Speculate, IssueSettle, Issue, NoIssue, Prefetch, where
<1>5. CASE Shrink
  BY <1>5, <1>c DEF Shrink, CancelSpec, FinishQuiesce, ShrinkTo
<1>6. CASE Matmul \/ OverlapOffJoin \/ Release
  BY <1>6, <1>c DEF Matmul, OverlapOffJoin, Release
<1>7. CASE Start
  BY <1>7, <1>c DEF Start, BeginLoad, Cancel, ShrinkBegin, Grow, OverlapOn, OverlapOff, Shutdown, Ended,
     BetweenDecodes, vars, where
<1>8. CASE UNCHANGED vars
  BY <1>8, <1>c DEF vars, where
<1> QED BY <1>1, <1>2, <1>3, <1>4, <1>5, <1>6, <1>7, <1>8 DEF Next, Continue

\* The quiet is kept.
LEMMA QuietStep ==
  ASSUME Types, QuietInv, [Next]_vars
  PROVE  QuietInv'
<1>0. /\ TypeOK /\ pc \in Places /\ spec_touched \subseteq Entry /\ spec_done \in Seq(Entry)
      /\ spec_remaining \in [Entry -> 0..Projs]
  BY DEF Types, TypeOK
<1>1. pc' \in {"cancelled", "shrink_cancelled", "stopping", "off"} => spec_jobs' = <<>>
  BY NothingQueued
<1>2. ASSUME pc' # "off" PROVE Pending' \subseteq spec_touched'
  <2>0. pc # "off"
    BY <1>2, <1>0 DEF Next, Continue, Quiesce, Load, Speculate, Shrink, LaneStep, Start, BatchPull, BatchRead,
       BatchReadFails, BatchCount, SpecPull, SpecRead, SpecReadFails, WorkerExit, CancelSpec, FinishQuiesce,
       AdoptBegin, AdoptPull, AdoptEnd, Stage, StageFails, StageSecondWave, SecondWaveFails, InlineRead,
       InlineReadFails, DrainEnd, Evict, IssueSettle, Issue, NoIssue, Prefetch, ShrinkTo, Matmul, OverlapOffJoin,
       Release, BeginLoad, Cancel, ShrinkBegin, Grow, OverlapOn, OverlapOff, Shutdown, Ended, BetweenDecodes,
       vars, where
  <2>1. Pending \subseteq spec_touched
    BY <2>0 DEF QuietInv
  <2>2. CASE \E k \in 0..Len(cand) : Prefetch(k)
    <3>1. PICK k \in 0..Len(cand) : Prefetch(k)
      BY <2>2
    <3>2. spec_touched' = spec_touched \union ToSet(Queued(k))
      BY <3>1 DEF Prefetch
    <3>3. spec_remaining' = [e \in Entry |-> IF e \in ToSet(Queued(k)) THEN Projs ELSE spec_remaining[e]]
      BY <3>1 DEF Prefetch
    <3> QED BY <3>2, <3>3, <2>1 DEF Pending
  <2>3. CASE \E from, to : FinishQuiesce(from, to)
    <3>1. spec_touched' = {} /\ spec_remaining' = [e \in Entry |->
              IF e \in spec_touched \union ToSet(spec_done) THEN 0 ELSE spec_remaining[e]]
      BY <2>3 DEF FinishQuiesce
    <3> QED BY <3>1, <2>1 DEF Pending
  <2>4. CASE ~ \E k \in 0..Len(cand) : Prefetch(k)
    <3>1. Pending' \subseteq Pending
      BY <2>4, <1>0, SpeculationMoves
    <3>2. AdoptBegin => Pending \subseteq spec_touched'
      BY <2>1 DEF AdoptBegin
    <3>3. ~ Release
      BY <1>2 DEF Release
    <3> QED BY <2>1, <2>3, <2>4, <3>1, <3>2, <3>3, TouchedFrame
  <2> QED BY <2>2, <2>4
<1>3. ASSUME ~Adopt, pc' \in Settled
      PROVE  spec_jobs' = <<>> /\ InFlight' = {} /\ spec_done' = <<>> /\ Pending' = {}
  <2>1. CASE pc \in Settled
    <3>1. spec_jobs = <<>> /\ InFlight = {} /\ spec_done = <<>> /\ Pending = {}
      BY <2>1, <1>3 DEF QuietInv
    <3>2. ~ (\E k \in 0..Len(cand) : Prefetch(k)) /\ ~ AdoptBegin /\ ~ AdoptPull /\ ~ \E n \in Lane : SpecPull(n)
      BY <1>3, <3>1 DEF Prefetch, AdoptBegin, AdoptPull, SpecPull, Settled
    <3>3. Pending' = {} /\ spec_done' = <<>>
      BY <3>1, <3>2, <1>0, SpeculationMoves
    <3>4. spec_jobs' = <<>>
      BY <3>1, <3>2, QueueFrame DEF Shutdown, CancelSpec
    <3>5. InFlight' = {}
      <4>1. ASSUME NEW n \in Lane, lane'[n].doing = "spec" PROVE FALSE
        <5>1. lane[n].doing # "spec"
          BY <3>1 DEF InFlight
        <5> QED BY <4>1, <5>1, <1>0, <3>2, SpeculationBegins
      <4> QED BY <4>1 DEF InFlight
    <3> QED BY <3>3, <3>4, <3>5
  <2>2. CASE pc \in {"cancelled", "shrink_cancelled"} /\ FinishQuiesce(pc, pc')
    <3>1. spec_jobs = <<>> /\ Pending \subseteq spec_touched
      BY <2>2 DEF QuietInv
    <3>2. /\ InFlight = {} /\ spec_done' = <<>> /\ UNCHANGED <<spec_jobs, lane>>
          /\ spec_remaining' = [e \in Entry |->
                IF e \in spec_touched \union ToSet(spec_done) THEN 0 ELSE spec_remaining[e]]
      BY <2>2 DEF FinishQuiesce, Integrate, ReadsOver, threads
    <3>3. Pending' = {}
      BY <3>1, <3>2 DEF Pending
    <3>4. InFlight' = {}
      BY <3>2 DEF InFlight
    <3> QED BY <3>1, <3>2, <3>3, <3>4
  <2> QED BY <2>1, <2>2, <1>3, SettledFrom
<1> QED BY <1>1, <1>2, <1>3 DEF QuietInv

\* Where the load of a layer was staged.
After == {"wave2", "drain", "inline", "evict", "issue", "prefetch", "matmul"}

\* No token is cancelled under route-ahead: a completion that lands between settle_spec's look at the
\* counters and prefetch's filter is then speculated for again, and integrated twice (TLC finds it).
CancelOk == Adopt => "cancel" \notin Faults

\* Route-ahead speculates for the next Ahead layers and no other: what is pending or complete is
\* ahead of a staged layer, and only at its matmul is the farthest of them asked for.
RangeInv ==
    Adopt /\ pc \notin {"aborted", "stopping", "off"} =>
    \A e \in Pending \union ToSet(spec_done) :
        /\ il <= e[1] /\ e[1] <= il + Ahead
        /\ pc \in {"stage"} \union After => il < e[1]
        /\ pc # "matmul" => e[1] < il + Ahead

\* The candidates of prefetch are neither resident nor pending, and each is one once.
CandInv ==
    pc = "prefetch" =>
    /\ IsInjective(cand) /\ ToSet(cand) \intersect (valid \union Pending) = {}
    /\ Adopt => \A e \in ToSet(cand) : e[1] = il + Ahead

\* An entry is completed once, and is not pending then.
DoneInv == IsInjective(spec_done) /\ ToSet(spec_done) \intersect Pending = {}

\* The second layer of the invariant.
Listing == QuietInv /\ RangeInv /\ CandInv /\ DoneInv /\ LruExact

\* How the place moves under route-ahead.
LEMMA AheadPlaces ==
  ASSUME Types, [Next]_vars, Adopt, CancelOk, pc' \notin {"aborted", "stopping", "off"},
         ~ \E k \in 0..Len(cand) : Prefetch(k)
  PROVE  \/ (Matmul /\ ~fatal) \/ AdoptEnd
         \/ /\ il' = il /\ pc \notin {"aborted", "stopping", "off"}
            /\ pc' \in {"stage"} \union After => pc \in {"stage"} \union After
            /\ pc' # "matmul" => pc # "matmul"
<1>0. pc \in Places
  BY DEF Types, TypeOK
<1>1. CASE \E n \in Lane : LaneStep(n)
  BY <1>1 DEF LaneStep, BatchPull, BatchRead, BatchReadFails, BatchCount, SpecPull, SpecRead,
     SpecReadFails, WorkerExit, where
<1>2. CASE Quiesce
  <2>1. pc # "cancelled"
    BY DEF Types, PlaceInv
  <2> QED BY <1>2, <2>1 DEF Quiesce, CancelSpec, FinishQuiesce, AdoptBegin, AdoptPull, where, After
<1>3. CASE Load
  BY <1>3 DEF Load, Stage, StageFails, StageSecondWave, SecondWaveFails, InlineRead, InlineReadFails,
     DrainEnd, Evict, After
<1>4. CASE Speculate
  BY <1>4 DEF Speculate, IssueSettle, Issue, NoIssue, where, After
<1>5. CASE Shrink
  BY <1>5 DEF Shrink, CancelSpec, FinishQuiesce, ShrinkTo, After
<1>6. CASE Matmul \/ OverlapOffJoin \/ Release
  BY <1>6 DEF Matmul, OverlapOffJoin, Release, After
<1>7. CASE Start
  BY <1>7 DEF Start, BeginLoad, Cancel, ShrinkBegin, Grow, OverlapOn, OverlapOff, Shutdown, Ended,
     BetweenDecodes, CancelOk, vars, where, After
<1>8. CASE UNCHANGED vars
  BY <1>8 DEF vars, where
<1> QED BY <1>1, <1>2, <1>3, <1>4, <1>5, <1>6, <1>7, <1>8 DEF Next, Continue

\* What is speculated stays within reach.
LEMMA RangeStep ==
  ASSUME Types, Listing, CancelOk, [Next]_vars
  PROVE  RangeInv'
<1> SUFFICES ASSUME Adopt, pc' \notin {"aborted", "stopping", "off"}
             PROVE  \A e \in Pending' \union ToSet(spec_done') :
                        /\ il' <= e[1] /\ e[1] <= il' + Ahead
                        /\ pc' \in {"stage"} \union After => il' < e[1]
                        /\ pc' # "matmul" => e[1] < il' + Ahead
  BY DEF RangeInv
<1>0. /\ TypeOK /\ pc \in Places /\ il \in Nat /\ il < Layers /\ Ahead \in Nat \ {0} /\ spec_done \in Seq(Entry)
      /\ Layers \in Nat \ {0}
  <2>1. TypeOK /\ Layers \in Nat \ {0} /\ Ahead \in Nat \ {0}
    BY StreamAssumption DEF Types
  <2>2. il \in 0..(Layers - 1) /\ pc \in Places /\ spec_done \in Seq(Entry)
    BY <2>1 DEF TypeOK, Layer
  <2> QED BY <2>1, <2>2
<1>1. \A e \in Pending \union ToSet(spec_done) : e \in Entry /\ e[1] \in Nat /\ e[1] < Layers
  <2>1. ToSet(spec_done) \subseteq Entry
    BY <1>0, ToSetFacts
  <2> QED BY <2>1, <1>0 DEF Pending, Entry, Layer
<1>2. CASE \E k \in 0..Len(cand) : Prefetch(k)
  <2>1. pc = "prefetch" /\ pc' = "matmul" /\ il' = il
    BY <1>2 DEF Prefetch
  <2>2. spec_done' = spec_done /\ Pending' \subseteq Pending \union ToSet(cand)
    <3>1. PICK k \in 0..Len(cand) : Prefetch(k)
      BY <1>2
    <3>2. spec_done' = spec_done
      BY <3>1 DEF Prefetch
    <3>3. Queued(k) \in Seq(Entry) /\ ToSet(Queued(k)) \subseteq ToSet(cand)
      <4>1. cand \in Seq(Entry) /\ Queued(k) = SubSeq(cand, 1, k)
        BY <1>0 DEF TypeOK, Queued
      <4>2. Queued(k) \in Seq(Entry)
        BY <4>1, CutFacts
      <4> DEFINE rest == SubSeq(cand, k + 1, Len(cand))
      <4>3. rest \in Seq(Entry) /\ cand = Queued(k) \o rest
        BY <4>1, CutFacts
      <4> HIDE DEF rest
      <4>4. ToSet(Queued(k) \o rest) = ToSet(Queued(k)) \union ToSet(rest)
        BY <4>2, <4>3, ConcatFacts
      <4> QED BY <4>2, <4>3, <4>4
    <3>4. spec_remaining' = [e \in Entry |-> IF e \in ToSet(Queued(k)) THEN Projs ELSE spec_remaining[e]]
      BY <3>1 DEF Prefetch
    <3>5. Pending' \subseteq Pending \union ToSet(Queued(k))
      BY <3>4 DEF Pending
    <3> QED BY <3>2, <3>3, <3>5
  <2>3. \A e \in Pending \union ToSet(spec_done) : il < e[1] /\ e[1] <= il + Ahead
    BY <2>1 DEF Listing, RangeInv, After
  <2>4. \A e \in ToSet(cand) : e[1] = il + Ahead
    BY <2>1 DEF Listing, CandInv
  <2>5. ASSUME NEW e \in Pending' \union ToSet(spec_done')
        PROVE  il < e[1] /\ e[1] <= il + Ahead
    <3>1. e \in Pending \union ToSet(spec_done) \/ e \in ToSet(cand)
      BY <2>2
    <3>2. e \in ToSet(cand) => il < e[1] /\ e[1] <= il + Ahead
      BY <2>4, <1>0
    <3> QED BY <3>1, <3>2, <2>3
  <2>6. ASSUME NEW e \in Pending' \union ToSet(spec_done') PROVE e[1] \in Nat
    <3>1. e \in ToSet(cand) => e[1] = il + Ahead
      BY <2>4
    <3>2. e \in Pending \union ToSet(spec_done) \/ e \in ToSet(cand)
      BY <2>2
    <3> QED BY <3>1, <3>2, <1>0, <1>1
  <2>7. \A e \in Pending' \union ToSet(spec_done') : il <= e[1] /\ il < e[1] /\ e[1] <= il + Ahead
    BY <2>5, <2>6, <1>0
  <2> QED BY <2>1, <2>7
<1>3. CASE ~ \E k \in 0..Len(cand) : Prefetch(k)
  <2>1. Pending' \union ToSet(spec_done') \subseteq Pending \union ToSet(spec_done)
    <3>1. \A e \in Pending : ToSet(Append(spec_done, e)) = ToSet(spec_done) \union {e}
      BY <1>0, AppendFacts DEF Pending
    <3>2. ToSet(<<>>) = {}
      BY ToSetFacts
    <3>3. CASE Pending' \subseteq Pending /\ spec_done' \in {spec_done, <<>>}
      <4>1. ToSet(spec_done') \subseteq ToSet(spec_done)
        BY <3>2, <3>3
      <4> QED BY <4>1, <3>3
    <3>4. ASSUME NEW e \in Pending, Pending' = Pending \ {e}, spec_done' = Append(spec_done, e)
          PROVE  Pending' \union ToSet(spec_done') \subseteq Pending \union ToSet(spec_done)
      <4>1. ToSet(spec_done') = ToSet(spec_done) \union {e}
        BY <3>1, <3>4
      <4> QED BY <4>1, <3>4
    <3> QED BY <3>3, <3>4, <1>0, <1>3, SpeculationMoves
  <2>2. pc \notin {"aborted", "stopping", "off"} =>
          \A e \in Pending' \union ToSet(spec_done') :
              /\ il <= e[1] /\ e[1] <= il + Ahead /\ e \in Entry /\ e[1] \in Nat /\ e[1] < Layers
              /\ pc \in {"stage"} \union After => il < e[1]
              /\ pc # "matmul" => e[1] < il + Ahead
    BY <2>1, <1>1 DEF Listing, RangeInv
  <2>3. CASE Matmul /\ ~fatal
    <3>1. pc = "matmul" /\ pc' = "route" /\ il' = (il + 1) % Layers
      BY <2>3 DEF Matmul
    <3>2. il + 1 < Layers => il' = il + 1
      BY <3>1, <1>0
    <3> QED BY <2>2, <3>1, <3>2, <1>0 DEF After
  <2>4. CASE AdoptEnd
    <3>1. pc = "adopting" /\ pc' = "stage" /\ il' = il /\ spec_done' = <<>> /\ spec_remaining' = spec_remaining
      BY <2>4 DEF AdoptEnd, Integrate
    <3>2. Pending \intersect Bank(il) = {}
      BY <2>4, <3>1 DEF AdoptEnd, Adopted, Listing, QuietInv
    <3>3. \A e \in Pending : e[1] # il
      BY <3>2 DEF Bank, Pending, Entry
    <3>4. Pending' = Pending /\ ToSet(spec_done') = {}
      BY <3>1, ToSetFacts DEF Pending
    <3> QED BY <2>2, <3>1, <3>3, <3>4, <1>0 DEF After
  <2>5. CASE /\ il' = il /\ pc \notin {"aborted", "stopping", "off"}
             /\ pc' \in {"stage"} \union After => pc \in {"stage"} \union After
             /\ pc' # "matmul" => pc # "matmul"
    BY <2>2, <2>5
  <2> QED BY <1>3, <2>3, <2>4, <2>5, AheadPlaces
<1> QED BY <1>2, <1>3

\* The candidates stay candidates.
LEMMA CandStep ==
  ASSUME Types, Listing, [Next]_vars
  PROVE  CandInv'
<1> SUFFICES ASSUME pc' = "prefetch" PROVE CandInv'
  BY DEF CandInv
<1>0. TypeOK /\ cand \in Seq(Entry)
  BY DEF Types, TypeOK
<1>1. CASE \E asked \in SUBSET (Targets \X Expert) : Issue(asked)
  <2>1. PICK asked \in SUBSET (Targets \X Expert) : Issue(asked)
    BY <1>1
  <2> DEFINE todo == {e \in asked : e \notin valid /\ spec_remaining[e] = 0}
  <2>2. Targets \subseteq Layer
    BY DEF Targets
  <2>3. todo \in SUBSET Entry /\ todo \intersect (valid \union Pending) = {}
    BY <2>2 DEF Entry, Pending
  <2>4. cand' = Ascending(todo) /\ UNCHANGED <<valid, spec_remaining, il>>
    BY <2>1 DEF Issue, specq
  <2>5. Adopt => \A e \in todo : e[1] = il + Ahead
    BY DEF Targets
  <2> HIDE DEF todo
  <2>6. ToSet(cand') = todo /\ IsInjective(cand')
    BY <2>3, <2>4, AscendingFacts
  <2>7. valid' = valid /\ Pending' = Pending /\ il' = il
    BY <2>4 DEF Pending
  <2> QED BY <2>3, <2>5, <2>6, <2>7 DEF CandInv
<1>2. CASE pc = "prefetch" /\ UNCHANGED <<valid, il, cand>> /\ ~ \E k \in 0..Len(cand) : Prefetch(k)
  <2>1. Pending' \subseteq Pending
    BY <1>0, <1>2, SpeculationMoves
  <2> QED BY <1>2, <2>1 DEF CandInv, Listing
<1>3. CASE \E n \in Lane : LaneStep(n)
  <2>1. pc = "prefetch" /\ UNCHANGED <<valid, il, cand>> /\ ~ \E k \in 0..Len(cand) : Prefetch(k)
    BY <1>3 DEF LaneStep, BatchPull, BatchRead, BatchReadFails, BatchCount, SpecPull, SpecRead,
       SpecReadFails, WorkerExit, where, cache, Prefetch
  <2> QED BY <2>1, <1>2
<1>4. CASE Quiesce \/ Load
  <2>1. pc \notin {"adopting", "cancelled"} \/ pc' # "prefetch"
    BY <1>4 DEF Quiesce, Load, CancelSpec, FinishQuiesce, AdoptBegin, AdoptPull, AdoptEnd, Stage,
       StageFails, StageSecondWave, SecondWaveFails, InlineRead, InlineReadFails, DrainEnd, Evict, where
  <2> QED BY <1>4, <2>1 DEF Quiesce, Load, CancelSpec, FinishQuiesce, AdoptBegin, AdoptPull, AdoptEnd, Stage,
       StageFails, StageSecondWave, SecondWaveFails, InlineRead, InlineReadFails, DrainEnd, Evict, where
<1>5. CASE Speculate \/ Shrink
  BY <1>1, <1>5 DEF Speculate, Shrink, CancelSpec, FinishQuiesce, IssueSettle, NoIssue, Prefetch, ShrinkTo, where
<1>6. CASE Matmul \/ OverlapOffJoin \/ Release
  BY <1>6 DEF Matmul, OverlapOffJoin, Release
<1>7. CASE Start
  BY <1>7 DEF Start, BeginLoad, Cancel, ShrinkBegin, Grow, OverlapOn, OverlapOff, Shutdown, Ended,
     BetweenDecodes, vars, where
<1>8. CASE UNCHANGED vars
  <2>1. pc = "prefetch" /\ UNCHANGED <<valid, il, cand>> /\ ~ \E k \in 0..Len(cand) : Prefetch(k)
    BY <1>8 DEF vars, where, cache, Prefetch
  <2> QED BY <2>1, <1>2
<1> QED BY <1>3, <1>4, <1>5, <1>6, <1>7, <1>8 DEF Next, Continue

\* An entry is completed once.
LEMMA DoneStep ==
  ASSUME Types, Listing, [Next]_vars
  PROVE  DoneInv'
<1>0. /\ TypeOK /\ spec_done \in Seq(Entry) /\ IsInjective(spec_done) /\ ToSet(spec_done) \intersect Pending = {}
      /\ Adopt \in BOOLEAN
  BY StreamAssumption DEF Types, TypeOK, Listing, DoneInv
<1>1. ASSUME NEW k \in 0..Len(cand), Prefetch(k), spec_done' = spec_done,
             ToSet(Queued(k)) \subseteq ToSet(cand), Pending' = Pending \union ToSet(Queued(k))
      PROVE  DoneInv'
  <2>1. pc = "prefetch"
    BY <1>1 DEF Prefetch
  <2>2. ToSet(cand) \intersect ToSet(spec_done) = {}
    <3>1. CASE Adopt
      <4>0. il \in Nat /\ Ahead \in Nat
        BY StreamAssumption, <1>0 DEF TypeOK, Layer
      <4>1. \A e \in ToSet(spec_done) : e[1] < il + Ahead
        BY <2>1, <3>1 DEF Listing, RangeInv
      <4>2. \A e \in ToSet(cand) : e[1] = il + Ahead
        BY <2>1, <3>1 DEF Listing, CandInv
      <4> QED BY <4>0, <4>1, <4>2
    <3>2. CASE ~Adopt
      <4>1. spec_done = <<>>
        BY <2>1, <3>2 DEF Listing, QuietInv, Settled
      <4> QED BY <4>1, ToSetFacts
    <3> QED BY <3>1, <3>2
  <2> QED BY <1>0, <1>1, <2>2 DEF DoneInv
<1>2. CASE Pending' \subseteq Pending /\ spec_done' \in {spec_done, <<>>}
  <2>1. ToSet(<<>>) = {} /\ IsInjective(<<>>)
    BY ToSetFacts
  <2>2. CASE spec_done' = spec_done
    BY <1>0, <1>2, <2>2 DEF DoneInv
  <2>3. CASE spec_done' = <<>>
    BY <2>1, <2>3 DEF DoneInv
  <2> QED BY <1>2, <2>2, <2>3
<1>3. ASSUME NEW e \in Pending, Pending' = Pending \ {e}, spec_done' = Append(spec_done, e) PROVE DoneInv'
  <2>1. e \in Entry
    BY DEF Pending
  <2>2. /\ ToSet(Append(spec_done, e)) = ToSet(spec_done) \union {e}
        /\ IsInjective(Append(spec_done, e)) <=> IsInjective(spec_done) /\ e \notin ToSet(spec_done)
    BY <2>1, <1>0, AppendFacts
  <2> QED BY <1>0, <1>3, <2>2 DEF DoneInv
<1> QED BY <1>0, <1>1, <1>2, <1>3, SpeculationMoves

\* cresident_ is the length of a list that holds every resident entry once.
LEMMA ListCounts ==
  ASSUME TypeOK
  PROVE  /\ LruExact <=> ToSet(lru) = valid /\ IsInjective(lru) /\ resident = Len(lru)
         /\ LruExact => IsFiniteSet(valid)
<1>1. lru \in Seq(Entry)
  BY DEF TypeOK
<1>2. IsInjective(lru) => Cardinality(ToSet(lru)) = Len(lru)
  BY <1>1, LenIsCardinality
<1>3. IsFiniteSet(ToSet(lru))
  BY <1>1, LenIsCardinality
<1> QED BY <1>2, <1>3 DEF LruExact

\* An entry that becomes resident is put on the list once.
LEMMA ListGrows ==
  ASSUME Types, LruExact, Types', NEW new \in Seq(Entry), IsInjective(new), ToSet(new) \intersect valid = {},
         valid' = valid \union ToSet(new), resident' = resident + Len(new),
         ToSet(lru') = valid', IsInjective(lru')
  PROVE  LruExact'
<1>0. TypeOK /\ lru \in Seq(Entry) /\ lru' \in Seq(Entry)
  BY DEF Types, TypeOK
<1>1. Cardinality(valid) = resident /\ IsFiniteSet(valid)
  BY <1>0, ListCounts DEF LruExact
<1>2. IsFiniteSet(ToSet(new)) /\ Cardinality(ToSet(new)) = Len(new)
  BY LenIsCardinality
<1>3. Cardinality(valid \union ToSet(new)) = Cardinality(valid) + Cardinality(ToSet(new)) - Cardinality(valid \intersect ToSet(new))
  BY <1>1, <1>2, FS_Union
<1>4. valid \intersect ToSet(new) = {} /\ Cardinality({}) = 0
  BY FS_EmptySet
<1>5. Cardinality(valid) \in Nat /\ Cardinality(ToSet(new)) \in Nat
  BY <1>1, <1>2, FS_CardinalityType
<1>6. Cardinality(valid') = Cardinality(valid) + Cardinality(ToSet(new))
  <2>1. Cardinality(valid') = Cardinality(valid \union ToSet(new)) /\ Cardinality(valid \intersect ToSet(new)) = 0
    BY <1>4
  <2> QED BY <2>1, <1>3, <1>5
<1> QED BY <1>1, <1>2, <1>6 DEF LruExact

\* The list is exact after any step.
LEMMA ListStep ==
  ASSUME Types, DoneInv, LruExact, [Next]_vars
  PROVE  LruExact'
<1>a. Types'
  BY TypesInduction
<1>0. /\ TypeOK /\ lru \in Seq(Entry) /\ spec_done \in Seq(Entry) /\ resident \in Nat /\ Len(lru) \in Nat
      /\ valid \subseteq Entry /\ overlap \in BOOLEAN /\ Adopt \in BOOLEAN
  BY StreamAssumption DEF Types, TypeOK
<1>1. ToSet(lru) = valid /\ IsInjective(lru) /\ resident = Len(lru) /\ IsInjective(spec_done)
  BY <1>0, ListCounts DEF DoneInv
<1>2. CASE UNCHANGED <<valid, lru, resident>>
  BY <1>2 DEF LruExact
<1>3. ASSUME Integrate PROVE LruExact'
  <2>1. Eligible \in Seq(Entry) /\ ToSet(Eligible) \intersect valid = {} /\ IsInjective(Eligible)
    <3>1. IsInjective(Eligible)
      BY <1>0, <1>1, KeptFacts DEF Eligible
    <3> QED BY <3>1, <1>0, MadeOfEntries
  <2>2. /\ valid' = valid \union ToSet(Eligible) /\ resident' = resident + Len(Eligible)
        /\ lru' \in {PushAll(lru, Eligible), lru \o Eligible}
    BY <1>3 DEF Integrate
  <2>3. /\ ToSet(lru \o Eligible) = ToSet(lru) \union ToSet(Eligible) /\ IsInjective(lru \o Eligible)
    BY <1>0, <1>1, <2>1, ConcatFacts
  <2>4. ToSet(PushAll(lru, Eligible)) = ToSet(lru) \union ToSet(Eligible) /\ IsInjective(PushAll(lru, Eligible))
    BY <1>0, <1>1, <2>1, PushAllFacts
  <2>5. ToSet(lru') = valid' /\ IsInjective(lru')
    BY <2>2, <2>3, <2>4, <1>1
  <2> DEFINE new == Eligible
  <2> HIDE DEF new
  <2>6. new \in Seq(Entry) /\ IsInjective(new) /\ ToSet(new) \intersect valid = {}
        /\ valid' = valid \union ToSet(new) /\ resident' = resident + Len(new)
    BY <2>1, <2>2 DEF new
  <2> QED BY <2>5, <2>6, <1>0, <1>a, ListGrows
<1>4. CASE AdoptEnd \/ IssueSettle \/ \E from, to : FinishQuiesce(from, to)
  BY <1>3, <1>4 DEF AdoptEnd, IssueSettle, FinishQuiesce
<1>5. ASSUME NEW es \in Seq(Entry), valid' = valid \union ToSet(es), resident' = resident + Len(Misses(es)),
             ToSet(lru') = valid \union ToSet(es), IsInjective(lru')
      PROVE  LruExact'
  <2> DEFINE new == Misses(es)
  <2>1. new \in Seq(Entry) /\ ToSet(new) = ToSet(es) \ valid /\ IsInjective(new) /\ resident' = resident + Len(new)
    BY <1>5, MissesFacts
  <2> HIDE DEF new
  <2>2. ToSet(new) \intersect valid = {} /\ valid' = valid \union ToSet(new) /\ ToSet(lru') = valid'
    BY <2>1, <1>5
  <2> QED BY <2>1, <2>2, <1>0, <1>a, <1>5, ListGrows
<1>6. ASSUME NEW es \in Seq(Entry)
      PROVE  /\ PushAll(lru, Misses(es)) \in Seq(Entry) /\ IsInjective(PushAll(lru, Misses(es)))
             /\ ToSet(PushAll(lru, Misses(es))) = valid \union ToSet(es)
             /\ IsInjective(FoldLeft(Touch, lru, es)) /\ ToSet(FoldLeft(Touch, lru, es)) = valid \union ToSet(es)
  <2> DEFINE new == Misses(es)
  <2>1. new \in Seq(Entry) /\ ToSet(new) = ToSet(es) \ valid /\ IsInjective(new)
    BY MissesFacts
  <2> HIDE DEF new
  <2>2. /\ PushAll(lru, new) \in Seq(Entry) /\ ToSet(PushAll(lru, new)) = ToSet(lru) \union ToSet(new)
        /\ IsInjective(PushAll(lru, new))
    BY <2>1, <1>0, <1>1, PushAllFacts
  <2>3. ToSet(PushAll(lru, new)) = valid \union ToSet(es)
    BY <2>1, <2>2, <1>1
  <2>4. IsInjective(FoldLeft(Touch, lru, es)) /\ ToSet(FoldLeft(Touch, lru, es)) = valid \union ToSet(es)
    BY <1>0, <1>1, TouchFoldFacts
  <2> QED BY <2>2, <2>3, <2>4 DEF new
<1>7. CASE Stage
  <2>1. Visited \in Seq(Entry) /\ ToSet(Visited) = Routed /\ InOrder \in Seq(Entry) /\ ToSet(InOrder) = Routed
    BY <1>0, VisitedFacts
  <2>2. lru' = TouchAll(Visited) /\ valid' = valid \union ToSet(Visited) /\ resident' = resident + Len(Misses(Visited))
    BY <1>7 DEF Stage, TouchEntries
  <2> DEFINE pushed == PushAll(lru, Misses(Visited))
  <2>3. pushed \in Seq(Entry) /\ IsInjective(pushed) /\ ToSet(pushed) = valid \union ToSet(Visited)
    BY <1>6, <2>1
  <2>4. ToSet(PromoteAll(pushed, InOrder)) = ToSet(pushed) /\ IsInjective(PromoteAll(pushed, InOrder))
    <3> HIDE DEF pushed
    <3>1. ToSet(InOrder) \subseteq ToSet(pushed)
      BY <2>1, <2>3
    <3> QED BY <3>1, <2>1, <2>3, PromoteAllFacts
  <2>5. IsInjective(FoldLeft(Touch, lru, Visited)) /\ ToSet(FoldLeft(Touch, lru, Visited)) = valid \union ToSet(Visited)
    BY <1>6, <2>1
  <2>6. lru' \in {pushed, PromoteAll(pushed, InOrder), FoldLeft(Touch, lru, Visited)}
    BY <2>2 DEF TouchAll
  <2> HIDE DEF pushed
  <2>7. ToSet(lru') = valid \union ToSet(Visited) /\ IsInjective(lru')
    BY <2>3, <2>4, <2>5, <2>6
  <2> QED BY <2>1, <2>2, <2>7, <1>5
<1>8. CASE \E k \in DOMAIN Visited, n \in Proj : StageFails(k, n)
  <2>1. PICK k \in DOMAIN Visited, n \in Proj : StageFails(k, n)
    BY <1>8
  <2> DEFINE es == SubSeq(Visited, 1, k - 1)
  <2>2. es \in Seq(Entry)
    <3>1. Visited \in Seq(Entry)
      BY <1>0, VisitedFacts
    <3>2. Len(Visited) \in Nat /\ k \in 1..Len(Visited)
      BY <3>1
    <3>3. k - 1 \in 0..Len(Visited)
      BY <3>2
    <3> QED BY <3>1, <3>3, CutFacts
  <2>3. /\ lru' = IF overlap THEN PushAll(lru, Misses(es)) ELSE FoldLeft(Touch, lru, es)
        /\ valid' = valid \union ToSet(es) /\ resident' = resident + Len(Misses(es))
    BY <2>1, Zenon DEF StageFails, TouchEntries
  <2> HIDE DEF es
  <2>4. ToSet(lru') = valid \union ToSet(es) /\ IsInjective(lru')
    BY <2>2, <2>3, <1>6
  <2> QED BY <2>2, <2>3, <2>4, <1>5
<1>9. CASE Evict \/ \E b \in Budgets : ShrinkTo(b)
  <2>1. PICK k \in 0..Len(lru) : k <= resident /\ EvictTails(k)
    BY <1>0, <1>9, EvictsWithin DEF Evict
  <2>2. lru' \in Seq(Entry) /\ resident' = resident - k
    BY <2>1, <1>0, EvictTailsFacts
  <2> DEFINE cut == SubSeq(lru, Len(lru) - k + 1, Len(lru))
  <2>3. PICK out \in SUBSET Entry :
            /\ valid' = valid \ out /\ lru = lru' \o cut /\ cut \in Seq(Entry) /\ ToSet(cut) = out
    BY <2>1, <1>0, EvictTailsFacts
  <2>4. Len(lru') = Len(lru) - k
    <3>1. EvictTails(k) => lru' = SubSeq(lru, 1, Len(lru) - k)
      BY DEF EvictTails
    <3>2. Len(lru) - k \in 0..Len(lru)
      BY <1>0, <2>1
    <3> QED BY <3>1, <3>2, <2>1, <1>0, CutFacts
  <2> HIDE DEF cut
  <2>5. /\ ToSet(lru' \o cut) = ToSet(lru') \union ToSet(cut)
        /\ IsInjective(lru' \o cut) <=> IsInjective(lru') /\ IsInjective(cut) /\ ToSet(lru') \intersect ToSet(cut) = {}
    BY <2>2, <2>3, ConcatFacts
  <2>6. ToSet(lru') = valid' /\ IsInjective(lru')
    BY <2>3, <2>5, <1>1
  <2>7. resident' = Len(lru')
    BY <2>2, <2>4, <1>1
  <2>8. Cardinality(ToSet(lru')) = Len(lru')
    BY <2>2, <2>6, LenIsCardinality
  <2> QED BY <2>6, <2>7, <2>8 DEF LruExact
<1>10. CASE \E asked \in SUBSET (Targets \X Expert) : Issue(asked)
  <2>1. PICK asked \in SUBSET (Targets \X Expert) : Issue(asked)
    BY <1>10
  <2> DEFINE es == Ascending(asked \intersect valid)
  <2>2. lru' = PromoteAll(lru, es) /\ valid' = valid /\ resident' = resident
    BY <2>1 DEF Issue
  <2>3. asked \intersect valid \in SUBSET Entry
    BY <1>0
  <2>4. es \in Seq(Entry) /\ ToSet(es) = asked \intersect valid
    BY <2>3, AscendingFacts
  <2> HIDE DEF es
  <2>5. ToSet(PromoteAll(lru, es)) = ToSet(lru) /\ IsInjective(PromoteAll(lru, es))
    <3>1. ToSet(es) \subseteq ToSet(lru)
      BY <2>4, <1>1
    <3> QED BY <3>1, <2>4, <1>0, <1>1, PromoteAllFacts
  <2> QED BY <2>2, <2>5, <1>1 DEF LruExact
<1>11. CASE StageSecondWave
  <2> DEFINE es == Kept(InOrder, valid)
  <2>1. lru' = PromoteAll(lru, es) /\ valid' = valid /\ resident' = resident
    BY <1>11, Zenon DEF StageSecondWave
  <2>2. es \in Seq(Entry) /\ ToSet(es) = ToSet(InOrder) \intersect valid
    BY <1>0, VisitedFacts, KeptFacts
  <2> HIDE DEF es
  <2>3. ToSet(PromoteAll(lru, es)) = ToSet(lru) /\ IsInjective(PromoteAll(lru, es))
    <3>1. ToSet(es) \subseteq ToSet(lru)
      BY <2>2, <1>1
    <3> QED BY <3>1, <2>2, <1>0, <1>1, PromoteAllFacts
  <2> QED BY <2>1, <2>3, <1>1 DEF LruExact
<1> QED BY <1>2, <1>4, <1>7, <1>8, <1>9, <1>10, <1>11, CacheFrame

\* The second layer of the invariant is inductive.
LEMMA ListingInduction ==
  /\ Init => Listing
  /\ Types /\ Listing /\ CancelOk /\ [Next]_vars => Listing'
<1>1. ASSUME Init PROVE Listing
  <2>0. Pending = {} /\ pc = "route" /\ spec_done = <<>> /\ lru = <<>> /\ valid = {} /\ resident = 0 /\ spec_jobs = <<>>
    BY <1>1 DEF Init, Pending
  <2>1. ToSet(<<>>) = {} /\ IsInjective(<<>>) /\ Cardinality({}) = 0
    BY ToSetFacts, FS_EmptySet
  <2>2. QuietInv
    BY <2>0 DEF QuietInv, Settled
  <2> QED BY <2>0, <2>1, <2>2 DEF Listing, RangeInv, CandInv, DoneInv, LruExact
<1>2. ASSUME Types, Listing, CancelOk, [Next]_vars PROVE Listing'
  <2>1. QuietInv'
    BY <1>2, QuietStep DEF Listing
  <2>2. RangeInv' /\ CandInv' /\ DoneInv'
    BY <1>2, RangeStep, CandStep, DoneStep
  <2>3. LruExact'
    BY <1>2, ListStep DEF Listing
  <2> QED BY <2>1, <2>2, <2>3 DEF Listing
<1> QED BY <1>1, <1>2

\* Every state the streamer reaches has the types of TypeOK (the members of
\* ExpertStreamSource), and done_cnt_ never passes batch_njobs_.
THEOREM TypeCorrect == Spec => []TypeOK
<1>1. Spec => []Types
  BY TypesInduction, PTL DEF Spec
<1>2. Types => TypeOK
  BY DEF Types
<1> QED BY <1>1, <1>2, PTL

\* The LRU list holds the resident entries, each once, and cresident_ is their number, whatever the
\* lanes complete and whichever calls fail (lru_unlink, lru_push_front, evict_tail, integrate).
THEOREM LruIsExact == ASSUME CancelOk PROVE Spec => []LruExact
<1>1. Init => Types /\ Listing
  BY TypesInduction, ListingInduction
<1>2. Types /\ Listing /\ [Next]_vars => Types' /\ Listing'
  BY TypesInduction, ListingInduction
<1>3. Types /\ Listing => LruExact
  BY DEF Listing
<1> QED BY <1>1, <1>2, <1>3, PTL DEF Spec

\* What the lanes read for the batch or for the speculation, or are still to take.
BatchSlices == ToSet(jobs) \union LaneSlices("batch")
SpecSlices == ToSet(spec_jobs) \union LaneSlices("spec")

\* A lane takes the head of the speculative queue.
TakesSpec(n) ==
    /\ lane[n] = Nobody /\ spec_jobs # <<>>
    /\ lane' = [lane EXCEPT ![n] = Speculating(Head(spec_jobs), TRUE)]
    /\ spec_jobs' = Tail(spec_jobs)

\* Nothing is speculated for that was not before.
SpecShrinks ==
    /\ \A n \in Lane : lane'[n].doing = "spec" => lane[n].doing = "spec" /\ lane'[n].slice = lane[n].slice
    /\ ToSet(spec_jobs') \subseteq ToSet(spec_jobs)
    /\ IsInjective(spec_jobs) => IsInjective(spec_jobs')

(***************************************************************************)
(* Third layer, Speculation: a speculative read is queued or in flight once, *)
(* belongs to an expert still pending, and a pending expert owes exactly the *)
(* pages it lacks.                                                         *)
(***************************************************************************)

\* What a step makes of the speculative reads: prefetch adds to them, a lane takes one, or some end.
LEMMA ReadsMove ==
  ASSUME Types, [Next]_vars
  PROVE  \/ \E k \in 0..Len(cand) :
               Prefetch(k) /\ lane' = lane /\ spec_jobs' = spec_jobs \o EntryMajor(Queued(k))
         \/ \E n \in Lane : TakesSpec(n)
         \/ SpecShrinks
<1>0. TypeOK /\ spec_jobs \in Seq(Slice) /\ 0 \in Lane /\ il \in Layer
  BY SomeLane DEF Types, TypeOK
<1>1. CASE \E k \in 0..Len(cand) : Prefetch(k)
  BY <1>1 DEF Prefetch, threads
<1>2. CASE (\E n \in Lane : SpecPull(n)) \/ AdoptPull
  BY <1>0, <1>2 DEF SpecPull, AdoptPull, TakesSpec
<1>3. CASE ~ (\E k \in 0..Len(cand) : Prefetch(k)) /\ ~ (\E n \in Lane : SpecPull(n)) /\ ~ AdoptPull
  <2>1. \A n \in Lane : lane'[n].doing = "spec" => lane[n].doing = "spec" /\ lane'[n].slice = lane[n].slice
    BY <1>0, <1>3, SpeculationBegins
  <2>2. ToSet(spec_jobs') \subseteq ToSet(spec_jobs) /\ (IsInjective(spec_jobs) => IsInjective(spec_jobs'))
    <3>1. CASE AdoptBegin
      <4> DEFINE own == OfLayer(spec_jobs, il)
                 rest == NotOfLayer(spec_jobs, il)
      <4>1. spec_jobs' = own \o rest
        BY <3>1 DEF AdoptBegin
      <4>2. /\ own \in Seq(Slice) /\ ToSet(own) = ToSet(spec_jobs) \intersect Slices(Bank(il))
            /\ IsInjective(spec_jobs) => IsInjective(own)
        BY <1>0, KeptFacts DEF OfLayer
      <4>3. /\ rest \in Seq(Slice) /\ ToSet(rest) = ToSet(spec_jobs) \intersect (Slice \ Slices(Bank(il)))
            /\ IsInjective(spec_jobs) => IsInjective(rest)
        BY <1>0, KeptFacts DEF NotOfLayer
      <4> HIDE DEF own, rest
      <4>4. /\ ToSet(own \o rest) = ToSet(own) \union ToSet(rest)
            /\ IsInjective(own \o rest) <=> /\ IsInjective(own) /\ IsInjective(rest)
                                            /\ ToSet(own) \intersect ToSet(rest) = {}
        BY <4>2, <4>3, ConcatFacts
      <4> QED BY <4>1, <4>2, <4>3, <4>4
    <3>2. CASE spec_jobs' \in {spec_jobs, <<>>}
      <4>1. ToSet(<<>>) = {} /\ IsInjective(<<>>)
        BY ToSetFacts
      <4> QED BY <3>2, <4>1
    <3> QED BY <1>3, <3>1, <3>2, QueueFrame DEF Shutdown, CancelSpec
  <2> QED BY <2>1, <2>2 DEF SpecShrinks
<1> QED BY <1>1, <1>2, <1>3

\* A speculative slice is read once.
OnceInv ==
    /\ IsInjective(spec_jobs)
    /\ \A n \in InFlight :
          /\ lane[n].slice \notin ToSet(spec_jobs)
          /\ \A m \in InFlight \ {n} : lane[m].slice # lane[n].slice

\* What is read is pending.
OwedInv == SpecSlices \subseteq Slices(Pending)

\* What taking a slice does.
LEMMA TakingFacts ==
  ASSUME TypeOK, NEW n \in Lane, TakesSpec(n)
  PROVE  /\ InFlight' = InFlight \union {n} /\ n \notin InFlight
         /\ lane'[n].slice = Head(spec_jobs) /\ \A m \in Lane \ {n} : lane'[m] = lane[m]
         /\ Head(spec_jobs) \in Slice
         /\ ToSet(spec_jobs) = {Head(spec_jobs)} \union ToSet(spec_jobs')
         /\ IsInjective(spec_jobs) => IsInjective(spec_jobs') /\ Head(spec_jobs) \notin ToSet(spec_jobs')
         /\ SpecSlices' = SpecSlices
<1>0. spec_jobs \in Seq(Slice) /\ lane \in [Lane -> Doings] /\ spec_jobs # <<>>
  BY DEF TypeOK, TakesSpec
<1>1. lane'[n] = Speculating(Head(spec_jobs), TRUE) /\ \A m \in Lane \ {n} : lane'[m] = lane[m]
  BY <1>0 DEF TakesSpec
<1>2. /\ Speculating(Head(spec_jobs), TRUE).doing = "spec" /\ Speculating(Head(spec_jobs), TRUE).slice = Head(spec_jobs)
      /\ Nobody.doing # "spec"
  BY LaneRecords, Zenon
<1>3. lane'[n].doing = "spec" /\ lane'[n].slice = Head(spec_jobs) /\ lane[n].doing # "spec"
  BY <1>1, <1>2 DEF TakesSpec
<1>4. InFlight' = InFlight \union {n} /\ n \notin InFlight
  BY <1>1, <1>3 DEF InFlight
<1>5. /\ Head(spec_jobs) \in Slice /\ ToSet(spec_jobs) = {Head(spec_jobs)} \union ToSet(Tail(spec_jobs))
      /\ IsInjective(spec_jobs) => IsInjective(Tail(spec_jobs)) /\ Head(spec_jobs) \notin ToSet(Tail(spec_jobs))
  BY <1>0, HeadTailFacts
<1>6. spec_jobs' = Tail(spec_jobs)
  BY DEF TakesSpec
<1>7. LaneSlices("spec")' = LaneSlices("spec") \union {Head(spec_jobs)}
  <2>1. LaneSlices("spec") = {lane[m].slice : m \in InFlight}
    BY DEF LaneSlices, InFlight
  <2>2. LaneSlices("spec")' = {lane'[m].slice : m \in InFlight'}
    BY DEF LaneSlices, InFlight
  <2>3. \A m \in InFlight : lane'[m].slice = lane[m].slice
    BY <1>1, <1>4 DEF InFlight
  <2> QED BY <1>3, <1>4, <2>1, <2>2, <2>3
<1> QED BY <1>1, <1>3, <1>4, <1>5, <1>6, <1>7 DEF SpecSlices

\* What ending some speculation does.
LEMMA ShrinkingFacts ==
  ASSUME SpecShrinks
  PROVE  InFlight' \subseteq InFlight /\ SpecSlices' \subseteq SpecSlices
         /\ \A n \in InFlight' : lane'[n].slice = lane[n].slice
<1>1. InFlight' \subseteq InFlight /\ \A n \in InFlight' : lane'[n].slice = lane[n].slice
  BY DEF SpecShrinks, InFlight
<1>2. LaneSlices("spec")' \subseteq LaneSlices("spec")
  BY DEF SpecShrinks, LaneSlices
<1> QED BY <1>1, <1>2 DEF SpecSlices, SpecShrinks

\* What prefetch adds: the slices of candidates nobody speculates for.
LEMMA PrefetchFacts ==
  ASSUME TypeOK, CandInv, NEW k \in 0..Len(cand), Prefetch(k)
  PROVE  /\ Queued(k) \in Seq(Entry) /\ IsInjective(Queued(k))
         /\ ToSet(Queued(k)) \intersect (valid \union Pending) = {}
         /\ EntryMajor(Queued(k)) \in Seq(Slice) /\ IsInjective(EntryMajor(Queued(k)))
         /\ ToSet(EntryMajor(Queued(k))) = Slices(ToSet(Queued(k)))
         /\ spec_jobs' = spec_jobs \o EntryMajor(Queued(k)) /\ lane' = lane
         /\ ToSet(spec_jobs') = ToSet(spec_jobs) \union Slices(ToSet(Queued(k)))
         /\ Pending' = Pending \union ToSet(Queued(k)) /\ InFlight' = InFlight
         /\ SpecSlices' = SpecSlices \union Slices(ToSet(Queued(k)))
<1>0. cand \in Seq(Entry) /\ spec_jobs \in Seq(Slice) /\ Projs \in Nat \ {0} /\ Len(cand) \in Nat
  BY StreamAssumption DEF TypeOK
<1>1. ToSet(cand) \intersect (valid \union Pending) = {} /\ IsInjective(cand)
  BY DEF Prefetch, CandInv
<1>2. Queued(k) \in Seq(Entry) /\ ToSet(Queued(k)) \subseteq ToSet(cand) /\ IsInjective(Queued(k))
  <2>1. Queued(k) \in Seq(Entry)
    BY <1>0, CutFacts DEF Queued
  <2> DEFINE rest == SubSeq(cand, k + 1, Len(cand))
  <2>2. rest \in Seq(Entry) /\ cand = Queued(k) \o rest
    BY <1>0, CutFacts DEF Queued
  <2> HIDE DEF rest
  <2>3. /\ ToSet(Queued(k) \o rest) = ToSet(Queued(k)) \union ToSet(rest)
        /\ IsInjective(Queued(k) \o rest) => IsInjective(Queued(k))
    BY <2>1, <2>2, ConcatFacts
  <2> QED BY <2>1, <2>2, <2>3, <1>1
<1> DEFINE more == EntryMajor(Queued(k))
<1>3. more \in Seq(Slice) /\ IsInjective(more) /\ ToSet(more) = Slices(ToSet(Queued(k)))
  BY <1>2, EntryMajorFacts
<1>4. spec_jobs' = spec_jobs \o more /\ lane' = lane
  BY DEF Prefetch, threads
<1> HIDE DEF more
<1>5. ToSet(spec_jobs \o more) = ToSet(spec_jobs) \union ToSet(more)
  BY <1>0, <1>3, ConcatFacts
<1>6. Pending' = Pending \union ToSet(Queued(k))
  <2>1. spec_remaining' = [e \in Entry |-> IF e \in ToSet(Queued(k)) THEN Projs ELSE spec_remaining[e]]
    BY DEF Prefetch
  <2>2. ToSet(Queued(k)) \subseteq Entry
    BY <1>2, ToSetFacts
  <2> QED BY <2>1, <2>2, <1>0 DEF Pending
<1>7. InFlight' = InFlight /\ LaneSlices("spec")' = LaneSlices("spec")
  BY <1>4 DEF InFlight, LaneSlices
<1> QED BY <1>1, <1>2, <1>3, <1>4, <1>5, <1>6, <1>7 DEF SpecSlices, more

\* A speculative slice is read once after any step.
LEMMA OnceStep ==
  ASSUME Types, CandInv, OnceInv, OwedInv, [Next]_vars
  PROVE  OnceInv'
<1>0. TypeOK /\ spec_jobs \in Seq(Slice)
  BY DEF Types, TypeOK
<1>1. ASSUME NEW k \in 0..Len(cand), Prefetch(k) PROVE OnceInv'
  <2> DEFINE more == EntryMajor(Queued(k))
  <2>1. /\ more \in Seq(Slice) /\ IsInjective(more) /\ ToSet(more) = Slices(ToSet(Queued(k)))
        /\ ToSet(Queued(k)) \intersect Pending = {} /\ lane' = lane /\ InFlight' = InFlight
        /\ spec_jobs' = spec_jobs \o more /\ ToSet(spec_jobs') = ToSet(spec_jobs) \union ToSet(more)
    BY <1>0, <1>1, PrefetchFacts
  <2> HIDE DEF more
  <2>2. SpecSlices \intersect ToSet(more) = {}
    BY <2>1 DEF OwedInv, Slices
  <2>3. IsInjective(spec_jobs \o more)
    BY <2>1, <2>2, <1>0, ConcatFacts DEF OnceInv, SpecSlices
  <2>4. \A n \in InFlight : lane[n].slice \in SpecSlices
    BY DEF SpecSlices, LaneSlices, InFlight
  <2> QED BY <2>1, <2>2, <2>3, <2>4 DEF OnceInv
<1>2. ASSUME NEW n \in Lane, TakesSpec(n) PROVE OnceInv'
  <2>1. /\ InFlight' = InFlight \union {n} /\ n \notin InFlight
        /\ lane'[n].slice = Head(spec_jobs) /\ \A m \in Lane \ {n} : lane'[m] = lane[m]
        /\ ToSet(spec_jobs) = {Head(spec_jobs)} \union ToSet(spec_jobs')
        /\ IsInjective(spec_jobs') /\ Head(spec_jobs) \notin ToSet(spec_jobs')
    BY <1>0, <1>2, TakingFacts DEF OnceInv
  <2>2. \A m \in InFlight : m \in Lane \ {n} /\ lane'[m] = lane[m] /\ lane[m].slice \notin ToSet(spec_jobs)
    BY <2>1 DEF OnceInv, InFlight
  <2> QED BY <2>1, <2>2 DEF OnceInv
<1>3. CASE SpecShrinks
  BY <1>3, ShrinkingFacts DEF OnceInv, SpecShrinks
<1> QED BY <1>1, <1>2, <1>3, ReadsMove

\* Nor does a speculative read fail under route-ahead: its failure forgets the whole entry, whose
\* other slices are still queued or being read when it is staged anew (MCExpertStreamAheadFault).
AdoptsCleanly == Adopt => {"spec_read", "cancel"} \intersect Faults = {}

\* The quiesce releases what was not completed.
Finishing == FinishQuiesce("cancelled", "stage") \/ FinishQuiesce("shrink_cancelled", "shrunk")

\* What a step does to the count of an entry.
LEMMA CountMoves ==
  ASSUME TypeOK, [Next]_vars, NEW e \in Entry
  PROVE  /\ \/ spec_remaining'[e] = spec_remaining[e]
            \/ \E n \in Lane : /\ SpecRead(n) /\ lane[n].slice[1] = e
                               /\ spec_remaining[e] # 0 /\ spec_remaining'[e] = spec_remaining[e] - 1
            \/ Adopt /\ \E n \in Lane : SpecReadFails(n)
            \/ Finishing /\ (spec_remaining'[e] = 0 \/ e \notin spec_touched)
            \/ \E k \in 0..Len(cand) : Prefetch(k)
         /\ e \in ToSet(spec_done') =>
               \/ e \in ToSet(spec_done)
               \/ \E n \in Lane : SpecRead(n) /\ lane[n].slice[1] = e /\ spec_remaining[e] = 1
<1>0. /\ spec_done \in Seq(Entry) /\ lane \in [Lane -> Doings] /\ spec_remaining \in [Entry -> 0..Projs]
      /\ Projs \in Nat \ {0}
  BY StreamAssumption DEF TypeOK
<1>1. \A n \in Lane : lane[n].doing = "spec" => lane[n].slice[1] \in Entry
  BY <1>0, DoingFacts DEF Slice
<1>2. ASSUME NEW n \in Lane, SpecRead(n)
      PROVE  /\ \/ spec_remaining'[e] = spec_remaining[e]
                \/ /\ lane[n].slice[1] = e
                   /\ spec_remaining[e] # 0 /\ spec_remaining'[e] = spec_remaining[e] - 1
             /\ e \in ToSet(spec_done') => e \in ToSet(spec_done) \/ (lane[n].slice[1] = e /\ spec_remaining[e] = 1)
  <2> DEFINE d == lane[n].slice[1]
  <2>1. d \in Entry /\ (CountDown(d) \/ UNCHANGED <<spec_remaining, spec_done>>)
    BY <1>1, <1>2 DEF SpecRead
  <2>2. d = e => lane[n].slice[1] = e
    OBVIOUS
  <2> HIDE DEF d
  <2>3. CASE UNCHANGED <<spec_remaining, spec_done>>
    BY <2>3
  <2>4. CASE CountDown(d) /\ spec_remaining[d] = 0
    BY <2>4, <2>3 DEF CountDown
  <2>5. CASE CountDown(d) /\ spec_remaining[d] # 0
    <3>1. spec_remaining' = [spec_remaining EXCEPT ![d] = spec_remaining[d] - 1]
      BY <2>5 DEF CountDown
    <3>2. \/ spec_remaining'[e] = spec_remaining[e]
          \/ d = e /\ spec_remaining[e] # 0 /\ spec_remaining'[e] = spec_remaining[e] - 1
      BY <3>1, <2>1, <2>5, <1>0
    <3>3. spec_done' = IF spec_remaining[d] = 1 THEN Append(spec_done, d) ELSE spec_done
      BY <2>5 DEF CountDown
    <3>4. ToSet(Append(spec_done, d)) = ToSet(spec_done) \union {d}
      BY <2>1, <1>0, AppendFacts
    <3>5. e \in ToSet(spec_done') => e \in ToSet(spec_done) \/ (d = e /\ spec_remaining[e] = 1)
      BY <3>3, <3>4
    <3> QED BY <3>2, <3>5, <2>2
  <2> QED BY <2>1, <2>3, <2>4, <2>5
<1>3. \/ spec_remaining'[e] = spec_remaining[e]
      \/ \E n \in Lane : /\ SpecRead(n) /\ lane[n].slice[1] = e
                         /\ spec_remaining[e] # 0 /\ spec_remaining'[e] = spec_remaining[e] - 1
      \/ Adopt /\ \E n \in Lane : SpecReadFails(n)
      \/ Finishing /\ (spec_remaining'[e] = 0 \/ e \notin spec_touched)
      \/ \E k \in 0..Len(cand) : Prefetch(k)
  <2>1. (\E n \in Lane : SpecReadFails(n)) => Adopt \/ spec_remaining' = spec_remaining
    BY DEF SpecReadFails, Forget
  <2>2. Finishing => spec_remaining'[e] = 0 \/ e \notin spec_touched
    BY <1>0 DEF Finishing, FinishQuiesce
  <2> QED BY <1>2, <2>1, <2>2, RemainingFrame DEF Finishing
<1>4. ToSet(<<>>) = {}
  BY ToSetFacts
<1>5. e \in ToSet(spec_done') =>
         \/ e \in ToSet(spec_done)
         \/ \E n \in Lane : SpecRead(n) /\ lane[n].slice[1] = e /\ spec_remaining[e] = 1
  <2>1. CASE AdoptEnd \/ IssueSettle \/ Release \/ Finishing
    <3>1. spec_done' = <<>>
      BY <2>1 DEF AdoptEnd, IssueSettle, Release, Finishing, FinishQuiesce, Integrate
    <3> QED BY <3>1, <1>4
  <2> QED BY <2>1, <1>2, DoneFrame DEF Finishing
<1> QED BY <1>3, <1>5

\* Whom a failed commit of prefetch gives pages back of, nobody knows: not the cache, not the lanes.
LEMMA ReleasedApart ==
  ASSUME Types, Listing, NEW k \in 0..Len(cand), Prefetch(k)
  PROVE  NotCommitted(k) \intersect (valid \union Pending \union ToSet(spec_done)) = {}
<1>0. cand \in Seq(Entry) /\ il \in Nat /\ Ahead \in Nat /\ pc = "prefetch" /\ Adopt \in BOOLEAN
  BY StreamAssumption DEF Types, TypeOK, Layer, Prefetch
<1>1. NotCommitted(k) \subseteq ToSet(cand)
  <2>1. ToSet(cand) = {cand[i] : i \in 1..Len(cand)} /\ DOMAIN cand = 1..Len(cand)
    BY <1>0, ToSetFacts
  <2> QED BY <2>1 DEF NotCommitted
<1>2. ToSet(cand) \intersect (valid \union Pending) = {}
  BY <1>0 DEF Listing, CandInv
<1>3. ToSet(cand) \intersect ToSet(spec_done) = {}
  <2>1. CASE ~Adopt
    BY <1>0, <2>1, ToSetFacts DEF Listing, QuietInv, Settled
  <2>2. CASE Adopt
    <3>1. \A e \in ToSet(cand) : e[1] = il + Ahead
      BY <1>0, <2>2 DEF Listing, CandInv
    <3>2. \A e \in ToSet(spec_done) : e[1] < il + Ahead
      BY <1>0, <2>2 DEF Listing, RangeInv
    <3>3. ~ (il + Ahead < il + Ahead)
      BY <1>0
    <3> QED BY <3>1, <3>2, <3>3
  <2> QED BY <1>0, <2>1, <2>2
<1> QED BY <1>1, <1>2, <1>3

\* The pages of what is resident, pending or complete are given back with an evicted entry, by the
\* quiesce and by the teardown alone.
LEMMA PagesKept ==
  ASSUME Types, Listing, [Next]_vars, pc' # "off", NEW s \in Slice, s[1] \in valid' \/ s[1] \notin valid,
         s[1] \in valid \union Pending \union ToSet(spec_done),
         Finishing => s[1] \notin Released \ ToSet(spec_done)
  PROVE  (s \in filled => s \in filled') /\ (s \in committed => s \in committed')
<1>0. TypeOK /\ lru \in Seq(Entry) /\ ToSet(lru) = valid /\ ~ Release
  BY DEF Types, TypeOK, Listing, LruExact, Release
<1>1. CASE Evict \/ \E b \in Budgets : ShrinkTo(b)
  <2>1. PICK k \in 0..Len(lru) : k <= resident /\ EvictTails(k)
    BY <1>0, <1>1, EvictsWithin DEF Evict
  <2> DEFINE cut == SubSeq(lru, Len(lru) - k + 1, Len(lru))
  <2>2. lru' \in Seq(Entry)
    BY <2>1, <1>0, EvictTailsFacts
  <2>3. PICK out \in SUBSET Entry :
            /\ valid' = valid \ out /\ lru = lru' \o cut /\ cut \in Seq(Entry) /\ ToSet(cut) = out
            /\ committed' = committed \ Slices(out) /\ filled' = filled \ Slices(out)
    BY <2>1, <1>0, EvictTailsFacts
  <2> HIDE DEF cut
  <2>4. ToSet(lru' \o cut) = ToSet(lru') \union ToSet(cut)
    BY <2>2, <2>3, ConcatFacts
  <2>5. s[1] \notin out
    BY <2>3, <2>4, <1>0
  <2> QED BY <2>3, <2>5 DEF Slices
<1>2. CASE Finishing
  BY <1>2 DEF Finishing, FinishQuiesce, Slices
<1>3. CASE \E k \in 0..Len(cand) : Prefetch(k)
  <2>1. PICK k \in 0..Len(cand) : Prefetch(k)
    BY <1>3
  <2>2. s \notin Slices(NotCommitted(k))
    BY <2>1, ReleasedApart DEF Slices
  <2>3. /\ filled' = filled \ Slices(NotCommitted(k))
        /\ committed \ Slices(NotCommitted(k)) \subseteq committed'
    BY <2>1 DEF Prefetch
  <2> QED BY <2>2, <2>3
<1>4. CASE ~ Finishing /\ ~ Evict /\ ~ (\E b \in Budgets : ShrinkTo(b)) /\ ~ \E k \in 0..Len(cand) : Prefetch(k)
  <2>1. s \in filled => s \in filled'
    BY <1>0, <1>4, FilledFrame DEF InlineRead, BatchRead, SpecRead, Finishing
  <2>2. s \in committed => s \in committed'
    BY <1>0, <1>4, CommittedFrame, SecondFailsFacts DEF Stage, StageSecondWave, StageFails, Finishing
  <2> QED BY <2>1, <2>2
<1> QED BY <1>1, <1>2, <1>3, <1>4

\* What is still to be read of a pending entry, by lanes or by nobody.
Left(e) == {p \in Proj : <<e, p>> \notin filled \/ <<e, p>> \in SpecSlices}

\* What is pending or complete is not resident.
ApartInv == (Pending \union ToSet(spec_done)) \intersect valid = {}

\* spec_remaining covers what is still to be read, and no page of it is lost.
OwingInv ==
    /\ pc = "off" => InFlight = {} /\ spec_done = <<>>
    /\ pc # "off" => \A e \in Pending : Cardinality(Left(e)) <= spec_remaining[e]
    /\ pc # "off" => Slices(Pending) \subseteq committed
    /\ Slices(ToSet(spec_done)) \subseteq filled \intersect committed

\* The third layer of the invariant.
Speculation == OnceInv /\ OwedInv /\ ApartInv /\ OwingInv

\* How many projections are still to be read.
LEMMA LeftFacts ==
  /\ \A S \in SUBSET Proj : IsFiniteSet(S) /\ Cardinality(S) \in Nat /\ Cardinality(S) <= Projs
  /\ \A S : \A T : IsFiniteSet(T) /\ S \subseteq T =>
        /\ IsFiniteSet(S) /\ Cardinality(S) <= Cardinality(T) /\ Cardinality(S) \in Nat /\ Cardinality(T) \in Nat
        /\ \A x \in T \ S : Cardinality(S) <= Cardinality(T) - 1
<1>1. ASSUME NEW S, NEW T, IsFiniteSet(T), S \subseteq T
      PROVE  /\ IsFiniteSet(S) /\ Cardinality(S) <= Cardinality(T) /\ Cardinality(S) \in Nat /\ Cardinality(T) \in Nat
             /\ \A x \in T \ S : Cardinality(S) <= Cardinality(T) - 1
  <2>1. /\ IsFiniteSet(S) /\ Cardinality(S) <= Cardinality(T) /\ Cardinality(S) \in Nat /\ Cardinality(T) \in Nat
    BY <1>1, FS_Subset, FS_CardinalityType
  <2>2. ASSUME NEW x \in T \ S PROVE Cardinality(S) <= Cardinality(T) - 1
    <3>1. S \subseteq T \ {x} /\ IsFiniteSet(T \ {x}) /\ Cardinality(T \ {x}) = Cardinality(T) - 1
      BY <1>1, FS_RemoveElement
    <3>2. Cardinality(S) <= Cardinality(T \ {x})
      BY <3>1, FS_Subset
    <3> QED BY <3>1, <3>2
  <2> QED BY <2>1, <2>2
<1>2. IsFiniteSet(Proj) /\ Cardinality(Proj) = Projs
  <2>1. 0 \in Int /\ Projs - 1 \in Int /\ Projs \in Nat \ {0}
    BY StreamAssumption
  <2>2. IsFiniteSet(0..(Projs - 1)) /\ Cardinality(0..(Projs - 1)) = IF 0 > Projs - 1 THEN 0 ELSE Projs - 1 - 0 + 1
    BY <2>1, FS_Interval
  <2> QED BY <2>1, <2>2 DEF Proj
<1>3. ASSUME NEW S \in SUBSET Proj PROVE IsFiniteSet(S) /\ Cardinality(S) \in Nat /\ Cardinality(S) <= Projs
  BY <1>1, <1>2
<1> QED BY <1>1, <1>3

\* How the teardown ends, and that nothing follows it.
LEMMA OffPlaces ==
  ASSUME Types, [Next]_vars
  PROVE  (pc' = "off" => pc = "off" \/ Release) /\ (pc = "off" => pc' = "off")
<1>0. pc \in Places
  BY DEF Types, TypeOK
<1>1. CASE \E n \in Lane : LaneStep(n)
  BY <1>1 DEF LaneStep, BatchPull, BatchRead, BatchReadFails, BatchCount, SpecPull, SpecRead,
     SpecReadFails, WorkerExit, where
<1>2. CASE Quiesce \/ Load
  BY <1>2 DEF Quiesce, CancelSpec, FinishQuiesce, AdoptBegin, AdoptPull, AdoptEnd, where, Load, Stage,
     StageFails, StageSecondWave, SecondWaveFails, InlineRead, InlineReadFails, DrainEnd, Evict
<1>3. CASE Speculate \/ Shrink
  BY <1>3 DEF Speculate, IssueSettle, Issue, NoIssue, Prefetch, where, Shrink, CancelSpec, FinishQuiesce, ShrinkTo
<1>4. CASE Matmul \/ OverlapOffJoin \/ Release
  BY <1>4 DEF Matmul, OverlapOffJoin, Release
<1>5. CASE Start
  BY <1>5 DEF Start, BeginLoad, Cancel, ShrinkBegin, Grow, OverlapOn, OverlapOff, Shutdown, Ended,
     BetweenDecodes, vars, where
<1>6. CASE UNCHANGED vars
  BY <1>6 DEF vars, where
<1> QED BY <1>1, <1>2, <1>3, <1>4, <1>5, <1>6 DEF Next, Continue

\* The teardown leaves no lane at a speculative read, and nothing complete.
LEMMA OffStep ==
  ASSUME Types, Listing, Speculation, [Next]_vars, pc' = "off"
  PROVE  InFlight' = {} /\ spec_done' = <<>>
<1>1. CASE Release
  <2>1. pc = "stopping" /\ Joined /\ lane' = lane /\ spec_done' = <<>>
    BY <1>1 DEF Release, threads
  <2>2. ~(overlap /\ lane0_stop) /\ (~overlap => lane[0].doing # "spec")
    BY <2>1 DEF Types, PlaceInv
  <2>3. Gone.doing # "spec"
    BY LaneRecords, Zenon
  <2>4. ASSUME NEW n \in Lane PROVE lane[n].doing # "spec"
    BY <2>1, <2>2, <2>3 DEF Joined, Served
  <2> QED BY <2>1, <2>4 DEF InFlight
<1>2. CASE pc = "off"
  <2>1. InFlight = {} /\ spec_jobs = <<>> /\ spec_done = <<>>
    BY <1>2 DEF Listing, QuietInv, Speculation, OwingInv
  <2>2. ASSUME NEW n \in Lane, lane'[n].doing = "spec" PROVE FALSE
    <3>1. lane[n].doing # "spec"
      BY <2>1 DEF InFlight
    <3> QED BY <2>1, <2>2, <3>1, SpeculationBegins DEF SpecPull, AdoptPull, Types
  <2>3. InFlight' = {}
    BY <2>2 DEF InFlight
  <2>4. ~ \E n \in Lane : SpecRead(n)
    BY <2>1 DEF SpecRead, InFlight
  <2> QED BY <2>1, <2>3, <2>4, DoneFrame DEF AdoptEnd, IssueSettle, Release, FinishQuiesce, Integrate
<1> QED BY <1>1, <1>2, OffPlaces

\* What a speculative read does.
LEMMA ReadingFacts ==
  ASSUME TypeOK, OnceInv, NEW n \in Lane, SpecRead(n)
  PROVE  /\ lane[n].slice \in Slice /\ lane[n].slice \in SpecSlices
         /\ SpecSlices' \subseteq SpecSlices \ {lane[n].slice}
         /\ filled' = filled \union {lane[n].slice} /\ committed' = committed /\ pc' = pc
<1>0. /\ lane \in [Lane -> Doings] /\ n \in InFlight /\ lane' = [lane EXCEPT ![n] = Nobody]
      /\ spec_jobs' = spec_jobs /\ filled' = filled \union {lane[n].slice} /\ committed' = committed /\ pc' = pc
  BY DEF TypeOK, SpecRead, InFlight, where
<1>1. lane[n].slice \in Slice
  BY <1>0, DoingFacts DEF InFlight
<1>2. lane[n].slice \in SpecSlices
  BY <1>0 DEF SpecSlices, LaneSlices, InFlight
<1>3. lane'[n] = Nobody /\ \A m \in Lane \ {n} : lane'[m] = lane[m]
  BY <1>0
<1>4. Nobody.doing # "spec"
  BY LaneRecords, Zenon
<1>5. \A m \in Lane : lane'[m].doing = "spec" => m \in InFlight \ {n} /\ lane'[m] = lane[m]
  BY <1>3, <1>4 DEF InFlight
<1>6. LaneSlices("spec")' \subseteq LaneSlices("spec") \ {lane[n].slice}
  BY <1>5, <1>0 DEF LaneSlices, InFlight, OnceInv
<1>7. lane[n].slice \notin ToSet(spec_jobs)
  BY <1>0 DEF OnceInv
<1> QED BY <1>0, <1>1, <1>2, <1>6, <1>7 DEF SpecSlices

\* A destructive quiesce ends with nothing left to read.
LEMMA NothingLeft ==
  ASSUME Listing, Finishing
  PROVE  SpecSlices = {}
<1>1. InFlight = {} /\ spec_jobs = <<>>
  BY DEF Finishing, FinishQuiesce, ReadsOver, Listing, QuietInv
<1>2. LaneSlices("spec") = {} /\ ToSet(<<>>) = {}
  BY <1>1, ToSetFacts DEF LaneSlices, InFlight
<1> QED BY <1>1, <1>2 DEF SpecSlices

\* Only prefetch adds to the speculative reads.
LEMMA SlicesMove ==
  ASSUME Types, [Next]_vars, ~ \E k \in 0..Len(cand) : Prefetch(k)
  PROVE  SpecSlices' \subseteq SpecSlices
BY ReadsMove, TakingFacts, ShrinkingFacts DEF Types

\* Nor does any other step make an entry pending or complete that was neither.
LEMMA SpeculationKept ==
  ASSUME TypeOK, [Next]_vars, ~ \E k \in 0..Len(cand) : Prefetch(k)
  PROVE  Pending' \subseteq Pending /\ Pending' \union ToSet(spec_done') \subseteq Pending \union ToSet(spec_done)
<1>0. spec_done \in Seq(Entry) /\ ToSet(<<>>) = {}
  BY ToSetFacts DEF TypeOK
<1>1. CASE Pending' \subseteq Pending /\ spec_done' \in {spec_done, <<>>}
  <2>1. ToSet(spec_done') \subseteq ToSet(spec_done)
    BY <1>0, <1>1
  <2> QED BY <1>1, <2>1
<1>2. ASSUME NEW e \in Pending, Pending' = Pending \ {e}, spec_done' = Append(spec_done, e)
      PROVE  Pending' \subseteq Pending /\ Pending' \union ToSet(spec_done') \subseteq Pending \union ToSet(spec_done)
  <2>1. e \in Entry
    BY DEF Pending
  <2>2. ToSet(Append(spec_done, e)) = ToSet(spec_done) \union {e}
    BY <1>0, <2>1, AppendFacts
  <2>3. ToSet(spec_done') = ToSet(spec_done) \union {e}
    BY <1>2, <2>2
  <2> QED BY <1>2, <2>3
<1> QED BY <1>1, <1>2, SpeculationMoves

\* Of a pending entry with one projection to go, the slice being read is the one.
LEMMA LastOne ==
  ASSUME Types, Speculation, pc # "off", NEW n \in Lane, SpecRead(n),
         lane[n].slice[1] \in Pending, spec_remaining[lane[n].slice[1]] = 1,
         NEW s \in Slice, s[1] = lane[n].slice[1], s \notin filled \/ s \in SpecSlices
  PROVE  s = lane[n].slice
<1> DEFINE t == lane[n].slice
           e == t[1]
<1>1. t \in Slice /\ t \in SpecSlices
  BY ReadingFacts DEF Types, Speculation
<1>2. e \in Entry /\ Cardinality(Left(e)) <= 1
  BY DEF Speculation, OwingInv, Pending
<1>3. t[2] \in Proj /\ s[2] \in Proj /\ t = <<e, t[2]>> /\ s = <<s[1], s[2]>> /\ s[1] = e
  BY <1>1 DEF Slice
<1> HIDE DEF e, t
<1>4. t[2] \in Left(e) /\ s[2] \in Left(e)
  BY <1>1, <1>3 DEF Left
<1>5. Left(e) \in SUBSET Proj
  BY DEF Left
<1>6. ASSUME t[2] # s[2] PROVE FALSE
  <2>1. IsFiniteSet(Left(e)) /\ Cardinality(Left(e)) \in Nat
    BY <1>5, LeftFacts
  <2>2. {t[2]} \subseteq Left(e) /\ s[2] \in Left(e) \ {t[2]}
    BY <1>4, <1>6
  <2>3. Cardinality({t[2]}) <= Cardinality(Left(e)) - 1 /\ Cardinality({t[2]}) \in Nat
    BY <2>1, <2>2, LeftFacts
  <2>4. Cardinality({t[2]}) = 1
    BY FS_Singleton
  <2> QED BY <1>2, <2>1, <2>3, <2>4
<1> QED BY <1>3, <1>6 DEF t

\* What is read stays pending.
LEMMA OwedStep ==
  ASSUME Types, Listing, Speculation, AdoptsCleanly, [Next]_vars
  PROVE  OwedInv'
<1>0. TypeOK
  BY DEF Types
<1>1. CASE \E k \in 0..Len(cand) : Prefetch(k)
  <2>1. PICK k \in 0..Len(cand) : Prefetch(k)
    BY <1>1
  <2>2. SpecSlices' = SpecSlices \union Slices(ToSet(Queued(k))) /\ Pending' = Pending \union ToSet(Queued(k))
    BY <1>0, <2>1, PrefetchFacts DEF Listing
  <2> QED BY <2>2 DEF OwedInv, Speculation, Slices
<1>2. CASE ~ \E k \in 0..Len(cand) : Prefetch(k)
  <2>1. ASSUME NEW s \in SpecSlices' PROVE s \in Slices(Pending')
    <3>1. s \in SpecSlices
      BY <1>2, SlicesMove
    <3>2. s \in Slices(Pending)
      BY <3>1 DEF Speculation, OwedInv
    <3>3. s \in Slice /\ s[1] \in Entry /\ spec_remaining[s[1]] # 0 /\ s[1] \in Pending
      BY <3>2 DEF Slices, Pending, Slice
    <3>4. spec_remaining[s[1]] \in Nat
      BY <1>0, <3>3 DEF TypeOK
    <3>5. CASE spec_remaining'[s[1]] = spec_remaining[s[1]]
      BY <3>2, <3>3, <3>5 DEF Slices, Pending
    <3>6. ASSUME NEW n \in Lane, SpecRead(n), lane[n].slice[1] = s[1],
                 spec_remaining'[s[1]] = spec_remaining[s[1]] - 1
          PROVE  spec_remaining'[s[1]] # 0
      <4>1. CASE spec_remaining[s[1]] = 1
        <5>1. pc # "off"
          BY <3>6 DEF Speculation, OwingInv, InFlight, SpecRead
        <5>2. s = lane[n].slice
          BY <3>1, <3>3, <3>6, <4>1, <5>1, LastOne
        <5>3. s \notin SpecSlices'
          BY <5>2, <3>6, <1>0, ReadingFacts DEF Speculation
        <5> QED BY <5>3, <2>1
      <4>2. CASE spec_remaining[s[1]] # 1
        BY <4>2, <3>6, <3>4
      <4> QED BY <4>1, <4>2
    <3>7. ~ (Adopt /\ \E n \in Lane : SpecReadFails(n))
      BY DEF SpecReadFails, AdoptsCleanly
    <3>8. ~ Finishing
      BY <3>1, NothingLeft
    <3>9. spec_remaining'[s[1]] # 0
      BY <1>0, <1>2, <3>3, <3>5, <3>6, <3>7, <3>8, CountMoves
    <3> QED BY <3>2, <3>3, <3>9 DEF Slices, Pending
  <2> QED BY <2>1 DEF OwedInv
<1> QED BY <1>1, <1>2

\* A load stages nothing that is speculated for.
LEMMA RoutedApart ==
  ASSUME Types, Listing, pc = "stage"
  PROVE  Routed \intersect (Pending \union ToSet(spec_done)) = {}
<1>1. CASE Adopt
  <2>1. \A e \in Pending \union ToSet(spec_done) : il < e[1]
    BY <1>1 DEF Listing, RangeInv
  <2>2. \A e \in Routed : e[1] = il
    BY DEF Routed
  <2>3. ~ (il < il)
    BY DEF Types, TypeOK, Layer
  <2> QED BY <2>1, <2>2, <2>3
<1>2. CASE ~Adopt
  BY <1>2, ToSetFacts DEF Listing, QuietInv, Settled
<1> QED BY <1>1, <1>2

\* What is pending or complete stays out of the cache.
LEMMA ApartStep ==
  ASSUME Types, Listing, Speculation, [Next]_vars
  PROVE  ApartInv'
<1>0. TypeOK /\ lru \in Seq(Entry) /\ spec_done \in Seq(Entry) /\ ToSet(<<>>) = {}
  BY ToSetFacts DEF Types, TypeOK
<1>1. (Pending \union ToSet(spec_done)) \intersect valid = {}
  BY DEF Speculation, ApartInv
<1>2. CASE \E k \in 0..Len(cand) : Prefetch(k)
  <2>1. PICK k \in 0..Len(cand) : Prefetch(k)
    BY <1>2
  <2>2. ToSet(Queued(k)) \intersect valid = {} /\ Pending' = Pending \union ToSet(Queued(k))
    BY <1>0, <2>1, PrefetchFacts DEF Listing
  <2>3. valid' = valid /\ spec_done' = spec_done
    BY <2>1 DEF Prefetch, cache
  <2>4. ToSet(spec_done') = ToSet(spec_done)
    BY <2>3
  <2> QED BY <1>1, <2>2, <2>3, <2>4 DEF ApartInv
<1>3. CASE ~ \E k \in 0..Len(cand) : Prefetch(k)
  <2>1. Pending' \subseteq Pending /\ Pending' \union ToSet(spec_done') \subseteq Pending \union ToSet(spec_done)
    BY <1>0, <1>3, SpeculationKept
  <2>2. CASE valid' \subseteq valid
    BY <2>1, <2>2, <1>1 DEF ApartInv
  <2>3. CASE Integrate
    <3>1. ToSet(Eligible) = ToSet(spec_done) \intersect (Entry \ (valid \union Pending))
      BY <1>0, KeptFacts DEF Eligible
    <3>2. valid' = valid \union ToSet(Eligible) /\ spec_done' = <<>>
      BY <2>3 DEF Integrate
    <3>3. ToSet(spec_done') = {}
      BY <3>2, <1>0
    <3> QED BY <3>1, <3>2, <3>3, <2>1, <1>1 DEF ApartInv
  <2>4. CASE pc = "stage" /\ valid' \subseteq valid \union Routed
    BY <2>1, <2>4, <1>1, RoutedApart DEF ApartInv
  <2>5. CASE Stage \/ \E k \in DOMAIN Visited, n \in Proj : StageFails(k, n)
    <3>1. pc = "stage" /\ ToSet(Visited) = Routed /\ Visited \in Seq(Entry)
      BY <1>0, <2>5, VisitedFacts DEF Stage, StageFails
    <3>2. CASE Stage
      BY <3>1, <3>2, <2>4 DEF Stage, TouchEntries
    <3>3. ASSUME NEW k \in DOMAIN Visited, NEW n \in Proj, StageFails(k, n)
          PROVE  valid' \subseteq valid \union Routed
      <4> DEFINE es == SubSeq(Visited, 1, k - 1)
      <4>1. Len(Visited) \in Nat /\ k \in 1..Len(Visited)
        BY <3>1
      <4>2. k - 1 \in 0..Len(Visited)
        BY <4>1
      <4>3. ToSet(es) \subseteq ToSet(Visited)
        <5> DEFINE rest == SubSeq(Visited, k - 1 + 1, Len(Visited))
        <5>1. es \in Seq(Entry) /\ rest \in Seq(Entry) /\ Visited = es \o rest
          BY <3>1, <4>2, CutFacts
        <5> HIDE DEF es, rest
        <5>2. ToSet(es \o rest) = ToSet(es) \union ToSet(rest)
          BY <5>1, ConcatFacts
        <5> QED BY <5>1, <5>2
      <4>4. valid' = valid \union ToSet(es)
        BY <3>3, Zenon DEF StageFails, TouchEntries
      <4> QED BY <4>3, <4>4, <3>1
    <3> QED BY <2>4, <2>5, <3>1, <3>2, <3>3
  <2>6. CASE Evict \/ \E b \in Budgets : ShrinkTo(b)
    <3>1. PICK k \in 0..Len(lru) : k <= resident /\ EvictTails(k)
      BY <1>0, <2>6, EvictsWithin DEF Evict
    <3>2. valid' \subseteq valid
      BY <3>1 DEF EvictTails
    <3> QED BY <3>2, <2>2
  <2> QED BY <2>2, <2>3, <2>5, <2>6, CacheFrame DEF AdoptEnd, StageSecondWave, IssueSettle, FinishQuiesce, Issue
<1> QED BY <1>2, <1>3

\* A page somebody speculated into stays as it is, until the speculation is released.
LEMMA SpeculatedKept ==
  ASSUME Types, Listing, Speculation, [Next]_vars, pc' # "off", NEW s \in Slice,
         s[1] \in (Pending \intersect Pending') \union (ToSet(spec_done) \intersect ToSet(spec_done'))
  PROVE  (s \in filled => s \in filled') /\ (s \in committed => s \in committed')
<1>0. TypeOK /\ s[1] \in Entry /\ ToSet(<<>>) = {}
  BY ToSetFacts DEF Types, Slice
<1>1. s[1] \notin valid
  BY DEF Speculation, ApartInv
<1>2. ASSUME Finishing PROVE s[1] \notin Released \ ToSet(spec_done)
  <2>1. spec_done' = <<>> /\ Pending \subseteq spec_touched
    BY <1>2 DEF Finishing, FinishQuiesce, Integrate, Listing, QuietInv
  <2>2. \A e \in spec_touched : e \in Entry => spec_remaining'[e] = 0
    BY <1>2 DEF Finishing, FinishQuiesce
  <2>3. s[1] \notin Pending'
    BY <2>1, <2>2, <1>0 DEF Pending
  <2>4. ToSet(spec_done') = {}
    BY <2>1, <1>0
  <2> QED BY <2>3, <2>4
<1> QED BY <1>1, <1>2, PagesKept DEF Listing

\* No page of a pending entry is lost, and its count covers what is left to read.
LEMMA OwingStep ==
  ASSUME Types, Listing, Speculation, AdoptsCleanly, [Next]_vars
  PROVE  OwingInv'
<1>0. /\ TypeOK /\ spec_done \in Seq(Entry) /\ spec_remaining \in [Entry -> 0..Projs] /\ Projs \in Nat
  BY StreamAssumption DEF Types, TypeOK
<1>a. pc' # "off" => pc # "off"
  BY OffPlaces
<1>b. ASSUME NEW k \in 0..Len(cand), Prefetch(k)
      PROVE  /\ ToSet(Queued(k)) \subseteq Entry /\ Pending' = Pending \union ToSet(Queued(k))
             /\ SpecSlices' = SpecSlices \union Slices(ToSet(Queued(k)))
             /\ committed' = (committed \ Slices(NotCommitted(k))) \union Slices(ToSet(Queued(k)))
             /\ filled' = filled \ Slices(NotCommitted(k)) /\ NotCommitted(k) \intersect Pending = {}
             /\ \A e \in Entry : spec_remaining'[e] = IF e \in ToSet(Queued(k)) THEN Projs ELSE spec_remaining[e]
  <2>1. Queued(k) \in Seq(Entry) /\ Pending' = Pending \union ToSet(Queued(k))
        /\ SpecSlices' = SpecSlices \union Slices(ToSet(Queued(k)))
    BY <1>0, <1>b, PrefetchFacts DEF Listing
  <2>2. ToSet(Queued(k)) \subseteq Entry
    BY <2>1, ToSetFacts
  <2>3. /\ committed' = (committed \ Slices(NotCommitted(k))) \union Slices(ToSet(Queued(k)))
        /\ filled' = filled \ Slices(NotCommitted(k))
    BY <1>b DEF Prefetch
  <2>6. NotCommitted(k) \intersect Pending = {}
    BY <1>b, ReleasedApart
  <2>4. spec_remaining' = [e \in Entry |-> IF e \in ToSet(Queued(k)) THEN Projs ELSE spec_remaining[e]]
    BY <1>b DEF Prefetch
  <2>5. \A e \in Entry : spec_remaining'[e] = IF e \in ToSet(Queued(k)) THEN Projs ELSE spec_remaining[e]
    BY <2>4
  <2> QED BY <2>1, <2>2, <2>3, <2>5, <2>6
<1>c. ASSUME pc' # "off" PROVE \A e \in Pending : Cardinality(Left(e)) <= spec_remaining[e]
  BY <1>a, <1>c DEF Speculation, OwingInv
<1>1. ASSUME pc' # "off", NEW e \in Pending' PROVE Cardinality(Left(e)') <= spec_remaining'[e]
  <2>0. e \in Entry /\ Left(e)' \in SUBSET Proj /\ Left(e) \in SUBSET Proj
    BY <1>1 DEF Pending, Left
  <2>1. ASSUME NEW k \in 0..Len(cand), Prefetch(k), e \in ToSet(Queued(k))
        PROVE  Cardinality(Left(e)') <= spec_remaining'[e]
    <3>1. spec_remaining'[e] = Projs
      BY <1>b, <2>0, <2>1
    <3> QED BY <3>1, <2>0, LeftFacts
  <2>2. ASSUME NEW k \in 0..Len(cand), Prefetch(k), e \notin ToSet(Queued(k))
        PROVE  Cardinality(Left(e)') <= spec_remaining'[e]
    <3>1. spec_remaining'[e] = spec_remaining[e] /\ e \in Pending
      BY <1>1, <1>b, <2>0, <2>2
    <3>2. Left(e)' = Left(e)
      BY <1>b, <2>2 DEF Left, Slices
    <3> QED BY <3>1, <3>2, <1>1, <1>c
  <2>3. ASSUME ~ \E k \in 0..Len(cand) : Prefetch(k)
        PROVE  Cardinality(Left(e)') <= spec_remaining'[e]
    <3>1. e \in Pending /\ spec_remaining[e] # 0
      BY <1>0, <1>1, <2>3, SpeculationKept DEF Pending
    <3>2. Cardinality(Left(e)) <= spec_remaining[e] /\ spec_remaining[e] \in Nat
      BY <1>0, <1>1, <1>c, <2>0, <3>1
    <3>3. Left(e)' \subseteq Left(e)
      <4>1. ASSUME NEW p \in Left(e)' PROVE p \in Left(e)
        <5>1. p \in Proj /\ (<<e, p>> \notin filled' \/ <<e, p>> \in SpecSlices')
          BY <4>1 DEF Left
        <5>2. <<e, p>> \in Slice
          BY <2>0, <5>1 DEF Slice
        <5>3. <<e, p>> \notin filled' => <<e, p>> \notin filled
          BY <1>1, <3>1, <5>2, SpeculatedKept
        <5>4. <<e, p>> \in SpecSlices' => <<e, p>> \in SpecSlices
          BY <2>3, SlicesMove
        <5> QED BY <5>1, <5>3, <5>4 DEF Left
      <4> QED BY <4>1
    <3>4. /\ IsFiniteSet(Left(e)) /\ Cardinality(Left(e)') <= Cardinality(Left(e)) /\ Cardinality(Left(e)') \in Nat
          /\ Cardinality(Left(e)) \in Nat
          /\ \A p \in Left(e) \ Left(e)' : Cardinality(Left(e)') <= Cardinality(Left(e)) - 1
      BY <2>0, <3>3, LeftFacts
    <3>5. CASE spec_remaining'[e] = spec_remaining[e]
      BY <3>2, <3>4, <3>5
    <3>6. ASSUME NEW n \in Lane, SpecRead(n), lane[n].slice[1] = e, spec_remaining'[e] = spec_remaining[e] - 1
          PROVE  Cardinality(Left(e)') <= spec_remaining'[e]
      <4> DEFINE t == lane[n].slice
      <4>1. t \in Slice /\ t \in SpecSlices /\ SpecSlices' \subseteq SpecSlices \ {t} /\ t \in filled'
        BY <1>0, <3>6, ReadingFacts DEF Speculation
      <4>2. t[2] \in Proj /\ t = <<e, t[2]>>
        BY <4>1, <3>6 DEF Slice
      <4> HIDE DEF t
      <4>3. t[2] \in Left(e) /\ t[2] \notin Left(e)'
        BY <4>1, <4>2 DEF Left
      <4>4. Cardinality(Left(e)') <= Cardinality(Left(e)) - 1
        BY <3>4, <4>3
      <4> QED BY <3>2, <3>4, <3>6, <4>4
    <3>7. ~ (Adopt /\ \E n \in Lane : SpecReadFails(n))
      BY DEF SpecReadFails, AdoptsCleanly
    <3>8. ~ (Finishing /\ (spec_remaining'[e] = 0 \/ e \notin spec_touched))
      BY <1>1, <3>1 DEF Pending, Finishing, FinishQuiesce, Listing, QuietInv
    <3> QED BY <1>0, <2>0, <2>3, <3>5, <3>6, <3>7, <3>8, CountMoves
  <2> QED BY <2>1, <2>2, <2>3
<1>2. ASSUME pc' # "off" PROVE Slices(Pending') \subseteq committed'
  <2>1. Slices(Pending) \subseteq committed
    BY <1>a, <1>2 DEF Speculation, OwingInv
  <2>2. CASE \E k \in 0..Len(cand) : Prefetch(k)
    BY <2>1, <2>2, <1>b DEF Slices
  <2>3. CASE ~ \E k \in 0..Len(cand) : Prefetch(k)
    <3>1. ASSUME NEW s \in Slices(Pending') PROVE s \in committed'
      <4>1. s[1] \in Pending' /\ s[1] \in Pending /\ s \in Slices(Pending)
        BY <1>0, <2>3, <3>1, SpeculationKept DEF Slices
      <4>2. s \in Slice
        BY <4>1 DEF Slices, Pending, Slice
      <4> QED BY <1>2, <2>1, <4>1, <4>2, SpeculatedKept
    <3> QED BY <3>1
  <2> QED BY <2>2, <2>3
<1>3. Slices(ToSet(spec_done')) \subseteq filled' \intersect committed'
  <2>0. spec_done' \in Seq(Entry) /\ ToSet(<<>>) = {}
    BY <1>0, QueueTypes, ToSetFacts
  <2>1. CASE pc' = "off"
    <3>1. ToSet(spec_done') = {}
      BY <2>1, <2>0, OffStep
    <3> QED BY <3>1 DEF Slices
  <2>2. ASSUME pc' # "off", NEW s \in Slices(ToSet(spec_done')) PROVE s \in filled' \intersect committed'
    <3>1. s[1] \in ToSet(spec_done') /\ s[1] \in Entry /\ s \in Slice /\ s = <<s[1], s[2]>>
      BY <2>0, <2>2, ToSetFacts DEF Slices, Slice
    <3>2. CASE s[1] \in ToSet(spec_done)
      <4>1. s \in filled \intersect committed
        BY <3>1, <3>2 DEF Slices, Slice, Speculation, OwingInv
      <4> QED BY <2>2, <3>1, <3>2, <4>1, SpeculatedKept
    <3>3. ASSUME NEW n \in Lane, SpecRead(n), lane[n].slice[1] = s[1], spec_remaining[s[1]] = 1
          PROVE  s \in filled' \intersect committed'
      <4>1. s[1] \in Pending
        BY <3>1, <3>3 DEF Pending
      <4>2. filled' = filled \union {lane[n].slice} /\ committed' = committed
        BY <1>0, <3>3, ReadingFacts DEF Speculation
      <4>3. s \in committed
        BY <1>a, <2>2, <3>1, <4>1 DEF Speculation, OwingInv, Slices, Slice
      <4>4. s \notin filled => s = lane[n].slice
        BY <1>a, <2>2, <3>1, <3>3, <4>1, LastOne
      <4> QED BY <4>2, <4>3, <4>4
    <3> QED BY <1>0, <3>1, <3>2, <3>3, CountMoves
  <2> QED BY <2>1, <2>2
<1>4. pc' = "off" => InFlight' = {} /\ spec_done' = <<>>
  BY OffStep
<1> QED BY <1>1, <1>2, <1>3, <1>4 DEF OwingInv

\* The third layer of the invariant is inductive.
LEMMA SpeculationInduction ==
  /\ Init => Speculation
  /\ Types /\ Listing /\ Speculation /\ AdoptsCleanly /\ [Next]_vars => Speculation'
<1>1. ASSUME Init PROVE Speculation
  <2>0. /\ pc = "route" /\ spec_done = <<>> /\ spec_jobs = <<>> /\ valid = {}
        /\ lane = [n \in Lane |-> Nobody] /\ Pending = {}
    BY <1>1 DEF Init, Pending
  <2>1. ToSet(<<>>) = {} /\ IsInjective(<<>>)
    BY ToSetFacts
  <2>2. Nobody.doing # "spec"
    BY LaneRecords, Zenon
  <2>3. InFlight = {}
    BY <2>0, <2>2 DEF InFlight
  <2>4. LaneSlices("spec") = {}
    BY <2>3 DEF LaneSlices, InFlight
  <2>5. SpecSlices = {}
    BY <2>0, <2>1, <2>4 DEF SpecSlices
  <2>6. Slices({}) = {}
    BY DEF Slices
  <2> QED BY <2>0, <2>1, <2>3, <2>5, <2>6 DEF Speculation, OnceInv, OwedInv, ApartInv, OwingInv
<1>2. ASSUME Types, Listing, Speculation, AdoptsCleanly, [Next]_vars PROVE Speculation'
  <2>1. OnceInv'
    BY <1>2, OnceStep DEF Listing, Speculation
  <2>2. OwedInv' /\ ApartInv' /\ OwingInv'
    BY <1>2, OwedStep, ApartStep, OwingStep
  <2> QED BY <2>1, <2>2 DEF Speculation
<1> QED BY <1>1, <1>2

\* The three layers together.
LEMMA CoreInduction ==
  ASSUME AdoptsCleanly
  PROVE  /\ Init => Types /\ Listing /\ Speculation
         /\ (Types /\ Listing /\ Speculation) /\ [Next]_vars => (Types /\ Listing /\ Speculation)'
<1>1. CancelOk
  BY DEF AdoptsCleanly, CancelOk
<1> QED BY <1>1, TypesInduction, ListingInduction, SpeculationInduction

\* A speculation that was counted complete is: every slice of it was read, and none of its pages was
\* given back (CountDown in drain_spec, quiesce_spec, adopt_layer).
THEOREM Done == ASSUME AdoptsCleanly PROVE Spec => []DoneHasBytes
<1>1. Types /\ Listing /\ Speculation => DoneHasBytes
  BY DEF Speculation, OwingInv, DoneHasBytes, Slices
<1> QED BY <1>1, CoreInduction, PTL DEF Spec

(***************************************************************************)
(* Fourth layer, Batch: a page of the current layer is queued, read or     *)
(* landed at most once, and for a routed expert.                           *)
(***************************************************************************)

\* Once nobody waits any more, nobody ever waits.
LEMMA FatalStays ==
  ASSUME TypeOK, [Next]_vars, fatal
  PROVE  fatal'
BY FatalFrame DEF Stage, SecondFails, SecondWaveFails, Shutdown, BatchReadFails, ReadError, StageFails, TypeOK

\* How a load gets past its staging.
LEMMA AfterFrom ==
  ASSUME Types, [Next]_vars, pc' \in After
  PROVE  /\ UNCHANGED <<il, ids, overlap>>
         /\ \/ Stage
            \/ \E k \in DOMAIN Visited, n \in Proj : StageFails(k, n)
            \/ pc \in After /\ (pc' = "wave2" => pc = "wave2")
<1>0. pc \in Places
  BY DEF Types, TypeOK
<1>1. CASE \E n \in Lane : LaneStep(n)
  BY <1>1 DEF LaneStep, BatchPull, BatchRead, BatchReadFails, BatchCount, SpecPull, SpecRead,
     SpecReadFails, WorkerExit, where
<1>2. CASE Quiesce
  BY <1>2 DEF Quiesce, CancelSpec, FinishQuiesce, AdoptBegin, AdoptPull, AdoptEnd, where, After
<1>3. CASE Load
  BY <1>3 DEF Load, Stage, StageFails, StageSecondWave, SecondWaveFails, InlineRead, InlineReadFails,
     DrainEnd, Evict, After
<1>4. CASE Speculate
  BY <1>4 DEF Speculate, IssueSettle, Issue, NoIssue, Prefetch, where, After
<1>5. CASE Shrink
  BY <1>5 DEF Shrink, CancelSpec, FinishQuiesce, ShrinkTo, After
<1>6. CASE Matmul \/ OverlapOffJoin \/ Release
  BY <1>6 DEF Matmul, OverlapOffJoin, Release, After
<1>7. CASE Start
  BY <1>7 DEF Start, BeginLoad, Cancel, ShrinkBegin, Grow, OverlapOn, OverlapOff, Shutdown, Ended,
     BetweenDecodes, vars, where, After
<1>8. CASE UNCHANGED vars
  BY <1>8 DEF vars, where
<1> QED BY <1>1, <1>2, <1>3, <1>4, <1>5, <1>6, <1>7, <1>8 DEF Next, Continue

\* The lanes that read for the batch.
BatchLanes == {n \in Lane : lane[n].doing = "batch"}

\* A lane takes the head of the batch.
TakesJob(n) ==
    /\ lane[n] = Nobody /\ jobs # <<>>
    /\ lane' = [lane EXCEPT ![n] = Reading(Head(jobs))]
    /\ jobs' = Tail(jobs)

\* Nothing is read for the batch, or queued, that was not before.
BatchShrinks ==
    /\ \A n \in Lane : lane'[n].doing = "batch" => lane[n].doing = "batch" /\ lane'[n].slice = lane[n].slice
    /\ ToSet(jobs') \subseteq ToSet(jobs)
    /\ IsInjective(jobs) => IsInjective(jobs')

\* What a step makes of the batch.
LEMMA BatchMoves ==
  ASSUME Types, [Next]_vars
  PROVE  \/ (Stage \/ StageSecondWave) /\ lane' = lane
         \/ \E n \in Lane : TakesJob(n)
         \/ BatchShrinks
<1>0. TypeOK /\ jobs \in Seq(Slice) /\ ToSet(<<>>) = {} /\ IsInjective(<<>>)
  BY ToSetFacts DEF Types, TypeOK
<1>1. CASE Stage \/ StageSecondWave
  BY <1>1 DEF Stage, StageSecondWave, threads
<1>2. CASE \E n \in Lane : BatchPull(n)
  BY <1>2 DEF BatchPull, TakesJob
<1>3. CASE ~ Stage /\ ~ StageSecondWave /\ ~ \E n \in Lane : BatchPull(n)
  <2>1. ASSUME NEW n \in Lane, lane'[n].doing = "batch"
        PROVE  lane[n].doing = "batch" /\ lane'[n].slice = lane[n].slice
    <3>1. /\ Nobody.doing # "batch" /\ Landed.doing # "batch" /\ Gone.doing # "batch"
          /\ Speculating(Head(spec_jobs), TRUE).doing # "batch"
          /\ Speculating(lane[n].slice, FALSE).doing # "batch"
      <4>1. \A s, own : Speculating(s, own).doing = "spec"
        BY LaneRecords
      <4>2. Speculating(Head(spec_jobs), TRUE).doing = "spec" /\ Speculating(lane[n].slice, FALSE).doing = "spec"
        BY <4>1, Zenon
      <4> QED BY <4>2, LaneRecords
    <3> DEFINE y == lane'[n]
    <3>2. y # Nobody /\ y # Landed /\ y # Gone /\ y # Speculating(Head(spec_jobs), TRUE)
          /\ y # Speculating(lane[n].slice, FALSE)
      BY <3>1, <2>1, Zenon
    <3>3. y = lane[n]
      BY <3>2, <1>0, <1>3, LaneMoves
    <3> QED BY <3>3, <2>1
  <2>2. ToSet(jobs') \subseteq ToSet(jobs) /\ (IsInjective(jobs) => IsInjective(jobs'))
    <3>1. CASE jobs' \in {jobs, <<>>}
      BY <3>1, <1>0
    <3>2. CASE InlineRead /\ jobs # <<>>
      <4>1. jobs' = Tail(jobs)
        BY <3>2 DEF InlineRead
      <4>2. ToSet(Tail(jobs)) \subseteq ToSet(jobs) /\ (IsInjective(jobs) => IsInjective(Tail(jobs)))
        BY <3>2, <1>0, HeadTailFacts
      <4> QED BY <4>1, <4>2
    <3> QED BY <1>3, <3>1, <3>2, JobsFrame DEF InlineRead, InlineReadFails, Release
  <2> QED BY <2>1, <2>2 DEF BatchShrinks
<1> QED BY <1>1, <1>2, <1>3

\* What taking a job does.
LEMMA JobFacts ==
  ASSUME TypeOK, NEW n \in Lane, TakesJob(n)
  PROVE  /\ BatchLanes' = BatchLanes \union {n} /\ n \notin BatchLanes
         /\ lane'[n].slice = Head(jobs) /\ \A m \in Lane \ {n} : lane'[m] = lane[m]
         /\ ToSet(jobs) = {Head(jobs)} \union ToSet(jobs')
         /\ IsInjective(jobs) => IsInjective(jobs') /\ Head(jobs) \notin ToSet(jobs')
         /\ BatchSlices' = BatchSlices
<1>0. jobs \in Seq(Slice) /\ lane \in [Lane -> Doings] /\ jobs # <<>>
  BY DEF TypeOK, TakesJob
<1>1. lane'[n] = Reading(Head(jobs)) /\ \A m \in Lane \ {n} : lane'[m] = lane[m]
  BY <1>0 DEF TakesJob
<1>2. Reading(Head(jobs)).doing = "batch" /\ Reading(Head(jobs)).slice = Head(jobs) /\ Nobody.doing # "batch"
  BY LaneRecords, Zenon
<1>3. lane'[n].doing = "batch" /\ lane'[n].slice = Head(jobs) /\ lane[n].doing # "batch"
  BY <1>1, <1>2 DEF TakesJob
<1>4. BatchLanes' = BatchLanes \union {n} /\ n \notin BatchLanes
  BY <1>1, <1>3 DEF BatchLanes
<1>5. /\ ToSet(jobs) = {Head(jobs)} \union ToSet(Tail(jobs))
      /\ IsInjective(jobs) => IsInjective(Tail(jobs)) /\ Head(jobs) \notin ToSet(Tail(jobs))
  BY <1>0, HeadTailFacts
<1>6. jobs' = Tail(jobs)
  BY DEF TakesJob
<1>7. LaneSlices("batch")' = LaneSlices("batch") \union {Head(jobs)}
  <2>1. LaneSlices("batch") = {lane[m].slice : m \in BatchLanes}
    BY DEF LaneSlices, BatchLanes
  <2>2. LaneSlices("batch")' = {lane'[m].slice : m \in BatchLanes'}
    BY DEF LaneSlices, BatchLanes
  <2>3. \A m \in BatchLanes : lane'[m].slice = lane[m].slice
    BY <1>1, <1>4 DEF BatchLanes
  <2> QED BY <1>3, <1>4, <2>1, <2>2, <2>3
<1> QED BY <1>1, <1>3, <1>4, <1>5, <1>6, <1>7 DEF BatchSlices

\* What ending some reads of the batch does.
LEMMA BatchShrinkFacts ==
  ASSUME BatchShrinks
  PROVE  BatchLanes' \subseteq BatchLanes /\ BatchSlices' \subseteq BatchSlices
         /\ \A n \in BatchLanes' : lane'[n].slice = lane[n].slice
<1>1. BatchLanes' \subseteq BatchLanes /\ \A n \in BatchLanes' : lane'[n].slice = lane[n].slice
  BY DEF BatchShrinks, BatchLanes
<1>2. LaneSlices("batch")' \subseteq LaneSlices("batch")
  BY DEF BatchShrinks, LaneSlices
<1> QED BY <1>1, <1>2 DEF BatchSlices, BatchShrinks

\* A batch counted down to zero is over.
LEMMA NothingCounted ==
  ASSUME Types, undone = 0, pc # "inline"
  PROVE  jobs = <<>> /\ BatchLanes = {} /\ BatchSlices = {} /\ Busy = {}
<1>0. jobs \in Seq(Slice) /\ Len(jobs) \in Nat
  BY DEF Types, TypeOK
<1>1. Cardinality(Busy) \in Nat /\ undone = Len(jobs) + Cardinality(Busy)
  BY BusyFacts DEF Types, UndoneInv
<1>2. Cardinality(Busy) = 0 /\ Len(jobs) = 0
  BY <1>0, <1>1
<1>3. \A n \in Lane : lane[n].doing \notin {"batch", "landed"}
  BY <1>2, BusyFacts DEF Types
<1>4. jobs = <<>> /\ ToSet(<<>>) = {}
  BY <1>0, <1>2, ToSetFacts
<1>5. LaneSlices("batch") = {}
  BY <1>3 DEF LaneSlices
<1> QED BY <1>3, <1>4, <1>5 DEF BatchSlices, BatchLanes, Busy

\* A load is staged when the last batch is over.
LEMMA NothingLoading ==
  ASSUME Types, pc \in {"quiesce", "cancelled", "adopting", "stage", "joining"}
  PROVE  jobs = <<>> /\ BatchLanes = {} /\ BatchSlices = {} /\ Busy = {}
<1>1. undone = 0
  BY DEF Types, UndoneInv
<1> QED BY <1>1, NothingCounted

\* The projections in order, and those after the first.
LEMMA ProjSeqs ==
  /\ <<0>> \in Seq(Proj) /\ ToSet(<<0>>) = {0} /\ IsInjective(<<0>>)
  /\ AllProjs \in Seq(Proj) /\ ToSet(AllProjs) = Proj /\ IsInjective(AllProjs)
  /\ LaterProjs \in Seq(Proj) /\ ToSet(LaterProjs) = Proj \ {0} /\ IsInjective(LaterProjs)
<1>0. Projs \in Nat \ {0} /\ 0 \in Proj /\ Projs - 1 \in Nat
  BY StreamAssumption DEF Proj
<1>1. /\ AllProjs \in [1..Projs -> Proj] /\ \A p \in 1..Projs : AllProjs[p] = p - 1
      /\ LaterProjs \in [1..(Projs - 1) -> Proj] /\ \A p \in 1..(Projs - 1) : LaterProjs[p] = p
  BY <1>0 DEF AllProjs, LaterProjs, Proj
<1>2. AllProjs \in Seq(Proj) /\ Len(AllProjs) = Projs /\ LaterProjs \in Seq(Proj) /\ Len(LaterProjs) = Projs - 1
  BY <1>0, <1>1, FunctionIsSeq
<1>3. <<0>> \in Seq(Proj) /\ Len(<<0>>) = 1 /\ <<0>>[1] = 0
  BY <1>0
<1>4. /\ ToSet(AllProjs) = {AllProjs[p] : p \in 1..Projs}
      /\ IsInjective(AllProjs) <=> \A p, q \in 1..Projs : AllProjs[p] = AllProjs[q] => p = q
  BY <1>2, ToSetFacts
<1>5. /\ ToSet(LaterProjs) = {LaterProjs[p] : p \in 1..(Projs - 1)}
      /\ IsInjective(LaterProjs) <=> \A p, q \in 1..(Projs - 1) : LaterProjs[p] = LaterProjs[q] => p = q
  <2> DEFINE z == LaterProjs
  <2>1. z \in Seq(Proj) /\ Len(z) = Projs - 1
    BY <1>2
  <2> HIDE DEF z
  <2>2. ToSet(z) = {z[p] : p \in 1..Len(z)}
        /\ (IsInjective(z) <=> \A p, q \in 1..Len(z) : z[p] = z[q] => p = q)
    BY <2>1, ToSetFacts
  <2> QED BY <2>1, <2>2 DEF z
<1>6. ToSet(<<0>>) = {0} /\ IsInjective(<<0>>)
  <2> DEFINE z == <<0>>
  <2>1. z \in Seq(Proj) /\ Len(z) = 1 /\ z[1] = 0
    BY <1>3
  <2> HIDE DEF z
  <2>2. ToSet(z) = {z[i] : i \in 1..Len(z)} /\ (IsInjective(z) <=> \A i, j \in 1..Len(z) : z[i] = z[j] => i = j)
    BY <2>1, ToSetFacts
  <2>3. ToSet(z) = {0} /\ IsInjective(z)
    BY <2>1, <2>2
  <2> QED BY <2>3 DEF z
<1>7. ToSet(AllProjs) = Proj
  <2>1. \A p \in Proj : p + 1 \in 1..Projs /\ (p + 1) - 1 = p
    BY <1>0 DEF Proj
  <2>2. \A p \in 1..Projs : p - 1 \in Proj
    BY <1>0 DEF Proj
  <2> QED BY <1>1, <1>4, <2>1, <2>2
<1>8. ToSet(LaterProjs) = Proj \ {0}
  <2>1. \A p : p \in 1..(Projs - 1) <=> p \in Proj \ {0}
    BY <1>0 DEF Proj
  <2> QED BY <1>1, <1>5, <2>1
<1>9. IsInjective(AllProjs) /\ IsInjective(LaterProjs)
  <2>1. \A p, q \in 1..Projs : p - 1 = q - 1 => p = q
    BY <1>0
  <2> QED BY <1>1, <1>4, <1>5, <2>1
<1> QED BY <1>2, <1>3, <1>6, <1>7, <1>8, <1>9

\* The batch of a load: the first wave of its misses, each slice once.
LEMMA StagedJobs ==
  ASSUME TypeOK, Stage
  PROVE  IsInjective(jobs') /\ ToSet(jobs') = (Routed \ valid) \X FirstWave
<1> DEFINE missed == Misses(Visited)
<1>0. Visited \in Seq(Entry) /\ ToSet(Visited) = Routed /\ TwoWave \in BOOLEAN /\ overlap \in BOOLEAN
  BY VisitedFacts, StreamAssumption DEF TypeOK
<1>1. missed \in Seq(Entry) /\ ToSet(missed) = Routed \ valid /\ IsInjective(missed)
  BY <1>0, MissesFacts
<1>2. jobs' = IF ~overlap THEN EntryMajor(missed)
              ELSE IF TwoWave THEN ProjMajor(missed, <<0>>) ELSE ProjMajor(missed, AllProjs)
  BY DEF Stage
<1> HIDE DEF missed
<1>3. /\ IsInjective(EntryMajor(missed)) /\ ToSet(EntryMajor(missed)) = (Routed \ valid) \X Proj
  BY <1>1, EntryMajorFacts DEF Slices
<1>4. /\ IsInjective(ProjMajor(missed, <<0>>)) /\ ToSet(ProjMajor(missed, <<0>>)) = (Routed \ valid) \X {0}
      /\ IsInjective(ProjMajor(missed, AllProjs)) /\ ToSet(ProjMajor(missed, AllProjs)) = (Routed \ valid) \X Proj
  BY <1>1, ProjSeqs, ProjMajorFacts, Zenon
<1> QED BY <1>0, <1>2, <1>3, <1>4 DEF FirstWave

\* What the second wave appends: the later projections of what the first one left.
LEMMA SecondJobs ==
  ASSUME TypeOK, StageSecondWave, overlap
  PROVE  /\ ProjMajor(SecondWave, LaterProjs) \in Seq(Slice) /\ IsInjective(ProjMajor(SecondWave, LaterProjs))
         /\ ToSet(ProjMajor(SecondWave, LaterProjs)) = {e \in Routed : <<e[2], 1>> \notin ready} \X (Proj \ {0})
         /\ jobs' = jobs \o ProjMajor(SecondWave, LaterProjs)
<1>1. SecondWave \in Seq(Entry) /\ ToSet(SecondWave) = {e \in Routed : <<e[2], 1>> \notin ready}
  BY MadeOfEntries
<1>2. IsInjective(SecondWave)
  BY VisitedFacts, KeptFacts DEF SecondWave
<1>3. jobs' = jobs \o ProjMajor(SecondWave, LaterProjs)
  BY DEF StageSecondWave
<1>4. /\ ProjMajor(SecondWave, LaterProjs) \in Seq(Slice) /\ IsInjective(ProjMajor(SecondWave, LaterProjs))
      /\ ToSet(ProjMajor(SecondWave, LaterProjs)) = ToSet(SecondWave) \X ToSet(LaterProjs)
  BY <1>1, <1>2, ProjSeqs, ProjMajorFacts, Zenon
<1> QED BY <1>1, <1>3, <1>4, ProjSeqs

\* The readiness flag of a slice.
Flag(s) == <<s[1][2], s[2]>>

\* A slice of the batch is read once.
BatchOnce ==
    /\ IsInjective(jobs)
    /\ \A n \in BatchLanes :
          /\ lane[n].slice \notin ToSet(jobs)
          /\ \A m \in BatchLanes \ {n} : lane[m].slice # lane[n].slice

\* The batch is what a load of these experts asked for, and no flag is up before its read.
BatchRouted ==
    pc \in After =>
    /\ BatchSlices \subseteq Slices(Routed)
    /\ overlap => \A s \in BatchSlices : Flag(s) \notin ready

\* Between the waves only first projections are read, and the later ones of an expert are all
\* ready or none is.
BetweenWaves ==
    pc = "wave2" =>
    /\ \A s \in BatchSlices : s[2] = 0
    /\ \A e \in Expert, p, q \in Proj \ {0} : <<e, p>> \in ready => <<e, q>> \in ready

\* The fourth layer of the invariant.
Batch == BatchOnce /\ BatchRouted /\ BetweenWaves

\* What a landing read of the batch does.
LEMMA LandingFacts ==
  ASSUME TypeOK, BatchOnce, NEW n \in Lane, BatchRead(n) \/ BatchReadFails(n)
  PROVE  /\ lane[n].slice \in Slice /\ lane[n].slice \in BatchSlices
         /\ BatchSlices \ {lane[n].slice} = BatchSlices'
         /\ ready' = IF overlap THEN ready \union {Flag(lane[n].slice)} ELSE ready
<1>0. /\ lane \in [Lane -> Doings] /\ n \in BatchLanes /\ lane' = [lane EXCEPT ![n] = Landed] /\ jobs' = jobs
  BY DEF TypeOK, BatchRead, BatchReadFails, BatchLanes
<1>1. lane[n].slice \in Slice
  BY <1>0, DoingFacts DEF BatchLanes
<1>2. lane[n].slice \in BatchSlices
  BY <1>0 DEF BatchSlices, LaneSlices, BatchLanes
<1>3. lane'[n] = Landed /\ \A m \in Lane \ {n} : lane'[m] = lane[m]
  BY <1>0
<1>4. Landed.doing # "batch"
  BY LaneRecords, Zenon
<1>5. BatchLanes' = BatchLanes \ {n} /\ \A m \in BatchLanes' : lane'[m] = lane[m]
  BY <1>3, <1>4 DEF BatchLanes
<1>6. LaneSlices("batch")' = LaneSlices("batch") \ {lane[n].slice}
  <2>1. LaneSlices("batch") = {lane[m].slice : m \in BatchLanes}
    BY DEF LaneSlices, BatchLanes
  <2>2. LaneSlices("batch")' = {lane'[m].slice : m \in BatchLanes'}
    BY DEF LaneSlices, BatchLanes
  <2> QED BY <1>0, <1>5, <2>1, <2>2 DEF BatchOnce
<1>7. lane[n].slice \notin ToSet(jobs)
  BY <1>0 DEF BatchOnce
<1>8. ready' = IF overlap THEN ready \union {Flag(lane[n].slice)} ELSE ready
  BY DEF BatchRead, BatchReadFails, RaiseFlag, Flag
<1> QED BY <1>0, <1>1, <1>2, <1>6, <1>7, <1>8 DEF BatchSlices

\* A slice of the batch is read once after any step.
LEMMA BatchOnceStep ==
  ASSUME Types, Batch, [Next]_vars
  PROVE  BatchOnce'
<1>0. TypeOK /\ jobs \in Seq(Slice) /\ BatchOnce
  BY DEF Types, TypeOK, Batch
<1>1. CASE Stage
  <2>1. pc = "stage" /\ lane' = lane
    BY <1>1 DEF Stage, threads
  <2>2. BatchLanes' = {}
    BY <2>1, NothingLoading DEF BatchLanes
  <2> QED BY <1>0, <1>1, <2>2, StagedJobs DEF BatchOnce
<1>2. CASE StageSecondWave
  <2> DEFINE more == ProjMajor(SecondWave, LaterProjs)
  <2>1. pc = "wave2" /\ lane' = lane /\ overlap
    BY <1>2 DEF StageSecondWave, threads, Types, PlaceInv
  <2>2. /\ more \in Seq(Slice) /\ IsInjective(more) /\ jobs' = jobs \o more
        /\ ToSet(more) = {e \in Routed : <<e[2], 1>> \notin ready} \X (Proj \ {0})
    BY <1>0, <1>2, <2>1, SecondJobs
  <2> HIDE DEF more
  <2>3. \A s \in ToSet(more) : s[2] # 0
    BY <2>2
  <2>4. BatchSlices \intersect ToSet(more) = {}
    BY <2>1, <2>3 DEF Batch, BetweenWaves
  <2>5. /\ ToSet(jobs \o more) = ToSet(jobs) \union ToSet(more)
        /\ IsInjective(jobs \o more)
    <3>1. IsInjective(jobs) /\ ToSet(jobs) \intersect ToSet(more) = {}
      BY <1>0, <2>4 DEF BatchOnce, BatchSlices
    <3> QED BY <1>0, <2>2, <3>1, ConcatFacts
  <2>6. BatchLanes' = BatchLanes /\ \A n \in BatchLanes : lane[n].slice \in BatchSlices
    BY <2>1 DEF BatchLanes, BatchSlices, LaneSlices
  <2> QED BY <1>0, <2>1, <2>2, <2>4, <2>5, <2>6 DEF BatchOnce
<1>3. ASSUME NEW n \in Lane, TakesJob(n) PROVE BatchOnce'
  <2>1. /\ BatchLanes' = BatchLanes \union {n} /\ n \notin BatchLanes
        /\ lane'[n].slice = Head(jobs) /\ \A m \in Lane \ {n} : lane'[m] = lane[m]
        /\ ToSet(jobs) = {Head(jobs)} \union ToSet(jobs')
        /\ IsInjective(jobs') /\ Head(jobs) \notin ToSet(jobs')
    BY <1>0, <1>3, JobFacts DEF BatchOnce
  <2>2. \A m \in BatchLanes : m \in Lane \ {n} /\ lane'[m] = lane[m] /\ lane[m].slice \notin ToSet(jobs)
    BY <1>0, <2>1 DEF BatchOnce, BatchLanes
  <2> QED BY <1>0, <2>1, <2>2 DEF BatchOnce
<1>4. CASE BatchShrinks
  BY <1>0, <1>4, BatchShrinkFacts DEF BatchOnce, BatchShrinks
<1> QED BY <1>1, <1>2, <1>3, <1>4, BatchMoves

\* Outside the staging of a load, only the second wave adds to the batch.
LEMMA BatchSlicesMove ==
  ASSUME Types, [Next]_vars
  PROVE  \/ Stage \/ StageSecondWave
         \/ BatchSlices' \subseteq BatchSlices
BY BatchMoves, JobFacts, BatchShrinkFacts DEF Types

\* What the staging of a load leaves.
LEMMA StageFacts ==
  ASSUME Types, Stage
  PROVE  /\ BatchSlices' = (Routed \ valid) \X FirstWave /\ Routed' = Routed
         /\ staged' = Routed /\ valid' = valid \union Routed /\ UNCHANGED <<il, ids, overlap, filled, spec_done, spec_remaining>>
         /\ committed' = committed \union ((Routed \ valid) \X FirstWave)
         /\ ready' = IF overlap THEN {e[2] : e \in Routed \intersect valid} \X Proj ELSE ready
         /\ pc' \in {"inline", "drain", "wave2", "evict"}
         /\ pc' = "wave2" <=> overlap /\ TwoWave
<1>0. TypeOK /\ Visited \in Seq(Entry) /\ ToSet(Visited) = Routed /\ TwoWave \in BOOLEAN /\ overlap \in BOOLEAN
  BY VisitedFacts, StreamAssumption DEF Types, TypeOK
<1>1. ToSet(Misses(Visited)) = Routed \ valid
  BY <1>0, MissesFacts
<1>2. /\ pc = "stage" /\ lane' = lane /\ UNCHANGED <<il, ids, overlap, filled, spec_done, spec_remaining>>
      /\ pc' = "inline" \/ pc' = IF ~overlap THEN "drain" ELSE IF TwoWave THEN "wave2" ELSE "evict"
      /\ overlap => pc' # "inline"
  BY <1>0 DEF Stage, threads, specq
<1>3. /\ staged' = Routed /\ valid' = valid \union Routed
      /\ ready' = IF overlap THEN {e[2] : e \in Routed \intersect valid} \X Proj ELSE ready
  BY <1>0 DEF Stage, TouchEntries
<1>4. committed' = committed \union ((Routed \ valid) \X FirstWave)
  BY <1>1 DEF Stage
<1>5. BatchSlices' = (Routed \ valid) \X FirstWave
  <2>1. LaneSlices("batch")' = LaneSlices("batch")
    BY <1>2 DEF LaneSlices
  <2>2. LaneSlices("batch") = {}
    BY <1>2, NothingLoading DEF BatchSlices
  <2>3. ToSet(jobs') = (Routed \ valid) \X FirstWave
    BY <1>0, StagedJobs
  <2> QED BY <2>1, <2>2, <2>3 DEF BatchSlices
<1> QED BY <1>0, <1>2, <1>3, <1>4, <1>5 DEF Routed

\* What the second wave leaves.
LEMMA SecondFacts ==
  ASSUME Types, StageSecondWave
  PROVE  /\ BatchSlices' = BatchSlices \union ({e \in Routed : <<e[2], 1>> \notin ready} \X (Proj \ {0}))
         /\ committed' = committed \union ({e \in Routed : <<e[2], 1>> \notin ready} \X Proj)
         /\ pc = "wave2" /\ pc' = "evict" /\ overlap /\ ready' = ready /\ Routed' = Routed /\ overlap' = overlap
<1>0. TypeOK /\ pc = "wave2" /\ pc' = "evict" /\ overlap /\ ready' = ready /\ il' = il /\ ids' = ids /\ overlap' = overlap
      /\ lane' = lane /\ jobs \in Seq(Slice)
  BY DEF StageSecondWave, Types, PlaceInv, TypeOK, threads
<1> DEFINE more == ProjMajor(SecondWave, LaterProjs)
<1>1. /\ more \in Seq(Slice) /\ jobs' = jobs \o more
      /\ ToSet(more) = {e \in Routed : <<e[2], 1>> \notin ready} \X (Proj \ {0})
  BY <1>0, SecondJobs
<1> HIDE DEF more
<1>2. ToSet(jobs \o more) = ToSet(jobs) \union ToSet(more)
  BY <1>0, <1>1, ConcatFacts
<1>3. LaneSlices("batch")' = LaneSlices("batch")
  BY <1>0 DEF LaneSlices
<1>4. committed' = committed \union ({e \in Routed : <<e[2], 1>> \notin ready} \X Proj)
  BY <1>0, MadeOfEntries DEF StageSecondWave
<1> QED BY <1>0, <1>1, <1>2, <1>3, <1>4 DEF BatchSlices, Routed

\* The batch stays the one of the load, and its flags stay down until its reads.
LEMMA BatchRoutedStep ==
  ASSUME Types, Batch, [Next]_vars
  PROVE  BatchRouted'
<1> SUFFICES ASSUME pc' \in After
             PROVE  /\ BatchSlices' \subseteq Slices(Routed')
                    /\ overlap' => \A s \in BatchSlices' : Flag(s) \notin ready'
  BY DEF BatchRouted
<1>0. TypeOK /\ Routed' = Routed /\ overlap' = overlap /\ Routed \subseteq Entry /\ 1 # 0
  BY AfterFrom, VisitedFacts DEF Routed, Types
<1>a. \A e, d \in Routed : e[2] = d[2] => e = d
  BY DEF Routed
<1>1. CASE Stage
  <2>1. /\ BatchSlices' = (Routed \ valid) \X FirstWave
        /\ ready' = IF overlap THEN {e[2] : e \in Routed \intersect valid} \X Proj ELSE ready
    BY <1>1, StageFacts
  <2>2. FirstWave \subseteq Proj
    BY ProjSeqs, ToSetFacts DEF FirstWave
  <2>3. ASSUME overlap, NEW s \in BatchSlices', Flag(s) \in ready' PROVE FALSE
    <3>1. s[1] \in Routed \ valid
      BY <2>1, <2>3
    <3>2. s[1][2] \in {e[2] : e \in Routed \intersect valid}
      BY <2>1, <2>3 DEF Flag
    <3>3. PICK e \in Routed \intersect valid : s[1][2] = e[2]
      BY <3>2
    <3> QED BY <1>a, <3>1, <3>3
  <2> QED BY <1>0, <2>1, <2>2, <2>3 DEF Slices
<1>2. CASE StageSecondWave
  <2>1. /\ BatchSlices' = BatchSlices \union ({e \in Routed : <<e[2], 1>> \notin ready} \X (Proj \ {0}))
        /\ pc = "wave2" /\ overlap /\ ready' = ready
    BY <1>2, SecondFacts
  <2>2. BatchSlices \subseteq Slices(Routed) /\ \A s \in BatchSlices : Flag(s) \notin ready
    BY <2>1 DEF Batch, BatchRouted, After
  <2>3. ASSUME NEW s \in {e \in Routed : <<e[2], 1>> \notin ready} \X (Proj \ {0}), Flag(s) \in ready
        PROVE  FALSE
    <3>1. s[1] \in Routed /\ <<s[1][2], 1>> \notin ready /\ s[2] \in Proj \ {0}
      BY <2>3
    <3>2. s[1][2] \in Expert
      BY <3>1, <1>0 DEF Entry
    <3>3. 1 \in Proj \ {0}
      BY <3>1, StreamAssumption DEF Proj
    <3>4. <<s[1][2], s[2]>> \in ready
      BY <2>3 DEF Flag
    <3> QED BY <2>1, <3>1, <3>2, <3>3, <3>4 DEF Batch, BetweenWaves
  <2> QED BY <1>0, <2>1, <2>2, <2>3 DEF Slices
<1>3. CASE ~ Stage /\ ~ StageSecondWave /\ \E k \in DOMAIN Visited, n \in Proj : StageFails(k, n)
  <2>1. pc = "stage"
    BY <1>3 DEF StageFails
  <2>2. BatchSlices' \subseteq BatchSlices /\ BatchSlices = {}
    BY <1>3, <2>1, NothingLoading, BatchSlicesMove
  <2> QED BY <2>2
<1>4. CASE ~ Stage /\ ~ StageSecondWave /\ ~ \E k \in DOMAIN Visited, n \in Proj : StageFails(k, n)
  <2>1. pc \in After /\ BatchSlices' \subseteq BatchSlices
    BY <1>4, AfterFrom, BatchSlicesMove
  <2>2. BatchSlices \subseteq Slices(Routed) /\ (overlap => \A s \in BatchSlices : Flag(s) \notin ready)
    BY <2>1 DEF Batch, BatchRouted
  <2>3. CASE ready' = ready
    BY <1>0, <2>1, <2>2, <2>3
  <2>4. ASSUME NEW n \in Lane, BatchRead(n) \/ BatchReadFails(n), overlap, NEW s \in BatchSlices'
        PROVE  Flag(s) \notin ready'
    <3> DEFINE t == lane[n].slice
    <3>1. t \in BatchSlices /\ BatchSlices' = BatchSlices \ {t} /\ ready' = ready \union {Flag(t)}
      BY <1>0, <2>4, LandingFacts DEF Batch
    <3> HIDE DEF t
    <3>2. s \in Slices(Routed) /\ t \in Slices(Routed) /\ s # t /\ Flag(s) \notin ready
      BY <2>2, <2>4, <3>1
    <3>3. s = <<s[1], s[2]>> /\ t = <<t[1], t[2]>> /\ s[1] \in Routed /\ t[1] \in Routed
      BY <3>2 DEF Slices
    <3>4. Flag(s) # Flag(t)
      BY <1>a, <3>2, <3>3 DEF Flag
    <3> QED BY <3>1, <3>2, <3>4
  <2> QED BY <1>0, <1>4, <2>1, <2>2, <2>3, <2>4, ReadyFrame
<1> QED BY <1>1, <1>2, <1>3, <1>4

\* Nothing disturbs the later projections between the waves.
LEMMA BetweenWavesStep ==
  ASSUME Types, Batch, [Next]_vars
  PROVE  BetweenWaves'
<1> SUFFICES ASSUME pc' = "wave2"
             PROVE  /\ \A s \in BatchSlices' : s[2] = 0
                    /\ \A e \in Expert, p, q \in Proj \ {0} : <<e, p>> \in ready' => <<e, q>> \in ready'
  BY DEF BetweenWaves
<1>0. TypeOK /\ pc' \in After
  BY DEF Types, After
<1>1. CASE Stage
  <2>1. /\ BatchSlices' = (Routed \ valid) \X FirstWave /\ overlap /\ TwoWave
        /\ ready' = {e[2] : e \in Routed \intersect valid} \X Proj
    BY <1>1, StageFacts
  <2> QED BY <2>1 DEF FirstWave
<1>2. CASE ~ Stage
  <2>1. pc = "wave2" /\ ~ StageSecondWave
    BY <1>0, <1>2, AfterFrom DEF StageFails, StageSecondWave
  <2>2. /\ BatchSlices' \subseteq BatchSlices /\ \A s \in BatchSlices : s[2] = 0
        /\ \A e \in Expert, p, q \in Proj \ {0} : <<e, p>> \in ready => <<e, q>> \in ready
    BY <1>2, <2>1, BatchSlicesMove DEF Batch, BetweenWaves
  <2>3. CASE ready' = ready
    BY <2>2, <2>3
  <2>4. ASSUME NEW n \in Lane, BatchRead(n) \/ BatchReadFails(n)
        PROVE  \A e \in Expert, p, q \in Proj \ {0} : <<e, p>> \in ready' => <<e, q>> \in ready'
    <3>1. lane[n].slice \in BatchSlices /\ ready' \in {ready, ready \union {Flag(lane[n].slice)}}
      BY <1>0, <2>4, LandingFacts DEF Batch
    <3>2. lane[n].slice[2] = 0
      BY <2>2, <3>1
    <3> QED BY <2>2, <3>1, <3>2 DEF Flag
  <2> QED BY <1>2, <2>1, <2>2, <2>3, <2>4, ReadyFrame DEF StageFails
<1> QED BY <1>1, <1>2

\* The fourth layer of the invariant is inductive.
LEMMA BatchInduction ==
  /\ Init => Batch
  /\ Types /\ Batch /\ [Next]_vars => Batch'
<1>1. ASSUME Init PROVE Batch
  <2>1. pc = "route" /\ jobs = <<>> /\ lane = [n \in Lane |-> Nobody]
    BY <1>1 DEF Init
  <2>2. Nobody.doing # "batch" /\ IsInjective(<<>>)
    BY LaneRecords, ToSetFacts, Zenon
  <2>3. BatchLanes = {}
    BY <2>1, <2>2 DEF BatchLanes
  <2> QED BY <2>1, <2>2, <2>3 DEF Batch, BatchOnce, BatchRouted, BetweenWaves, After
<1>2. ASSUME Types, Batch, [Next]_vars PROVE Batch'
  BY <1>2, BatchOnceStep, BatchRoutedStep, BetweenWavesStep DEF Batch
<1> QED BY <1>1, <1>2

\* A serial load does not meet a failed commit: load_layer returns what the router hook ignores, and
\* the layer is computed on pages that were never committed.
SerialCommits == FALSE \in Modes => "commit" \notin Faults

\* A projection the second wave is still to commit.
Later(s) == pc = "wave2" /\ s[1] \in Routed /\ s[2] # 0 /\ Flag(s) \notin ready

\* While nothing failed, a staged load is resident and stamped, and the pages of a resident entry are
\* committed, but for what the second wave will commit.
Books ==
    /\ ~fatal =>
          /\ pc \in After => Routed \subseteq valid \intersect staged
          /\ \A s \in Slices(valid) : s \in committed \/ Later(s)
    /\ LedgerExact

(***************************************************************************)
(* Fifth layer, Books: what is resident was routed or speculated, has its  *)
(* pages committed, and is counted.                                        *)
(***************************************************************************)

\* Where nothing failed, no staging did.
LEMMA NoStageFails ==
  ASSUME Types, SerialCommits, ~fatal', NEW k, NEW n
  PROVE  ~ StageFails(k, n)
<1>1. overlap \in Modes /\ overlap \in BOOLEAN
  BY DEF Types, PlaceInv, TypeOK
<1>2. StageFails(k, n) => "commit" \in Faults /\ fatal' = (fatal \/ overlap)
  BY DEF StageFails
<1> QED BY <1>1, <1>2 DEF SerialCommits

\* What the eviction loop of a load takes is not what it staged.
LEMMA EvictSpares ==
  ASSUME TypeOK, Evict
  PROVE  \E out \in SUBSET Entry : valid' = valid \ out /\ out \intersect staged = {}
<1>0. lru \in Seq(Entry) /\ Len(lru) \in Nat
  BY DEF TypeOK
<1>1. PICK k \in 0..Len(lru) : k <= resident /\ EvictTails(k) /\ \A n \in 0..(k - 1) : Evictable(n)
  BY EvictsWithin DEF Evict
<1>2. PICK out \in SUBSET Entry : out = Stretch(lru, Len(lru) - k + 1, Len(lru)) /\ valid' = valid \ out
  BY <1>1, EvictTailsFacts
<1>3. ASSUME NEW e \in out PROVE e \notin staged
  <2>1. PICK i \in (Len(lru) - k + 1)..Len(lru) : e = lru[i]
    BY <1>2, <1>3 DEF Stretch
  <2>2. Len(lru) - i \in 0..(k - 1) /\ Len(lru) - (Len(lru) - i) = i
    BY <1>0, <1>1, <2>1
  <2>3. lru[Len(lru) - (Len(lru) - i)] \notin staged
    BY <1>1, <2>2 DEF Evictable
  <2> QED BY <2>1, <2>2, <2>3
<1> QED BY <1>2, <1>3

\* How the first wave ends.
LEMMA WaveTo ==
  ASSUME Types, [Next]_vars, pc = "wave2"
  PROVE  pc' = "wave2" \/ StageSecondWave \/ SecondFails
<1>1. CASE \E n \in Lane : LaneStep(n)
  BY <1>1 DEF LaneStep, BatchPull, BatchRead, BatchReadFails, BatchCount, SpecPull, SpecRead,
     SpecReadFails, WorkerExit, where
<1>2. CASE Quiesce \/ Load
  BY <1>2 DEF Quiesce, CancelSpec, FinishQuiesce, AdoptBegin, AdoptPull, AdoptEnd, Load, Stage,
     SecondFails, StageFails, InlineRead, InlineReadFails, DrainEnd, Evict
<1>3. CASE Speculate \/ Shrink
  BY <1>3 DEF Speculate, IssueSettle, Issue, NoIssue, Prefetch, Shrink, CancelSpec, FinishQuiesce, ShrinkTo
<1>4. CASE Matmul \/ OverlapOffJoin \/ Release
  BY <1>4 DEF Matmul, OverlapOffJoin, Release
<1>5. CASE Start
  BY <1>5 DEF Start, BeginLoad, Cancel, ShrinkBegin, Grow, OverlapOn, OverlapOff, Shutdown, Ended,
     BetweenDecodes
<1>6. CASE UNCHANGED vars
  BY <1>6 DEF vars, where
<1> QED BY <1>1, <1>2, <1>3, <1>4, <1>5, <1>6 DEF Next, Continue

\* What the second wave is to commit stays so until it does.
LEMMA LaterStays ==
  ASSUME Types, Batch, [Next]_vars, ~fatal', NEW s \in Slice, Later(s)
  PROVE  Later(s)' \/ (StageSecondWave /\ s \in committed' /\ s \in BatchSlices')
<1>0. TypeOK /\ pc = "wave2" /\ s[1] \in Routed /\ s[2] # 0 /\ Flag(s) \notin ready
      /\ s = <<s[1], s[2]>> /\ s[2] \in Proj \ {0} /\ s[1][2] \in Expert
  BY DEF Later, Types, Slice, Entry
<1>1. CASE StageSecondWave
  <2>1. /\ committed' = committed \union ({e \in Routed : <<e[2], 1>> \notin ready} \X Proj)
        /\ BatchSlices' = BatchSlices \union ({e \in Routed : <<e[2], 1>> \notin ready} \X (Proj \ {0}))
    BY <1>1, SecondFacts
  <2>2. 1 \in Proj \ {0}
    BY <1>0, StreamAssumption DEF Proj
  <2>3. <<s[1][2], 1>> \notin ready
    BY <1>0, <2>2 DEF Batch, BetweenWaves, Flag
  <2>4. s[1] \in {e \in Routed : <<e[2], 1>> \notin ready}
    BY <1>0, <2>3
  <2>5. s \in {e \in Routed : <<e[2], 1>> \notin ready} \X (Proj \ {0})
    BY <1>0, <2>4
  <2> QED BY <1>1, <2>1, <2>5
<1>2. CASE pc' = "wave2"
  <2>1. Routed' = Routed /\ ~ Stage /\ ~ \E k \in DOMAIN Visited, n \in Proj : StageFails(k, n)
    BY <1>0, <1>2, AfterFrom DEF Routed, After, Stage, StageFails
  <2>2. ASSUME NEW n \in Lane, BatchRead(n) \/ BatchReadFails(n) PROVE Flag(s) \notin ready'
    <3>1. lane[n].slice \in BatchSlices /\ ready' \in {ready, ready \union {Flag(lane[n].slice)}}
      BY <1>0, <2>2, LandingFacts DEF Batch
    <3>2. lane[n].slice[2] = 0
      BY <1>0, <3>1 DEF Batch, BetweenWaves
    <3> QED BY <1>0, <3>1, <3>2 DEF Flag
  <2>3. Flag(s) \notin ready'
    BY <1>0, <2>1, <2>2, ReadyFrame
  <2> QED BY <1>0, <1>2, <2>1, <2>3 DEF Later, Flag
<1> QED BY <1>0, <1>1, <1>2, WaveTo DEF SecondFails, SecondWaveFails

\* A staged load stays resident and stamped.
LEMMA RoutedStep ==
  ASSUME Types, Books, SerialCommits, [Next]_vars, ~fatal', pc' \in After
  PROVE  Routed' \subseteq valid' \intersect staged'
<1>0. TypeOK /\ ~fatal /\ Routed' = Routed
  BY FatalStays, AfterFrom DEF Types, Routed
<1>1. CASE Stage
  BY <1>1, StageFacts
<1>2. CASE pc \in After /\ ~ Stage
  <2>1. Routed \subseteq valid \intersect staged
    BY <1>0, <1>2 DEF Books
  <2>2. CASE Evict
    BY <1>0, <2>1, <2>2, EvictSpares DEF Evict
  <2>3. CASE IssueSettle
    <3>1. ToSet(Eligible) = ToSet(spec_done) \ (valid \union Pending)
      BY <1>0, MadeOfEntries
    <3> QED BY <1>0, <2>1, <2>3, <3>1 DEF IssueSettle, Integrate
  <2>4. CASE ~ Evict /\ ~ IssueSettle
    <3>1. valid' = valid
      BY <1>2, <2>4, CacheFrame, NoStageFails DEF AdoptEnd, StageSecondWave, FinishQuiesce, Issue, ShrinkTo, After
    <3>2. staged' = staged
      BY <1>2, <2>4, StagedFrame, NoStageFails DEF AdoptEnd, FinishQuiesce, After
    <3> QED BY <1>0, <2>1, <3>1, <3>2
  <2> QED BY <2>2, <2>3, <2>4
<1> QED BY <1>1, <1>2, AfterFrom, NoStageFails

\* What enters the cache was staged, or speculated for.
LEMMA EntersFrom ==
  ASSUME Types, SerialCommits, [Next]_vars, ~fatal', NEW e \in valid' \ valid
  PROVE  (Stage /\ e \in Routed) \/ e \in ToSet(spec_done)
<1>0. TypeOK
  BY DEF Types
<1>1. CASE Integrate
  <2>1. ToSet(Eligible) = ToSet(spec_done) \ (valid \union Pending)
    BY <1>0, MadeOfEntries
  <2> QED BY <1>1, <2>1 DEF Integrate
<1>2. CASE Evict \/ \E b \in Budgets : ShrinkTo(b)
  BY <1>0, <1>2, EvictsWithin DEF Evict, EvictTails
<1> QED BY <1>1, <1>2, CacheFrame, NoStageFails, StageFacts DEF AdoptEnd, StageSecondWave, IssueSettle, FinishQuiesce, Issue

\* The pages of a resident entry stay committed, or are still to be.
LEMMA ResidentStep ==
  ASSUME Types, Listing, Speculation, Batch, Books, SerialCommits, [Next]_vars, ~fatal',
         NEW s \in Slices(valid')
  PROVE  s \in committed' \/ Later(s)'
<1>0. TypeOK /\ ~fatal /\ pc' # "off" /\ LruExact
  <2>1. Types'
    BY TypesInduction
  <2>2. PlaceInv'
    BY <2>1 DEF Types
  <2> QED BY <2>2, FatalStays DEF Types, PlaceInv, Listing
<1>1. s[1] \in valid' /\ s \in Slice /\ s = <<s[1], s[2]>> /\ s[2] \in Proj
  <2>1. valid' \subseteq Entry
    BY <1>0, CacheTypes
  <2> QED BY <2>1 DEF Slices, Slice
<1>2. CASE s[1] \in valid
  <2>1. s \in committed \/ Later(s)
    BY <1>0, <1>1, <1>2 DEF Books, Slices
  <2>2. Finishing => s[1] \notin Released \ ToSet(spec_done)
    <3>1. s[1] \notin Pending /\ s[1] \in Entry
      BY <1>1, <1>2 DEF Speculation, ApartInv, Slice
    <3> QED BY <3>1 DEF Released, Pending
  <2>3. s \in committed => s \in committed'
    BY <1>0, <1>1, <1>2, <2>2, PagesKept
  <2> QED BY <1>1, <2>1, <2>3, LaterStays
<1>3. CASE s[1] \in ToSet(spec_done)
  <2>1. s \in committed
    BY <1>1, <1>3 DEF Speculation, OwingInv, Slices
  <2> QED BY <1>0, <1>1, <1>3, <2>1, PagesKept
<1>4. CASE Stage /\ s[1] \in Routed \ valid
  <2>1. /\ committed' = committed \union ((Routed \ valid) \X FirstWave) /\ Routed' = Routed
        /\ ready' = IF overlap THEN {e[2] : e \in Routed \intersect valid} \X Proj ELSE ready
        /\ pc' = "wave2" <=> overlap /\ TwoWave
    BY <1>4, StageFacts
  <2>2. CASE s[2] \in FirstWave
    BY <1>1, <1>4, <2>1, <2>2
  <2>3. CASE s[2] \notin FirstWave
    <3>1. overlap /\ TwoWave /\ s[2] # 0
      BY <1>1, <2>3 DEF FirstWave
    <3>2. Flag(s) \notin ready'
      <4>1. \A e, d \in Routed : e[2] = d[2] => e = d
        BY DEF Routed
      <4>2. ASSUME Flag(s) \in ready' PROVE FALSE
        <5>1. s[1][2] \in {e[2] : e \in Routed \intersect valid}
          BY <2>1, <3>1, <4>2 DEF Flag
        <5>2. PICK e \in Routed \intersect valid : s[1][2] = e[2]
          BY <5>1
        <5> QED BY <1>4, <4>1, <5>2
      <4> QED BY <4>2
    <3> QED BY <1>4, <2>1, <3>1, <3>2 DEF Later, Flag
  <2> QED BY <2>2, <2>3
<1> QED BY <1>1, <1>2, <1>3, <1>4, EntersFrom

\* What was pending is pending, or complete, or released.
LEMMA PendingMoves ==
  ASSUME Types, AdoptsCleanly, [Next]_vars, NEW e \in Pending
  PROVE  e \in Pending' \/ e \in ToSet(spec_done') \/ Finishing
<1>0. /\ TypeOK /\ e \in Entry /\ spec_remaining[e] # 0 /\ spec_done \in Seq(Entry) /\ spec_remaining[e] \in Nat
      /\ spec_remaining \in [Entry -> 0..Projs]
  BY DEF Types, TypeOK, Pending
<1>1. CASE spec_remaining'[e] # 0
  BY <1>0, <1>1 DEF Pending
<1>2. ASSUME NEW n \in Lane, SpecRead(n), lane[n].slice[1] = e, spec_remaining'[e] = spec_remaining[e] - 1,
             spec_remaining'[e] = 0
      PROVE  e \in ToSet(spec_done')
  <2>1. spec_remaining[e] = 1
    BY <1>0, <1>2
  <2>2. CountDown(e)
    BY <1>0, <1>2 DEF SpecRead
  <2>3. spec_done' = Append(spec_done, e)
    BY <2>1, <2>2 DEF CountDown
  <2>4. e \in ToSet(Append(spec_done, e))
    BY <1>0, AppendFacts
  <2> QED BY <2>3, <2>4
<1>3. ~ (Adopt /\ \E n \in Lane : SpecReadFails(n))
  BY DEF SpecReadFails, AdoptsCleanly
<1>4. ASSUME NEW k \in 0..Len(cand), Prefetch(k) PROVE e \in Pending'
  <2>1. spec_remaining' = [d \in Entry |-> IF d \in ToSet(Queued(k)) THEN Projs ELSE spec_remaining[d]]
    BY <1>4 DEF Prefetch
  <2>2. Projs # 0
    BY StreamAssumption
  <2> QED BY <1>0, <2>1, <2>2 DEF Pending
<1> QED BY <1>0, <1>1, <1>2, <1>3, <1>4, CountMoves

\* The pages of what leaves the cache go with it.
LEMMA LeavesWithPages ==
  ASSUME TypeOK, [Next]_vars, NEW s \in Slice, s[1] \in valid \ valid'
  PROVE  s \notin committed' /\ s \notin filled'
<1>1. CASE Evict \/ \E b \in Budgets : ShrinkTo(b)
  <2>1. PICK k \in 0..Len(lru) : k <= resident /\ EvictTails(k)
    BY <1>1, EvictsWithin DEF Evict
  <2>2. PICK out \in SUBSET Entry :
            /\ valid' = valid \ out
            /\ committed' = committed \ Slices(out) /\ filled' = filled \ Slices(out)
    BY <2>1, EvictTailsFacts
  <2> QED BY <2>2 DEF Slices, Slice
<1> QED BY <1>1, CacheFrame
       DEF AdoptEnd, Stage, StageFails, StageSecondWave, TouchEntries, IssueSettle, FinishQuiesce, Integrate, Issue

\* What was complete is complete, or resident, or torn down.
LEMMA DoneMoves ==
  ASSUME Types, Listing, Speculation, [Next]_vars, NEW e \in ToSet(spec_done)
  PROVE  e \in ToSet(spec_done') \/ e \in valid' \/ Release
<1>0. TypeOK /\ spec_done \in Seq(Entry) /\ e \in Entry /\ lane \in [Lane -> Doings]
  BY ToSetFacts DEF Types, TypeOK
<1>1. CASE Integrate
  <2>1. e \notin valid /\ e \notin Pending
    BY DEF Speculation, ApartInv, Listing, DoneInv
  <2>2. e \in ToSet(Eligible)
    BY <1>0, <2>1, MadeOfEntries
  <2> QED BY <1>1, <2>2 DEF Integrate
<1>2. ASSUME NEW n \in Lane, SpecRead(n) PROVE e \in ToSet(spec_done')
  <2>1. lane[n].doing = "spec"
    BY <1>2 DEF SpecRead
  <2>2. lane[n].slice[1] \in Entry
    BY <1>0, <2>1, DoingFacts DEF Slice
  <2>3. ToSet(Append(spec_done, lane[n].slice[1])) = ToSet(spec_done) \union {lane[n].slice[1]}
    BY <1>0, <2>2, AppendFacts
  <2>4. spec_done' \in {spec_done, Append(spec_done, lane[n].slice[1])}
    BY <1>2 DEF SpecRead, CountDown
  <2> QED BY <2>3, <2>4
<1> QED BY <1>1, <1>2, DoneFrame DEF AdoptEnd, IssueSettle, FinishQuiesce

\* No page leaves the books.
LEMMA LedgerStep ==
  ASSUME Types, Listing, Speculation, Batch, Books, AdoptsCleanly, SerialCommits, [Next]_vars
  PROVE  LedgerExact'
<1> SUFFICES ASSUME ~fatal', NEW s \in committed' PROVE s \in Slices(valid' \union Pending' \union ToSet(spec_done'))
  BY DEF LedgerExact
<1>0. TypeOK /\ ~fatal /\ pc' # "off" /\ s \in Slice
  <2>1. TypeOK /\ committed' \subseteq Slice
    BY PageTypes DEF Types
  <2>2. Types'
    BY TypesInduction
  <2>3. PlaceInv'
    BY <2>2 DEF Types
  <2> QED BY <2>1, <2>3, FatalStays DEF Types, PlaceInv
<1> SUFFICES s[1] \in valid' \union Pending' \union ToSet(spec_done')
  BY <1>0 DEF Slice, Slices
<1>1. CASE s \in committed
  <2>1. s[1] \in valid \union Pending \union ToSet(spec_done)
    BY <1>0, <1>1 DEF Books, LedgerExact, Slices
  <2>2. CASE s[1] \in valid
    BY <1>0, <2>2, LeavesWithPages
  <2>3. CASE s[1] \in Pending
    <3>1. ~ Finishing
      <4>1. ASSUME Finishing PROVE s[1] \in Released \ ToSet(spec_done)
        <5>1. s[1] \in spec_touched /\ spec_remaining[s[1]] # 0 /\ s[1] \notin ToSet(spec_done)
          BY <2>3, <4>1 DEF Finishing, FinishQuiesce, Listing, QuietInv, DoneInv, Pending
        <5> QED BY <5>1 DEF Released
      <4>2. ASSUME Finishing PROVE s \notin Slices(Released \ ToSet(spec_done))
        BY <4>2 DEF Finishing, FinishQuiesce
      <4> QED BY <1>0, <4>1, <4>2 DEF Slices, Slice
    <3> QED BY <2>3, <3>1, PendingMoves
  <2>4. CASE s[1] \in ToSet(spec_done)
    BY <1>0, <2>4, DoneMoves DEF Release
  <2> QED BY <2>1, <2>2, <2>3, <2>4
<1>2. CASE s \notin committed
  <2>1. CASE Stage
    <3>1. s \in (Routed \ valid) \X FirstWave /\ valid' = valid \union Routed
      BY <1>2, <2>1, StageFacts
    <3> QED BY <3>1
  <2>2. CASE StageSecondWave
    <3>1. s \in {e \in Routed : <<e[2], 1>> \notin ready} \X Proj /\ pc = "wave2"
      BY <1>2, <2>2, SecondFacts
    <3>2. s[1] \in valid /\ valid' = valid
      BY <1>0, <2>2, <3>1 DEF Books, After, StageSecondWave, cache
    <3> QED BY <3>2
  <2>3. ASSUME NEW k \in 0..Len(cand), Prefetch(k) PROVE s[1] \in Pending'
    <3>1. Pending' = Pending \union ToSet(Queued(k))
      BY <1>0, <2>3, PrefetchFacts DEF Listing
    <3>2. committed' \subseteq committed \union Slices(ToSet(Queued(k)))
      BY <2>3 DEF Prefetch
    <3> QED BY <1>2, <3>1, <3>2 DEF Slices
  <2>4. CASE Evict \/ \E b \in Budgets : ShrinkTo(b)
    BY <1>0, <1>2, <2>4, EvictsWithin DEF Evict, EvictTails
  <2> QED BY <1>0, <1>2, <2>1, <2>2, <2>3, <2>4, CommittedFrame, NoStageFails
         DEF SecondFails, SecondWaveFails, FinishQuiesce, Release
<1> QED BY <1>1, <1>2

\* The fifth layer of the invariant is inductive.
LEMMA BooksInduction ==
  ASSUME AdoptsCleanly, SerialCommits
  PROVE  /\ Init => Books
         /\ Types /\ Listing /\ Speculation /\ Batch /\ Books /\ [Next]_vars => Books'
<1>1. Init => Books
  BY DEF Init, Books, LedgerExact, After, Slices
<1>2. ASSUME Types, Listing, Speculation, Batch, Books, [Next]_vars PROVE Books'
  <2>1. ASSUME ~fatal', pc' \in After PROVE Routed' \subseteq valid' \intersect staged'
    BY <1>2, <2>1, RoutedStep
  <2>2. ASSUME ~fatal', NEW s \in Slices(valid') PROVE s \in committed' \/ Later(s)'
    BY <1>2, <2>2, ResidentStep
  <2>3. LedgerExact'
    BY <1>2, LedgerStep
  <2> QED BY <2>1, <2>2, <2>3 DEF Books, Later, Flag
<1> QED BY <1>1, <1>2

\* No committed page is outside the books: it belongs to a resident entry or to a speculation under
\* way, as long as nothing failed (release_entry_pages, commit_missing_pages).
THEOREM Ledger == ASSUME AdoptsCleanly, SerialCommits PROVE Spec => []LedgerExact
<1> DEFINE I == Types /\ Listing /\ Speculation /\ Batch /\ Books
<1>1. Init => I
  BY CoreInduction, BatchInduction, BooksInduction
<1>2. I /\ [Next]_vars => I'
  BY CoreInduction, BatchInduction, BooksInduction
<1>3. I => LedgerExact
  BY DEF Books
<1> QED BY <1>1, <1>2, <1>3, PTL DEF Spec

\* A serial load does not meet a failed read: load_layer returns what the router hook ignores, and
\* the layer is computed without the rest of its batch.
SerialReads == FALSE \in Modes => "read" \notin Faults

\* While nothing failed, a resident entry holds its bytes, but for what the batch brings or the second
\* wave will ask for; and a raised flag of a routed expert means that the bytes are there.
Bytes ==
    ~fatal =>
    /\ \A s \in Slices(valid) : s \in filled \/ s \in BatchSlices \/ Later(s)
    /\ pc \in After /\ overlap =>
          \A f \in ready : f[1] \in ToSet(ids) => <<<<il, f[1]>>, f[2]>> \in filled

(***************************************************************************)
(* Sixth layer, Bytes: a routed expert's pages hold its bytes as soon as   *)
(* its flag is up.                                                         *)
(***************************************************************************)

\* Where nothing failed, no read did.
LEMMA NoReadFails ==
  ASSUME Types, SerialReads, ~fatal'
  PROVE  ~ InlineReadFails /\ \A n : ~ BatchReadFails(n)
<1>1. overlap \in Modes /\ overlap \in BOOLEAN /\ (pc = "inline" => ~overlap)
  BY DEF Types, PlaceInv, TypeOK
<1>2. InlineReadFails => "read" \in Faults /\ pc = "inline"
  BY DEF InlineReadFails
<1>3. \A n : BatchReadFails(n) => "read" \in Faults /\ fatal' = (fatal \/ overlap)
  BY DEF BatchReadFails, ReadError
<1> QED BY <1>1, <1>2, <1>3 DEF SerialReads

\* A slice of the batch stays one until its bytes are there.
LEMMA BatchLoses ==
  ASSUME Types, SerialReads, [Next]_vars, ~fatal', NEW s \in BatchSlices
  PROVE  s \in BatchSlices' \/ s \in filled'
<1>0. TypeOK /\ jobs \in Seq(Slice) /\ lane \in [Lane -> Doings] /\ ~ Release
  <2>1. Types'
    BY TypesInduction
  <2>2. PlaceInv'
    BY <2>1 DEF Types
  <2> QED BY <2>2 DEF Types, TypeOK, PlaceInv, Release
<1>1. CASE Stage
  BY <1>1, NothingLoading DEF Stage
<1>2. CASE StageSecondWave
  BY <1>2, SecondFacts
<1>3. CASE \E n \in Lane : TakesJob(n)
  BY <1>0, <1>3, JobFacts
<1>4. CASE s \in ToSet(jobs) /\ ~ Stage /\ ~ StageSecondWave /\ ~ \E n \in Lane : TakesJob(n)
  <2>1. ~ \E n \in Lane : BatchPull(n)
    BY <1>4 DEF BatchPull, TakesJob
  <2>2. CASE jobs' = jobs
    BY <1>4, <2>2 DEF BatchSlices
  <2>3. CASE InlineRead /\ jobs # <<>>
    <3>1. jobs' = Tail(jobs) /\ filled' = filled \union {Head(jobs)}
      BY <2>3 DEF InlineRead
    <3>2. ToSet(jobs) = {Head(jobs)} \union ToSet(Tail(jobs))
      BY <1>0, <2>3, HeadTailFacts
    <3> QED BY <1>4, <3>1, <3>2 DEF BatchSlices
  <2> QED BY <1>0, <1>4, <2>1, <2>2, <2>3, JobsFrame, NoReadFails DEF InlineRead
<1>5. ASSUME NEW n \in Lane, lane[n].doing = "batch", s = lane[n].slice
      PROVE  s \in BatchSlices' \/ s \in filled'
  <2>1. CASE lane'[n] = lane[n]
    BY <1>5, <2>1 DEF BatchSlices, LaneSlices
  <2>2. CASE BatchRead(n)
    BY <1>5, <2>2 DEF BatchRead
  <2>3. ASSUME lane'[n] # lane[n], ~ BatchRead(n) PROVE FALSE
    <3>1. lane[n] # Nobody /\ lane[n] # Landed /\ lane[n] # Gone /\ lane[n].doing # "spec"
      BY <1>5, LaneRecords, Zenon
    <3>2. ~ BatchPull(n) /\ ~ BatchCount(n) /\ ~ SpecPull(n) /\ ~ WorkerExit(n)
      BY <3>1 DEF BatchPull, BatchCount, SpecPull, WorkerExit
    <3>3. ~ SpecRead(n) /\ ~ SpecReadFails(n)
      BY <3>1 DEF SpecRead, SpecReadFails
    <3>4. n = 0 => ~ AdoptPull /\ ~ OverlapOffJoin
      BY <3>1 DEF AdoptPull, OverlapOffJoin
    <3> QED BY <1>0, <2>3, <3>1, <3>2, <3>3, <3>4, LaneMoves, NoReadFails
  <2> QED BY <2>1, <2>2, <2>3
<1>6. s \in ToSet(jobs) \/ \E n \in Lane : lane[n].doing = "batch" /\ s = lane[n].slice
  BY DEF BatchSlices, LaneSlices
<1> QED BY <1>1, <1>2, <1>3, <1>4, <1>5, <1>6

\* A resident entry keeps its bytes, or what will bring them.
LEMMA ResidentBytes ==
  ASSUME Types, Listing, Speculation, Batch, Bytes, SerialCommits, SerialReads, [Next]_vars, ~fatal',
         NEW s \in Slices(valid')
  PROVE  s \in filled' \/ s \in BatchSlices' \/ Later(s)'
<1>0. TypeOK /\ ~fatal /\ pc' # "off" /\ LruExact
  <2>1. Types'
    BY TypesInduction
  <2>2. PlaceInv'
    BY <2>1 DEF Types
  <2> QED BY <2>2, FatalStays DEF Types, PlaceInv, Listing
<1>1. s[1] \in valid' /\ s \in Slice /\ s = <<s[1], s[2]>> /\ s[2] \in Proj
  <2>1. valid' \subseteq Entry
    BY <1>0, CacheTypes
  <2> QED BY <2>1 DEF Slices, Slice
<1>2. CASE s[1] \in valid
  <2>1. s \in filled \/ s \in BatchSlices \/ Later(s)
    BY <1>0, <1>1, <1>2 DEF Bytes, Slices
  <2>2. Finishing => s[1] \notin Released \ ToSet(spec_done)
    <3>1. s[1] \notin Pending /\ s[1] \in Entry
      BY <1>1, <1>2 DEF Speculation, ApartInv, Slice
    <3> QED BY <3>1 DEF Released, Pending
  <2>3. s \in filled => s \in filled'
    BY <1>0, <1>1, <1>2, <2>2, PagesKept
  <2> QED BY <1>1, <2>1, <2>3, LaterStays, BatchLoses
<1>3. CASE s[1] \in ToSet(spec_done)
  <2>1. s \in filled
    BY <1>1, <1>3 DEF Speculation, OwingInv, Slices
  <2> QED BY <1>0, <1>1, <1>3, <2>1, PagesKept
<1>4. CASE Stage /\ s[1] \in Routed \ valid
  <2>1. /\ BatchSlices' = (Routed \ valid) \X FirstWave /\ Routed' = Routed
        /\ ready' = IF overlap THEN {e[2] : e \in Routed \intersect valid} \X Proj ELSE ready
        /\ pc' = "wave2" <=> overlap /\ TwoWave
    BY <1>4, StageFacts
  <2>2. CASE s[2] \in FirstWave
    BY <1>1, <1>4, <2>1, <2>2
  <2>3. CASE s[2] \notin FirstWave
    <3>1. overlap /\ TwoWave /\ s[2] # 0
      BY <1>1, <2>3 DEF FirstWave
    <3>2. ASSUME Flag(s) \in ready' PROVE FALSE
      <4>1. \A e, d \in Routed : e[2] = d[2] => e = d
        BY DEF Routed
      <4>2. s[1][2] \in {e[2] : e \in Routed \intersect valid}
        BY <2>1, <3>1, <3>2 DEF Flag
      <4>3. PICK e \in Routed \intersect valid : s[1][2] = e[2]
        BY <4>2
      <4> QED BY <1>4, <4>1, <4>3
    <3> QED BY <1>4, <2>1, <3>1, <3>2 DEF Later, Flag
  <2> QED BY <2>2, <2>3
<1> QED BY <1>1, <1>2, <1>3, <1>4, EntersFrom

\* A raised flag stays true.
LEMMA FlagsStep ==
  ASSUME Types, Listing, Speculation, Batch, Books, Bytes, SerialCommits, SerialReads, [Next]_vars, ~fatal',
         pc' \in After, overlap', NEW f \in ready', f[1] \in ToSet(ids')
  PROVE  <<<<il', f[1]>>, f[2]>> \in filled'
<1> DEFINE s == <<<<il, f[1]>>, f[2]>>
<1>0. /\ TypeOK /\ ~fatal /\ pc' # "off" /\ LruExact /\ il' = il /\ ids' = ids /\ overlap /\ Routed' = Routed
      /\ Routed \subseteq Entry
  BY AfterFrom, FatalStays, VisitedFacts DEF Types, Listing, After, Routed
<1>1. <<il, f[1]>> \in Routed /\ f = <<f[1], f[2]>> /\ f[2] \in Proj
  <2>1. f \in Expert \X Proj
    BY <1>0, PageTypes
  <2> QED BY <1>0, <2>1 DEF Routed
<1>2. s[1] = <<il, f[1]>> /\ s[2] = f[2] /\ s[1][2] = f[1] /\ s \in Slices(Routed) /\ s \in Slice
  BY <1>0, <1>1 DEF Slices, Slice
<1>3. Flag(s) = f
  BY <1>1 DEF Flag
<1> HIDE DEF s
<1>4. CASE Stage
  <2>1. f \in {e[2] : e \in Routed \intersect valid} \X Proj /\ filled' = filled /\ pc = "stage"
    BY <1>0, <1>4, StageFacts DEF Stage
  <2>2. PICK e \in Routed \intersect valid : f[1] = e[2]
    BY <2>1
  <2>3. e = s[1]
    BY <1>2, <2>2 DEF Routed
  <2>4. s \in Slices(valid) /\ BatchSlices = {} /\ ~ Later(s)
    BY <1>2, <2>1, <2>2, <2>3, NothingLoading DEF Slices, Later
  <2>5. s \in filled
    BY <1>0, <2>4 DEF Bytes
  <2> QED BY <1>0, <2>1, <2>5 DEF s
<1>5. CASE ~ Stage /\ f \in ready
  <2>1. pc \in After
    BY <1>5, AfterFrom, NoStageFails
  <2>2. s \in filled
    BY <1>0, <1>5, <2>1 DEF Bytes, s
  <2>3. s[1] \in valid' /\ ~ Finishing
    BY <1>0, <1>1, <1>2, <2>1, RoutedStep DEF Finishing, FinishQuiesce, After
  <2>4. s[1] \in valid
    BY <1>0, <1>1, <1>2, <2>1 DEF Books
  <2>5. s \in filled'
    BY <1>0, <1>2, <2>2, <2>3, <2>4, PagesKept
  <2> QED BY <1>0, <2>5 DEF s
<1>6. CASE ~ Stage /\ f \notin ready
  <2>1. PICK n \in Lane : BatchRead(n)
    BY <1>6, ReadyFrame, NoStageFails, NoReadFails
  <2> DEFINE t == lane[n].slice
  <2>2. t \in BatchSlices /\ ready' = ready \union {Flag(t)} /\ filled' = filled \union {t}
    BY <1>0, <2>1, LandingFacts DEF Batch, BatchRead
  <2> HIDE DEF t
  <2>3. pc \in After /\ f = Flag(t)
    BY <1>6, <2>2, AfterFrom, NoStageFails
  <2>4. t \in Slices(Routed)
    BY <2>2, <2>3 DEF Batch, BatchRouted
  <2>5. t = <<t[1], t[2]>> /\ t[1] = <<il, t[1][2]>>
    BY <2>4 DEF Slices, Routed
  <2>6. t = s
    BY <2>3, <2>5 DEF Flag, s
  <2> QED BY <1>0, <2>2, <2>6 DEF s
<1> QED BY <1>4, <1>5, <1>6

\* The sixth layer of the invariant is inductive.
LEMMA BytesInduction ==
  ASSUME SerialCommits, SerialReads
  PROVE  /\ Init => Bytes
         /\ Types /\ Listing /\ Speculation /\ Batch /\ Books /\ Bytes /\ [Next]_vars => Bytes'
<1>1. Init => Bytes
  BY DEF Init, Bytes, After, Slices
<1>2. ASSUME Types, Listing, Speculation, Batch, Books, Bytes, [Next]_vars PROVE Bytes'
  <2>1. ASSUME ~fatal', NEW s \in Slices(valid') PROVE s \in filled' \/ s \in BatchSlices' \/ Later(s)'
    BY <1>2, <2>1, ResidentBytes
  <2>2. ASSUME ~fatal', pc' \in After, overlap', NEW f \in ready', f[1] \in ToSet(ids')
        PROVE  <<<<il', f[1]>>, f[2]>> \in filled'
    BY <1>2, <2>2, FlagsStep
  <2> QED BY <2>1, <2>2 DEF Bytes, Later, Flag
<1> QED BY <1>1, <1>2

\* What the expert matmul may read is there.
LEMMA ConsumableIsThere ==
  ASSUME Types, Batch, Books, Bytes
  PROVE  MatmulSafe
<1> SUFFICES ASSUME NEW s \in Consumable PROVE s \in filled \intersect committed
  BY DEF MatmulSafe
<1>0. TypeOK /\ ~fatal /\ pc \in After /\ overlap \in BOOLEAN
  BY DEF Consumable, After, Types, TypeOK
<1>1. PICK f \in Routable : s = <<<<il, f[1]>>, f[2]>> /\ (overlap => f \in ready) /\ (~overlap => pc = "matmul")
  BY <1>0 DEF Consumable
<1>2. f = <<f[1], f[2]>> /\ f[1] \in ToSet(ids) /\ f[2] \in Proj
  BY <1>1 DEF Routable
<1>3. s[1] = <<il, f[1]>> /\ s[2] = f[2] /\ s[1] \in Routed /\ Flag(s) = f
  BY <1>1, <1>2 DEF Routed, Flag
<1>4. s \in Slices(valid)
  BY <1>0, <1>1, <1>2, <1>3 DEF Books, Slices
<1>5. ~ Later(s)
  BY <1>1, <1>3 DEF Later, Types, PlaceInv
<1>6. s \in committed
  BY <1>0, <1>4, <1>5 DEF Books
<1>7. s \in filled
  <2>1. CASE overlap
    BY <1>0, <1>1, <1>2, <2>1 DEF Bytes
  <2>2. CASE ~overlap
    <3>1. undone = 0 /\ pc # "inline"
      BY <1>1, <2>2 DEF Types, UndoneInv
    <3> QED BY <1>0, <1>4, <1>5, <3>1, NothingCounted DEF Bytes
  <2> QED BY <2>1, <2>2
<1> QED BY <1>6, <1>7

\* Whatever the expert matmul may read holds its bytes, as long as no failure was swallowed: a slice is
\* never consumed before its read landed, nor after its pages were given back (load_layer,
\* load_layer_async, on_expert_ready).
THEOREM Safe == ASSUME AdoptsCleanly, SerialCommits, SerialReads PROVE Spec => []MatmulSafe
<1> DEFINE I == Types /\ Listing /\ Speculation /\ Batch /\ Books /\ Bytes
<1>1. Init => I
  BY CoreInduction, BatchInduction, BooksInduction, BytesInduction
<1>2. I /\ [Next]_vars => I'
  BY CoreInduction, BatchInduction, BooksInduction, BytesInduction
<1>3. I => MatmulSafe
  BY ConsumableIsThere
<1> QED BY <1>1, <1>2, <1>3, PTL DEF Spec

\* Where a token may be cancelled, the budget is not changed: the budget set after a cancelled token
\* evicts what the lanes it left behind still write (MCExpertStreamCancelShrink shows it).
CancelKeeps == "cancel" \in Faults => \A b, c \in Budgets : b = c

\* Where a load leaves its batch.
Loading == After \union {"aborted", "stopping"}

\* What the batch reads is resident, stamped and committed; where no token is cancelled, nothing is read
\* for a batch between two loads.
Flight ==
    /\ BatchSlices \subseteq Slices(valid \intersect staged) \intersect committed
    /\ pc = "wave2" => Routed \subseteq valid \intersect staged
    /\ "cancel" \notin Faults /\ pc \notin Loading => BatchSlices = {}
    /\ pc = "off" => BatchSlices = {}

(***************************************************************************)
(* Seventh layer, Flight: what a lane writes is a committed page that no   *)
(* other lane writes.                                                      *)
(***************************************************************************)

\* How a load is left.
LEMMA LoadingFrom ==
  ASSUME Types, [Next]_vars, pc' \notin Loading
  PROVE  pc \notin Loading \/ (Matmul /\ ~fatal) \/ Cancel \/ Release
<1>0. pc \in Places
  BY DEF Types, TypeOK
<1>1. CASE \E n \in Lane : LaneStep(n)
  BY <1>1 DEF LaneStep, BatchPull, BatchRead, BatchReadFails, BatchCount, SpecPull, SpecRead,
     SpecReadFails, WorkerExit, where
<1>2. CASE Quiesce
  BY <1>2 DEF Quiesce, CancelSpec, FinishQuiesce, AdoptBegin, AdoptPull, AdoptEnd, Loading, After
<1>3. CASE Load
  BY <1>3 DEF Load, Stage, StageFails, StageSecondWave, SecondWaveFails, InlineRead, InlineReadFails,
     DrainEnd, Evict, Loading, After
<1>4. CASE Speculate
  BY <1>4 DEF Speculate, IssueSettle, Issue, NoIssue, Prefetch, where, Loading, After
<1>5. CASE Shrink
  BY <1>5 DEF Shrink, CancelSpec, FinishQuiesce, ShrinkTo, Loading, After
<1>6. CASE Matmul \/ OverlapOffJoin \/ Release
  BY <1>6 DEF Matmul, OverlapOffJoin, Loading, After
<1>7. CASE Start
  BY <1>7 DEF Start, BeginLoad, ShrinkBegin, Grow, OverlapOn, OverlapOff, Shutdown, Ended,
     BetweenDecodes, vars, where, Loading, After
<1>8. CASE UNCHANGED vars
  BY <1>8 DEF vars, where
<1> QED BY <1>1, <1>2, <1>3, <1>4, <1>5, <1>6, <1>7, <1>8 DEF Next, Continue

\* The teardown leaves no lane at a read of a batch, and no job.
LEMMA BatchOff ==
  ASSUME Types, Flight, [Next]_vars, pc' = "off"
  PROVE  BatchSlices' = {}
<1>1. CASE pc = "off"
  BY <1>1, BatchSlicesMove DEF Flight, Stage, StageSecondWave
<1>2. CASE Release
  <2>1. /\ pc = "stopping" /\ Joined /\ lane' = lane /\ jobs' = <<>> /\ overlap \in BOOLEAN
        /\ ~(overlap /\ lane0_stop)
    BY <1>2 DEF Release, threads, Types, TypeOK, PlaceInv
  <2>2. BatchLanes = {}
    <3>1. CASE overlap
      <4>1. Gone.doing # "batch"
        BY LaneRecords, Zenon
      <4> QED BY <2>1, <3>1, <4>1 DEF Joined, Served, BatchLanes
    <3>2. CASE ~overlap
      <4>1. undone = 0 /\ pc # "inline"
        BY <2>1, <3>2 DEF Types, UndoneInv
      <4> QED BY <4>1, NothingCounted
    <3> QED BY <2>1, <3>1, <3>2
  <2>3. LaneSlices("batch")' = {} /\ ToSet(<<>>) = {}
    BY <2>1, <2>2, ToSetFacts DEF LaneSlices, BatchLanes
  <2> QED BY <2>1, <2>3 DEF BatchSlices
<1> QED BY <1>1, <1>2, OffPlaces

\* Between two loads nothing is read for a batch.
LEMMA LoadingStep ==
  ASSUME Types, Batch, Flight, [Next]_vars, "cancel" \notin Faults, pc' \notin Loading
  PROVE  BatchSlices' = {}
<1>1. BatchSlices' \subseteq BatchSlices
  BY BatchSlicesMove, StageFacts, SecondFacts DEF Loading, After
<1>2. CASE Release
  BY <1>2, BatchOff DEF Release
<1>3. CASE Matmul /\ ~fatal
  <2>1. pc = "matmul" /\ overlap \in BOOLEAN /\ (overlap => (ToSet(ids) \X Proj) \subseteq ready)
    BY <1>3 DEF Matmul, MayConsume, Types, TypeOK
  <2>2. CASE overlap
    <3>1. BatchSlices \subseteq Slices(Routed) /\ \A s \in BatchSlices : Flag(s) \notin ready
      BY <2>1, <2>2 DEF Batch, BatchRouted, After
    <3>2. \A s \in Slices(Routed) : Flag(s) \in ToSet(ids) \X Proj
      BY DEF Slices, Routed, Flag
    <3>3. BatchSlices = {}
      BY <2>1, <2>2, <3>1, <3>2
    <3> QED BY <1>1, <3>3
  <2>3. CASE ~overlap
    <3>1. undone = 0 /\ pc # "inline"
      BY <2>1, <2>3 DEF Types, UndoneInv
    <3> QED BY <1>1, <3>1, NothingCounted
  <2> QED BY <2>1, <2>2, <2>3
<1>4. CASE pc \notin Loading
  BY <1>1, <1>4 DEF Flight
<1> QED BY <1>2, <1>3, <1>4, LoadingFrom DEF Cancel

\* Between the waves the routed entries stay resident and stamped.
LEMMA WaveStep ==
  ASSUME Types, Flight, [Next]_vars, pc' = "wave2"
  PROVE  Routed' \subseteq valid' \intersect staged'
<1>1. CASE Stage
  BY <1>1, StageFacts
<1>2. CASE ~ Stage
  <2>1. pc = "wave2" /\ Routed' = Routed
    BY <1>2, AfterFrom DEF After, StageFails, Routed
  <2>2. valid' = valid /\ staged' = staged
    BY <1>2, <2>1, CacheFrame, StagedFrame
       DEF AdoptEnd, StageFails, StageSecondWave, Evict, IssueSettle, FinishQuiesce, Issue, ShrinkTo
  <2> QED BY <2>1, <2>2 DEF Flight
<1> QED BY <1>1, <1>2

\* What the batch reads stays resident, stamped and committed.
LEMMA FlightStep ==
  ASSUME Types, Listing, Speculation, Batch, Flight, CancelKeeps, [Next]_vars, NEW s \in BatchSlices'
  PROVE  s \in Slices(valid' \intersect staged') /\ s \in committed'
<1>0. TypeOK /\ LruExact /\ pc' # "off" /\ ~ Release
  BY BatchOff DEF Types, Listing, Release
<1>1. CASE Stage
  <2>1. s \in (Routed \ valid) \X FirstWave /\ staged' = Routed /\ valid' = valid \union Routed
        /\ committed' = committed \union ((Routed \ valid) \X FirstWave)
    BY <1>1, StageFacts
  <2>2. FirstWave \subseteq Proj
    BY ProjSeqs, ToSetFacts DEF FirstWave
  <2> QED BY <2>1, <2>2 DEF Slices
<1>2. CASE StageSecondWave
  <2>1. /\ BatchSlices' = BatchSlices \union ({e \in Routed : <<e[2], 1>> \notin ready} \X (Proj \ {0}))
        /\ committed' = committed \union ({e \in Routed : <<e[2], 1>> \notin ready} \X Proj)
        /\ pc = "wave2"
    BY <1>2, SecondFacts
  <2>2. valid' = valid /\ staged' = staged
    BY <1>2 DEF StageSecondWave, cache
  <2> QED BY <2>1, <2>2 DEF Flight, Slices
<1>3. CASE ~ Stage /\ ~ StageSecondWave
  <2>1. s \in BatchSlices /\ s[1] \in valid /\ s[1] \in staged /\ s \in committed /\ s = <<s[1], s[2]>> /\ s[2] \in Proj
        /\ s \in Slice
    <3>1. s \in BatchSlices
      BY <1>3, BatchSlicesMove
    <3>2. s \in Slices(valid \intersect staged) /\ s \in committed
      BY <3>1 DEF Flight
    <3> QED BY <1>0, <3>1, <3>2 DEF Slices, TypeOK
  <2>2. pc \notin {"quiesce", "cancelled", "adopting", "stage", "joining"}
    BY <2>1, NothingLoading
  <2>3. ~ \E b \in Budgets : ShrinkTo(b)
    <3>1. ASSUME pc = "shrunk" PROVE FALSE
      <4>1. CASE "cancel" \in Faults
        <5>1. \E b \in Budgets : b < budget
          BY <3>1 DEF Types, PlaceInv
        <5>2. budget \in Budgets /\ budget \in Nat
          BY <1>0 DEF Types, PlaceInv, TypeOK
        <5> QED BY <4>1, <5>1, <5>2 DEF CancelKeeps
      <4>2. CASE "cancel" \notin Faults
        BY <2>1, <3>1, <4>2 DEF Flight, Loading, After
      <4> QED BY <4>1, <4>2
    <3> QED BY <3>1 DEF ShrinkTo
  <2>4. s[1] \in valid' /\ s[1] \in staged'
    <3>1. CASE Evict
      BY <1>0, <2>1, <3>1, EvictSpares DEF Evict
    <3>2. CASE Integrate
      <4>1. ToSet(Eligible) = ToSet(spec_done) \ (valid \union Pending)
        BY <1>0, MadeOfEntries
      <4> QED BY <2>1, <3>2, <4>1 DEF Integrate
    <3>3. CASE ~ Evict /\ ~ Integrate
      <4>1. valid' = valid
        BY <1>3, <2>2, <2>3, <3>3, CacheFrame DEF AdoptEnd, StageFails, IssueSettle, FinishQuiesce, Issue
      <4>2. staged' = staged
        BY <1>3, <2>2, <3>3, StagedFrame DEF AdoptEnd, StageFails, IssueSettle, FinishQuiesce
      <4> QED BY <2>1, <4>1, <4>2
    <3> QED BY <3>1, <3>2, <3>3
  <2>5. s[1] \notin Released
    <3>1. s[1] \notin Pending /\ s[1] \in Entry
      BY <2>1 DEF Speculation, ApartInv, Slice
    <3> QED BY <3>1 DEF Released, Pending
  <2>6. s \in committed'
    BY <1>0, <2>1, <2>4, <2>5, PagesKept
  <2> QED BY <2>1, <2>4, <2>6 DEF Slices
<1> QED BY <1>1, <1>2, <1>3

\* The seventh layer of the invariant is inductive.
LEMMA FlightInduction ==
  ASSUME CancelKeeps
  PROVE  /\ Init => Flight
         /\ Types /\ Listing /\ Speculation /\ Batch /\ Flight /\ [Next]_vars => Flight'
<1>1. ASSUME Init PROVE Flight
  <2>1. pc = "route" /\ jobs = <<>> /\ lane = [n \in Lane |-> Nobody]
    BY <1>1 DEF Init
  <2>2. Nobody.doing # "batch" /\ ToSet(<<>>) = {}
    BY LaneRecords, ToSetFacts, Zenon
  <2>3. LaneSlices("batch") = {}
    BY <2>1, <2>2 DEF LaneSlices
  <2> QED BY <2>1, <2>2, <2>3 DEF Flight, BatchSlices
<1>2. ASSUME Types, Listing, Speculation, Batch, Flight, [Next]_vars PROVE Flight'
  <2>1. BatchSlices' \subseteq Slices(valid' \intersect staged') \intersect committed'
    BY <1>2, FlightStep
  <2>2. pc' = "wave2" => Routed' \subseteq valid' \intersect staged'
    BY <1>2, WaveStep
  <2>3. ASSUME "cancel" \notin Faults, pc' \notin Loading PROVE BatchSlices' = {}
    BY <1>2, <2>3, LoadingStep
  <2>4. pc' = "off" => BatchSlices' = {}
    BY <1>2, BatchOff
  <2> QED BY <2>1, <2>2, <2>3, <2>4 DEF Flight, Slices
<1> QED BY <1>1, <1>2

\* What is read, or will be, is committed, and asked for once.
LEMMA FlightIsRight ==
  ASSUME Types, Listing, Speculation, Batch, Flight
  PROVE  InFlightCommitted /\ ReadOnce
<1>0. jobs \in Seq(Slice) /\ spec_jobs \in Seq(Slice)
  BY DEF Types, TypeOK
<1>1. SpecSlices \subseteq committed
  <2>1. CASE pc = "off"
    <3>1. InFlight = {} /\ spec_jobs = <<>>
      BY <2>1 DEF Speculation, OwingInv, Listing, QuietInv
    <3>2. LaneSlices("spec") = {} /\ ToSet(<<>>) = {}
      BY <3>1, ToSetFacts DEF LaneSlices, InFlight
    <3> QED BY <3>1, <3>2 DEF SpecSlices
  <2>2. CASE pc # "off"
    BY <2>2 DEF Speculation, OwedInv, OwingInv
  <2> QED BY <2>1, <2>2
<1>2. InFlightCommitted
  BY <1>1 DEF InFlightCommitted, Flight, BatchSlices, SpecSlices
<1>3. BatchSlices \intersect SpecSlices = {}
  BY DEF Flight, Speculation, OwedInv, ApartInv, Slices
<1> DEFINE queue == jobs \o spec_jobs
           busy == {n \in Lane : lane[n].doing \in {"batch", "spec"}}
<1>4. ToSet(queue) = ToSet(jobs) \union ToSet(spec_jobs) /\ IsInjective(queue)
  <2>1. IsInjective(jobs) /\ IsInjective(spec_jobs)
    BY DEF Batch, BatchOnce, Speculation, OnceInv
  <2>2. ToSet(jobs) \intersect ToSet(spec_jobs) = {}
    BY <1>3 DEF BatchSlices, SpecSlices
  <2> QED BY <1>0, <2>1, <2>2, ConcatFacts
<1>5. busy = BatchLanes \union InFlight
  BY DEF BatchLanes, InFlight
<1>6. /\ \A n \in BatchLanes : lane[n].slice \in BatchSlices
      /\ \A n \in InFlight : lane[n].slice \in SpecSlices
  BY DEF BatchSlices, SpecSlices, LaneSlices, BatchLanes, InFlight
<1> HIDE DEF queue, busy
<1>7. ASSUME NEW n \in busy PROVE lane[n].slice \notin ToSet(queue)
  <2>1. CASE n \in BatchLanes
    <3>1. lane[n].slice \notin ToSet(jobs)
      BY <2>1 DEF Batch, BatchOnce
    <3>2. lane[n].slice \notin ToSet(spec_jobs)
      BY <1>3, <1>6, <2>1 DEF SpecSlices
    <3> QED BY <1>4, <3>1, <3>2
  <2>2. CASE n \in InFlight
    <3>1. lane[n].slice \notin ToSet(spec_jobs)
      BY <2>2 DEF Speculation, OnceInv
    <3>2. lane[n].slice \notin ToSet(jobs)
      BY <1>3, <1>6, <2>2 DEF BatchSlices
    <3> QED BY <1>4, <3>1, <3>2
  <2> QED BY <1>5, <2>1, <2>2
<1>8. ASSUME NEW n \in busy, NEW m \in busy \ {n} PROVE lane[m].slice # lane[n].slice
  <2>1. CASE n \in BatchLanes /\ m \in BatchLanes
    BY <1>8, <2>1 DEF Batch, BatchOnce
  <2>2. CASE n \in InFlight /\ m \in InFlight
    BY <1>8, <2>2 DEF Speculation, OnceInv
  <2>3. CASE (n \in BatchLanes /\ m \in InFlight) \/ (n \in InFlight /\ m \in BatchLanes)
    BY <1>3, <1>6, <2>3
  <2> QED BY <1>5, <2>1, <2>2, <2>3
<1>9. ReadOnce
  BY <1>4, <1>7, <1>8 DEF ReadOnce, queue, busy
<1> QED BY <1>2, <1>9

\* The layers the lanes' reads rest on.
LEMMA FlightTogether ==
  ASSUME AdoptsCleanly, CancelKeeps
  PROVE  Spec => [](InFlightCommitted /\ ReadOnce)
<1> DEFINE I == Types /\ Listing /\ Speculation /\ Batch /\ Flight
<1>1. Init => I
  BY CoreInduction, BatchInduction, FlightInduction
<1>2. I /\ [Next]_vars => I'
  BY CoreInduction, BatchInduction, FlightInduction
<1>3. I => InFlightCommitted /\ ReadOnce
  BY FlightIsRight
<1> QED BY <1>1, <1>2, <1>3, PTL DEF Spec

\* No lane reads, or will read, into pages that were given back, whatever fails: the comments at
\* set_cache_budget and at the end of load_layer_async.
THEOREM FlightIsCommitted == ASSUME AdoptsCleanly, CancelKeeps PROVE Spec => []InFlightCommitted
BY FlightTogether, PTL

\* No slice is asked of the storage twice at once (quiesce_spec, adopt_layer, prefetch's filter).
THEOREM OneRead == ASSUME AdoptsCleanly, CancelKeeps PROVE Spec => []ReadOnce
BY FlightTogether, PTL

==============================================================================
