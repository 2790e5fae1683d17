-------------------------- MODULE DeviceArena_proofs --------------------------
(***************************************************************************)
(* Proofs about DeviceArena, for any number of layers, slots, experts,     *)
(* loaders, read failures and missed nodes.  What a decode answers rests   *)
(* on four facts kept together: the counts are the uploads queued or held; *)
(* only a window of layers as wide as the slots is asked for; what was     *)
(* waited for is quiet; what is asked and not yet passed is in place, in   *)
(* the queue or in a loader's hands.                                       *)
(***************************************************************************)
EXTENDS DeviceArena, FiniteSetTheorems, TLAPS

Active == at \in {"begin", "attn", "route", "experts", "end"}
\* Nobody will write an upload of S any more.
Quiet(S) == queue \cap S = {} /\ \A w \in Lanes : held[w] \notin S
\* The highest layer whose dense slot is asked for, the highest number of an expert slot.
Top == IF at = "end" THEN il + 2 ELSE il + 1
Ahead == Number(il) + NSlots - 1
\* The layers numbered below this one have been waited for at their routing.
Past == Number(IF at \in {"experts", "end"} THEN il + 1 ELSE il)
\* Layer l's dense slot has been waited for, or its routing node has been passed.
Due(l) == \/ l < il
          \/ l = il /\ at \in {"route", "experts", "end"}
          \/ l = il /\ at = "attn" /\ il \notin MoE
\* The upload is in its slot, or will be.
Covered(t) == t \in placed \/ t \in queue \/ \E w \in Lanes : held[w] = t /\ ~done[w]
\* The layer's attention runs on a dense slot nobody waited for: its routing node tells.
Missed == at = "attn" /\ il \in MoE /\ Weights[il] > 0 /\ il \notin dense_waited

\* What is queued or held has been asked for in this graph.
Asked == \A t \in Task : t \in queue \/ (\E w \in Lanes : held[w] = t) =>
             IF t.dense THEN t.k \in dense_scheduled ELSE t.e \in sched[t.k]
IdleBetween == at \in {"host", "device"} => in_flight = 0
DoneHeld == \A w \in Lanes : done[w] => held[w] # None
Window == Active => /\ \A k \in K : k > Ahead => sched[k] = {}
                    /\ \A l \in dense_scheduled : l <= Top
PassedQuiet == Active => \A k \in K : k < Past => Quiet(Uploads(k))
WaitedQuiet == Active => \A l \in dense_waited : /\ l \in dense_scheduled /\ l <= il
                                                 /\ Quiet(DenseUploads(l))
DueWaited == Active /\ ~failed => \A l \in Layer : Weights[l] > 0 /\ Due(l) => l \in dense_waited
ExpertsCovered == Active /\ ~failed =>
    \A k \in K : k >= Number(il) => \A t \in Of(k, sched[k]) : Covered(t)
DenseCovered == Active /\ ~failed =>
    \A l \in dense_scheduled : l > il \/ (l = il /\ at # "end") =>
        \A t \in DenseUploads(l) : Covered(t)
NodesAsked ==
    /\ at = "begin" => il = 0 /\ (HasDense => 0 \in dense_scheduled)
    /\ at = "end" => il + 1 \in dense_scheduled
    /\ at \in {"route", "experts"} => il \in MoE /\ used \subseteq sched[Number(il)]
Blamed ==
    /\ Active /\ wrong /\ ~failed => Missed
    /\ at \in {"stopped", "draining"} /\ answer = "ok" /\ wrong => failed
    /\ at \in {"host", "device"} /\ answer = "ok" => ~wrong
Yielding == /\ ~slots_held => OnDemand
            /\ OnDemand /\ slots_held => yielded = base
            /\ BudgetBack

Counting == /\ TypeOK /\ IsFiniteSet(queue) /\ CountsExact
            /\ Asked /\ IdleBetween /\ DoneHeld
Graph == Window /\ PassedQuiet /\ WaitedQuiet /\ NodesAsked
Bytes == DueWaited /\ ExpertsCovered /\ DenseCovered
\* What the answers rest on holds where a node that never came is noticed.
Answering == MissesNoticed => Bytes /\ Blamed

----------------------------------------------------------------------------
(***************************************************************************)
(* The operators of the model.                                             *)
(***************************************************************************)
\* What an upload is of.
LEMMA UploadFacts ==
    /\ \A t \in Task : \/ t.dense /\ t.k \in Layer /\ t \in DenseUploads(t.k)
                       \/ ~t.dense /\ t.k \in K /\ t \in Uploads(t.k)
    /\ \A k \in K : Uploads(k) \subseteq Task
    /\ \A k : \A t \in Uploads(k) : ~t.dense /\ t.k = k /\ t.e \in Expert
    /\ \A l \in Layer : DenseUploads(l) \subseteq Task
    /\ \A l \in Layer : \A t \in DenseUploads(l) : t.dense /\ t.k = l /\ Weights[l] > 0
<1>1. \A k : \A t \in Uploads(k) : ~t.dense /\ t.k = k /\ t.e \in Expert
  BY DEF Uploads
<1>2. \A l \in Layer : \A t \in DenseUploads(l) : t.dense /\ t.k = l /\ Weights[l] > 0
  <2>1. ASSUME NEW l \in Layer, NEW t \in DenseUploads(l)
        PROVE  t.dense /\ t.k = l /\ t.p \in 0..(Weights[l] - 1) /\ Weights[l] \in Nat
    BY ArenaAssumption DEF DenseUploads
  <2> QED
    BY <2>1
<1>3. /\ \A k \in K : Uploads(k) \subseteq Task
      /\ \A l \in Layer : DenseUploads(l) \subseteq Task
  BY DEF Task
<1>4. ASSUME NEW t \in Task
      PROVE  \/ t.dense /\ t.k \in Layer /\ t \in DenseUploads(t.k)
             \/ ~t.dense /\ t.k \in K /\ t \in Uploads(t.k)
  <2>1. CASE \E k \in K : t \in Uploads(k)
    BY <2>1, <1>1
  <2>2. CASE \E l \in Layer : t \in DenseUploads(l)
    BY <2>2, <1>2
  <2> QED
    BY <2>1, <2>2 DEF Task
<1> QED
  BY <1>1, <1>2, <1>3, <1>4

\* The numbers of the layers with experts, and how many there are.
LEMMA NumberFacts ==
    /\ Cardinality(MoE) \in Nat /\ Cardinality(MoE) <= Layers
    /\ Number(0) = 0
    /\ \A l \in Int : Number(l) \in Nat
    /\ \A l \in Int : l \in MoE => Number(l) \in K
    /\ \A l \in Int : Number(l + 1) = Number(l) + (IF l \in MoE THEN 1 ELSE 0)
<1> DEFINE Below(l) == {x \in MoE : x < l}
<1>1. \A l : IsFiniteSet(Below(l)) /\ Cardinality(Below(l)) \in Nat
             /\ Cardinality(Below(l)) <= Cardinality(MoE)
  BY ArenaAssumption, FS_Subset, FS_CardinalityType
<1>2. Cardinality(MoE) \in Nat /\ Cardinality(MoE) <= Layers
  <2>1. IsFiniteSet(Layer) /\ Cardinality(Layer) = Layers
    BY ArenaAssumption, FS_Interval DEF Layer
  <2> QED
    BY <2>1, ArenaAssumption, FS_Subset, FS_CardinalityType
<1>3. MoE \subseteq Int
  BY ArenaAssumption DEF Layer
<1>4. Below(0) = {}
  <2>1. \A x \in MoE : ~(x < 0)
    BY ArenaAssumption DEF Layer
  <2> QED
    BY <2>1
<1>5. ASSUME NEW l \in Int
      PROVE  Number(l + 1) = Number(l) + (IF l \in MoE THEN 1 ELSE 0)
  <2>1. CASE l \in MoE
    <3>1. (\A x \in MoE : x < l + 1 <=> x < l \/ x = l) /\ ~(l < l)
      BY <1>3
    <3>2. Below(l + 1) = Below(l) \cup {l} /\ l \notin Below(l)
      BY <2>1, <3>1
    <3> QED
      BY <3>2, <2>1, <1>1, FS_AddElement DEF Number
  <2>2. CASE l \notin MoE
    <3>1. \A x \in MoE : x < l + 1 <=> x < l
      BY <2>2, <1>3
    <3>2. Below(l + 1) = Below(l)
      BY <3>1
    <3> QED
      BY <3>2, <2>2, <1>1 DEF Number
  <2> QED
    BY <2>1, <2>2
<1>6. ASSUME NEW l \in Int, l \in MoE
      PROVE  Number(l) \in K
  <2>1. Below(l) # MoE /\ Below(l) \in SUBSET MoE
    BY <1>6
  <2>2. Cardinality(Below(l)) # Cardinality(MoE)
    BY <2>1, ArenaAssumption, FS_Subset
  <2> QED
    BY <2>2, <1>1, <1>2 DEF Number, K
<1> QED
  BY <1>1, <1>2, <1>4, <1>5, <1>6, FS_EmptySet DEF Number

\* A loader with nothing to do holds no upload.
LEMMA NoneIsNone == None \notin Task
<1> SUFFICES ASSUME None \in Task PROVE FALSE
  OBVIOUS
<1>1. None.k \in K
  BY UploadFacts DEF None
<1> QED
  BY <1>1, NumberFacts, ArenaAssumption DEF None, K

\* Two finite sets without a common element are counted one after the other.
LEMMA CountApart ==
    ASSUME NEW S, NEW T, IsFiniteSet(S), IsFiniteSet(T), S \cap T = {}
    PROVE  /\ IsFiniteSet(S \cup T)
           /\ Cardinality(S \cup T) = Cardinality(S) + Cardinality(T)
<1>1. Cardinality(S) \in Nat /\ Cardinality(T) \in Nat /\ Cardinality(S \cap T) = 0
  BY FS_CardinalityType, FS_EmptySet
<1>2. /\ IsFiniteSet(S \cup T)
      /\ Cardinality(S \cup T) = Cardinality(S) + Cardinality(T) - Cardinality(S \cap T)
  BY FS_Union
<1> QED
  BY <1>1, <1>2

\* A layer's uploads are finitely many; through the dense slots they are Weights[l].
LEMMA UploadsFinite ==
    /\ \A k \in K : IsFiniteSet(Uploads(k))
    /\ \A l \in Layer : IsFiniteSet(DenseUploads(l)) /\ Cardinality(DenseUploads(l)) = Weights[l]
<1>1. ASSUME NEW k \in K PROVE IsFiniteSet(Uploads(k))
  <2> DEFINE f == [x \in Proj \X Expert |-> [dense |-> FALSE, k |-> k, p |-> x[1], e |-> x[2]]]
  <2>1. IsFiniteSet(Proj) /\ IsFiniteSet(Expert)
    BY FS_Interval, ArenaAssumption DEF Proj, Expert
  <2>2. IsFiniteSet(Proj \X Expert)
    BY <2>1, FS_Product
  <2>3. f \in [Proj \X Expert -> Uploads(k)]
    BY DEF Uploads
  <2>4. \A t \in Uploads(k) : \E x \in Proj \X Expert : f[x] = t
    <3> TAKE t \in Uploads(k)
    <3>1. <<t.p, t.e>> \in Proj \X Expert
      BY DEF Uploads
    <3>2. f[<<t.p, t.e>>] = t
      BY <3>1 DEF Uploads
    <3> QED
      BY <3>1, <3>2
  <2>5. f \in Surjection(Proj \X Expert, Uploads(k))
    BY <2>3, <2>4 DEF Surjection
  <2> QED
    BY <2>2, <2>5, FS_Surjection
<1>2. ASSUME NEW l \in Layer
      PROVE  IsFiniteSet(DenseUploads(l)) /\ Cardinality(DenseUploads(l)) = Weights[l]
  <2> DEFINE I == 0..(Weights[l] - 1)
             f == [x \in I |-> [dense |-> TRUE, k |-> l, p |-> x, e |-> 0]]
  <2>1. Weights[l] \in Nat
    BY ArenaAssumption
  <2>2. IsFiniteSet(I) /\ Cardinality(I) = Weights[l]
    BY <2>1, FS_Interval
  <2>3. f \in [I -> DenseUploads(l)]
    BY DEF DenseUploads
  <2>4. \A t \in DenseUploads(l) : \E x \in I : f[x] = t
    <3> TAKE t \in DenseUploads(l)
    <3>1. t.p \in I /\ f[t.p] = t
      BY DEF DenseUploads
    <3> QED
      BY <3>1
  <2>5. \A x, y \in I : f[x] = f[y] => x = y
    OBVIOUS
  <2>6. f \in Surjection(I, DenseUploads(l)) /\ f \in Injection(I, DenseUploads(l))
    BY <2>3, <2>4, <2>5 DEF Surjection, Injection, IsInjective
  <2> QED
    BY <2>2, <2>6, FS_Surjection
<1> QED
  BY <1>1, <1>2

\* The loaders that hold an upload of S are finitely many.
LEMMA HeldFinite ==
    ASSUME NEW S
    PROVE  IsFiniteSet({w \in Lanes : held[w] \in S}) /\ Held(S) \in Nat
BY ArenaAssumption, FS_Subset, FS_CardinalityType DEF Held

----------------------------------------------------------------------------
(***************************************************************************)
(* Schedule and ScheduleDense, each alone and one after the other.         *)
(***************************************************************************)
\* What schedule() works on: the queue and what counts it.
St == [q : SUBSET Task, rem : [K -> Int], dense : [Layer -> Int], fl : Int,
       s : [K -> SUBSET Expert], ds : SUBSET Layer]
Counted(st) ==
    /\ IsFiniteSet(st.q)
    /\ \A k \in K : st.rem[k] = Cardinality(st.q \cap Uploads(k)) + Held(Uploads(k))
    /\ \A l \in Layer : st.dense[l] = Cardinality(st.q \cap DenseUploads(l)) + Held(DenseUploads(l))
    /\ st.fl = Cardinality(st.q) + Held(Task)
Claimed(st) == \A t \in Task : t \in st.q \/ (\E w \in Lanes : held[w] = t) =>
                   IF t.dense THEN t.k \in st.ds ELSE t.e \in st.s[t.k]
Sound(st) == st \in St /\ Counted(st) /\ Claimed(st)

\* From one state of the queue to another: what was there stays, what is new is of
\* the layers in ks and ls and is queued in full.
Grown(st, n, ks, ls) ==
    /\ st.q \subseteq n.q
    /\ \A t \in n.q \ st.q : IF t.dense THEN t.k \in ls \ st.ds ELSE t.k \in ks
    /\ \A k \in K : /\ st.s[k] \subseteq n.s[k]
                    /\ k \notin ks => n.s[k] = st.s[k]
                    /\ Of(k, n.s[k] \ st.s[k]) \subseteq n.q
    /\ st.ds \subseteq n.ds /\ n.ds \ st.ds \subseteq ls
    /\ \A l \in n.ds \ st.ds : DenseUploads(l) \subseteq n.q

\* Growing twice.
LEMMA GrownTwice ==
    ASSUME NEW a \in St, NEW b \in St, NEW c \in St, NEW ks, NEW ls, NEW ks2, NEW ls2,
           Grown(a, b, ks, ls), Grown(b, c, ks2, ls2)
    PROVE  Grown(a, c, ks \cup ks2, ls \cup ls2)
<1>1. a.q \subseteq c.q /\ a.ds \subseteq c.ds /\ c.ds \ a.ds \subseteq ls \cup ls2
  BY DEF Grown
<1>2. ASSUME NEW t \in c.q \ a.q
      PROVE  IF t.dense THEN t.k \in (ls \cup ls2) \ a.ds ELSE t.k \in ks \cup ks2
  <2>1. CASE t \in b.q
    BY <2>1 DEF Grown
  <2>2. CASE t \notin b.q
    BY <2>2 DEF Grown
  <2> QED
    BY <2>1, <2>2
<1>3. ASSUME NEW k \in K
      PROVE  /\ a.s[k] \subseteq c.s[k]
             /\ k \notin ks \cup ks2 => c.s[k] = a.s[k]
             /\ Of(k, c.s[k] \ a.s[k]) \subseteq c.q
  <2>1. a.s[k] \subseteq c.s[k] /\ (k \notin ks \cup ks2 => c.s[k] = a.s[k])
    BY DEF Grown
  <2>2. ASSUME NEW t \in Of(k, c.s[k] \ a.s[k])
        PROVE  t \in c.q
    <3>1. t \in Of(k, c.s[k] \ b.s[k]) \/ t \in Of(k, b.s[k] \ a.s[k])
      BY DEF Of
    <3> QED
      BY <3>1 DEF Grown
  <2> QED
    BY <2>1, <2>2
<1>4. ASSUME NEW l \in c.ds \ a.ds
      PROVE  DenseUploads(l) \subseteq c.q
  BY DEF Grown
<1> QED
  BY <1>1, <1>2, <1>3, <1>4 DEF Grown

\* A state of the queue grows into itself.
LEMMA GrownNot ==
    ASSUME NEW a \in St, NEW ks, NEW ls
    PROVE  Grown(a, a, ks, ls)
BY DEF Grown, Of

\* schedule(k, want) keeps the counts exact and asks for `want' of layer k.
LEMMA ScheduleSound ==
    ASSUME NEW st, Sound(st), NEW k, NEW want, k \in K => want \subseteq Expert
    PROVE  /\ Sound(Schedule(st, k, want))
           /\ Grown(st, Schedule(st, k, want), {k}, {})
           /\ k \in K => want \subseteq Schedule(st, k, want).s[k]
<1> USE DEF Sound
<1>1. CASE k \notin K
  BY <1>1, GrownNot DEF Schedule
<1>2. CASE k \in K
  <2> DEFINE add == Of(k, want \ st.s[k])
             n == [q |-> st.q \cup add,
                   rem |-> [st.rem EXCEPT ![k] = @ + Cardinality(add)],
                   dense |-> st.dense, fl |-> st.fl + Cardinality(add),
                   s |-> [st.s EXCEPT ![k] = @ \cup want], ds |-> st.ds]
  <2>1. Schedule(st, k, want) = n
    BY <1>2 DEF Schedule, St
  <2>2. add \subseteq Uploads(k) /\ add \subseteq Task
    BY <1>2, UploadFacts DEF Of
  <2>3. IsFiniteSet(add) /\ Cardinality(add) \in Nat
    BY <2>2, <1>2, UploadsFinite, FS_Subset, FS_CardinalityType
  <2>4. st.q \cap add = {}
    BY <2>2, <1>2, UploadFacts DEF Claimed, Of
  <2> HIDE DEF add
  <2>5. n \in St
    BY <2>2, <2>3, <1>2 DEF St
  <2>6. Counted(n)
    <3>1. IsFiniteSet(n.q) /\ Cardinality(n.q) = Cardinality(st.q) + Cardinality(add)
      BY <2>3, <2>4, CountApart DEF Counted
    <3>2. /\ Cardinality(st.q) \in Nat
          /\ \A S : IsFiniteSet(st.q \cap S) /\ Cardinality(st.q \cap S) \in Nat
      BY FS_CardinalityType, FS_Intersection DEF Counted
    <3>3. n.fl = Cardinality(n.q) + Held(Task)
      <4>1. Held(Task) \in Nat
        BY HeldFinite
      <4>2. n.fl = st.fl + (Cardinality(n.q) - Cardinality(st.q))
        BY <3>1, <3>2, <2>3 DEF St
      <4> QED
        BY <4>1, <4>2, <3>1, <3>2, <2>3 DEF Counted
    <3>4. ASSUME NEW j \in K
          PROVE  n.rem[j] = Cardinality(n.q \cap Uploads(j)) + Held(Uploads(j))
      <4>1. CASE j = k
        <5>1. n.q \cap Uploads(k) = (st.q \cap Uploads(k)) \cup add
          BY <2>2
        <5>2. Cardinality(n.q \cap Uploads(k)) = Cardinality(st.q \cap Uploads(k)) + Cardinality(add)
          BY <5>1, <3>2, <2>3, <2>4, CountApart
        <5>3. n.rem[k] = st.rem[k] + Cardinality(add)
          BY <1>2 DEF St
        <5>4. Held(Uploads(k)) \in Nat
          BY HeldFinite
        <5>5. Cardinality(st.q \cap Uploads(k)) \in Nat
          BY <3>2
        <5>6. st.rem[k] = Cardinality(st.q \cap Uploads(k)) + Held(Uploads(k))
          BY <1>2 DEF Counted
        <5>7. n.rem[k] = Cardinality(n.q \cap Uploads(k)) + Held(Uploads(k))
          BY <5>2, <5>3, <5>4, <5>5, <5>6, <2>3
        <5> QED
          BY <4>1, <5>7
      <4>2. CASE j # k
        <5>1. n.q \cap Uploads(j) = st.q \cap Uploads(j)
          BY <4>2, <2>2, UploadFacts
        <5>2. n.rem[j] = st.rem[j]
          BY <4>2 DEF St
        <5> QED
          BY <5>1, <5>2 DEF Counted
      <4> QED
        BY <4>1, <4>2
    <3>5. ASSUME NEW l \in Layer
          PROVE  n.dense[l] = Cardinality(n.q \cap DenseUploads(l)) + Held(DenseUploads(l))
      <4>1. n.q \cap DenseUploads(l) = st.q \cap DenseUploads(l)
        BY <2>2, UploadFacts
      <4> QED
        BY <4>1 DEF Counted
    <3> QED
      BY <3>1, <3>3, <3>4, <3>5 DEF Counted
  <2>7. Claimed(n)
    <3> SUFFICES ASSUME NEW t \in Task, t \in n.q \/ (\E w \in Lanes : held[w] = t)
                 PROVE  IF t.dense THEN t.k \in n.ds ELSE t.e \in n.s[t.k]
      BY DEF Claimed
    <3>1. CASE t \in add
      <4>1. ~t.dense /\ t.k = k /\ t.e \in want
        BY <3>1, UploadFacts DEF add, Of
      <4> QED
        BY <4>1, <1>2 DEF St
    <3>2. CASE t \notin add
      <4>1. IF t.dense THEN t.k \in st.ds ELSE t.e \in st.s[t.k]
        BY <3>2 DEF Claimed
      <4>2. ~t.dense => t.k \in K
        BY UploadFacts
      <4> QED
        BY <4>1, <4>2 DEF St
    <3> QED
      BY <3>1, <3>2
  <2>8. Grown(st, n, {k}, {})
    <3>1. \A t \in n.q \ st.q : ~t.dense /\ t.k = k
      BY <2>2, UploadFacts
    <3>2. \A j \in K : j # k => n.s[j] = st.s[j]
      BY DEF St
    <3>3. n.s[k] = st.s[k] \cup want /\ (n.s[k] \ st.s[k]) = want \ st.s[k]
      BY <1>2 DEF St
    <3>4. Of(k, n.s[k] \ st.s[k]) \subseteq n.q
      BY <3>3 DEF add
    <3>5. \A j \in K : j # k => Of(j, n.s[j] \ st.s[j]) = {}
      BY <3>2 DEF Of
    <3> QED
      BY <3>1, <3>2, <3>3, <3>4, <3>5 DEF Grown
  <2>9. want \subseteq n.s[k]
    BY <1>2 DEF St
  <2> QED
    BY <2>1, <2>5, <2>6, <2>7, <2>8, <2>9
<1> QED
  BY <1>1, <1>2

\* schedule_dense(l) keeps the counts exact and asks for layer l's other weights.
LEMMA ScheduleDenseSound ==
    ASSUME NEW st, Sound(st), NEW l
    PROVE  /\ Sound(ScheduleDense(st, l))
           /\ Grown(st, ScheduleDense(st, l), {}, {l})
           /\ HasDense /\ l \in Layer => l \in ScheduleDense(st, l).ds
<1> USE DEF Sound
<1>1. CASE ~HasDense \/ l \notin Layer \/ l \in st.ds
  BY <1>1, GrownNot DEF ScheduleDense
<1>2. CASE HasDense /\ l \in Layer /\ l \notin st.ds
  <2> DEFINE add == DenseUploads(l)
             n == [q |-> st.q \cup add, rem |-> st.rem,
                   dense |-> [st.dense EXCEPT ![l] = Weights[l]],
                   fl |-> st.fl + Weights[l], s |-> st.s, ds |-> st.ds \cup {l}]
  <2>1. ScheduleDense(st, l) = n
    BY <1>2 DEF ScheduleDense, St
  <2>2. add \subseteq Task /\ \A t \in add : t.dense /\ t.k = l
    BY <1>2, UploadFacts
  <2>3. IsFiniteSet(add) /\ Cardinality(add) = Weights[l] /\ Weights[l] \in Nat
    BY <1>2, UploadsFinite, ArenaAssumption
  <2>4. st.q \cap add = {} /\ \A w \in Lanes : held[w] \notin add
    BY <2>2, <1>2 DEF Claimed
  <2> HIDE DEF add
  <2>5. n \in St
    BY <2>2, <2>3, <1>2 DEF St
  <2>6. Counted(n)
    <3>1. IsFiniteSet(n.q) /\ Cardinality(n.q) = Cardinality(st.q) + Cardinality(add)
      BY <2>3, <2>4, CountApart DEF Counted
    <3>2. Cardinality(st.q) \in Nat
      BY FS_CardinalityType DEF Counted
    <3>3. n.fl = Cardinality(n.q) + Held(Task)
      <4>1. Held(Task) \in Nat
        BY HeldFinite
      <4>2. n.fl = st.fl + (Cardinality(n.q) - Cardinality(st.q))
        BY <3>1, <3>2, <2>3 DEF St
      <4> QED
        BY <4>1, <4>2, <3>1, <3>2, <2>3 DEF Counted
    <3>4. ASSUME NEW j \in K
          PROVE  n.rem[j] = Cardinality(n.q \cap Uploads(j)) + Held(Uploads(j))
      <4>1. n.q \cap Uploads(j) = st.q \cap Uploads(j)
        BY <2>2, UploadFacts
      <4> QED
        BY <4>1 DEF Counted
    <3>5. ASSUME NEW m \in Layer
          PROVE  n.dense[m] = Cardinality(n.q \cap DenseUploads(m)) + Held(DenseUploads(m))
      <4>1. CASE m = l
        <5>1. n.q \cap DenseUploads(l) = add
          BY <2>4 DEF add
        <5>2. Held(add) = 0
          <6>1. {w \in Lanes : held[w] \in add} = {}
            BY <2>4
          <6> QED
            BY <6>1, FS_EmptySet DEF Held
        <5>3. n.dense[l] = Weights[l]
          BY <1>2 DEF St
        <5>4. Cardinality(n.q \cap DenseUploads(l)) = Weights[l]
          BY <5>1, <2>3
        <5>5. Held(DenseUploads(l)) = 0
          BY <5>2 DEF add
        <5> QED
          BY <4>1, <5>3, <5>4, <5>5, <2>3
      <4>2. CASE m # l
        <5>1. n.q \cap DenseUploads(m) = st.q \cap DenseUploads(m)
          BY <4>2, <2>2, UploadFacts
        <5>2. n.dense[m] = st.dense[m]
          BY <4>2 DEF St
        <5> QED
          BY <5>1, <5>2 DEF Counted
      <4> QED
        BY <4>1, <4>2
    <3> QED
      BY <3>1, <3>3, <3>4, <3>5 DEF Counted
  <2>7. Claimed(n)
    <3> SUFFICES ASSUME NEW t \in Task, t \in n.q \/ (\E w \in Lanes : held[w] = t)
                 PROVE  IF t.dense THEN t.k \in n.ds ELSE t.e \in n.s[t.k]
      BY DEF Claimed
    <3>1. CASE t \in add
      BY <3>1, <2>2
    <3>2. CASE t \notin add
      <4>1. IF t.dense THEN t.k \in st.ds ELSE t.e \in st.s[t.k]
        BY <3>2 DEF Claimed
      <4> QED
        BY <4>1
    <3> QED
      BY <3>1, <3>2
  <2>8. Grown(st, n, {}, {l})
    <3>1. \A k \in K : Of(k, n.s[k] \ st.s[k]) = {}
      BY DEF Of
    <3> QED
      BY <3>1, <2>2, <1>2 DEF Grown, add
  <2> QED
    BY <2>1, <2>5, <2>6, <2>7, <2>8
<1> QED
  BY <1>1, <1>2

\* What is read before a layer routes is a set of experts.
LEMMA PredictedType ==
    ASSUME TypeOK, NEW k \in K
    PROVE  Predicted(k) \subseteq Expert
BY DEF TypeOK, Predicted

\* The queue as it stands is sound.
LEMMA StateSound == Counting => Sound(State)
<1> SUFFICES ASSUME Counting PROVE Sound(State)
  OBVIOUS
<1> USE DEF Counting
<1>1. State \in St
  BY DEF TypeOK, St, State
<1>2. Counted(State)
  BY DEF Counted, State, CountsExact, Queued
<1>3. Claimed(State)
  BY DEF Claimed, State, Asked
<1> QED
  BY <1>1, <1>2, <1>3 DEF Sound

\* With nothing in flight, nothing is queued and no loader holds anything.
LEMMA IdleQuiet ==
    ASSUME Counting, in_flight = 0
    PROVE  /\ queue = {} /\ \A w \in Lanes : held[w] = None /\ ~done[w]
           /\ \A k \in K : remaining[k] = 0
           /\ \A l \in Layer : dense_remaining[l] = 0
<1> USE DEF Counting
<1>1. Cardinality(queue) \in Nat /\ Held(Task) \in Nat
  BY HeldFinite, FS_CardinalityType
<1>2. Cardinality(queue) = 0 /\ Held(Task) = 0
  BY <1>1 DEF CountsExact
<1>3. queue = {}
  BY <1>2, FS_EmptySet
<1>4. {w \in Lanes : held[w] \in Task} = {}
  BY <1>2, HeldFinite, FS_EmptySet DEF Held
<1>5. \A w \in Lanes : held[w] = None /\ ~done[w]
  BY <1>4 DEF TypeOK, DoneHeld
<1>6. ASSUME NEW S, S \subseteq Task
      PROVE  Queued(S) = 0 /\ Held(S) = 0
  <2>1. queue \cap S = {} /\ {w \in Lanes : held[w] \in S} = {}
    BY <1>3, <1>4, <1>6
  <2> QED
    BY <2>1, FS_EmptySet DEF Queued, Held
<1>7. ASSUME NEW k \in K PROVE remaining[k] = 0
  <2>1. Queued(Uploads(k)) = 0 /\ Held(Uploads(k)) = 0
    BY <1>6, UploadFacts
  <2> QED
    BY <2>1 DEF CountsExact
<1>8. ASSUME NEW l \in Layer PROVE dense_remaining[l] = 0
  <2>1. Queued(DenseUploads(l)) = 0 /\ Held(DenseUploads(l)) = 0
    BY <1>6, UploadFacts
  <2> QED
    BY <2>1 DEF CountsExact
<1> QED
  BY <1>3, <1>5, <1>7, <1>8

\* A layer whose count is zero is quiet.
LEMMA CountedQuiet ==
    ASSUME Counting
    PROVE  /\ \A k \in K : remaining[k] = 0 => Quiet(Uploads(k))
           /\ \A l \in Layer : dense_remaining[l] = 0 => Quiet(DenseUploads(l))
<1> USE DEF Counting
<1>1. ASSUME NEW S, Queued(S) + Held(S) = 0
      PROVE  Quiet(S)
  <2>1. IsFiniteSet(queue \cap S) /\ Queued(S) \in Nat
    BY FS_Intersection, FS_CardinalityType DEF Queued
  <2>2. IsFiniteSet({w \in Lanes : held[w] \in S}) /\ Held(S) \in Nat
    BY HeldFinite
  <2>3. Queued(S) = 0 /\ Held(S) = 0
    BY <1>1, <2>1, <2>2
  <2>4. queue \cap S = {} /\ {w \in Lanes : held[w] \in S} = {}
    BY <2>1, <2>2, <2>3, FS_EmptySet DEF Queued, Held
  <2> QED
    BY <2>4 DEF Quiet
<1>2. ASSUME NEW k \in K, remaining[k] = 0 PROVE Quiet(Uploads(k))
  <2>1. Queued(Uploads(k)) + Held(Uploads(k)) = 0
    BY <1>2 DEF CountsExact
  <2> QED
    BY <2>1, <1>1
<1>3. ASSUME NEW l \in Layer, dense_remaining[l] = 0 PROVE Quiet(DenseUploads(l))
  <2>1. Queued(DenseUploads(l)) + Held(DenseUploads(l)) = 0
    BY <1>3 DEF CountsExact
  <2> QED
    BY <2>1, <1>1
<1> QED
  BY <1>2, <1>3

\* The queue a graph starts from, and what its start asks for.
Clear == [State EXCEPT !.s = [k \in K |-> {}], !.ds = {}]
LEMMA BeginAsks ==
    ASSUME Counting, at = "device"
    PROVE  LET n == FirstLayers(ScheduleDense(ScheduleDense(Clear, 0), 1))
           IN  /\ Sound(Clear) /\ Sound(n)
               /\ Grown(Clear, n, {0, NSlots - 1}, {0, 1})
               /\ HasDense => 0 \in n.ds
<1> DEFINE d0 == ScheduleDense(Clear, 0)
           d1 == ScheduleDense(d0, 1)
           f0 == Schedule(d1, 0, Predicted(0))
           n == FirstLayers(d1)
<1>1. queue = {} /\ \A w \in Lanes : held[w] = None
  BY IdleQuiet DEF Counting, IdleBetween
<1>2. Sound(Clear)
  <2>1. Clear \in St
    BY StateSound DEF Clear, Sound, St, State
  <2>2. Counted(Clear)
    BY StateSound DEF Clear, Sound, Counted, State
  <2>3. Claimed(Clear)
    BY <1>1, NoneIsNone DEF Claimed, Clear, State
  <2> QED
    BY <2>1, <2>2, <2>3 DEF Sound
<1>3. Sound(d0) /\ Grown(Clear, d0, {}, {0}) /\ (HasDense => 0 \in d0.ds)
  <2>1. 0 \in Layer
    BY ArenaAssumption DEF Layer
  <2> QED
    BY <1>2, <2>1, ScheduleDenseSound
<1>4. Sound(d1) /\ Grown(d0, d1, {}, {1})
  BY <1>3, ScheduleDenseSound
<1>5. Grown(Clear, d1, {}, {0, 1})
  <2>1. Grown(Clear, d1, {} \cup {}, {0} \cup {1})
    BY <1>2, <1>3, <1>4, GrownTwice DEF Sound
  <2>2. {} \cup {} = {} /\ {0} \cup {1} = {0, 1}
    OBVIOUS
  <2> QED
    BY <2>1, <2>2
<1>6. \A k \in K : Predicted(k) \subseteq Expert
  BY PredictedType DEF Counting
<1>7. Sound(f0) /\ Grown(d1, f0, {0}, {})
  BY <1>4, <1>6, ScheduleSound
<1>8. Sound(n) /\ Grown(d1, n, {0, NSlots - 1}, {})
  <2>1. CASE NSlots = 1
    <3>1. n = f0 /\ {0, NSlots - 1} = {0}
      BY <2>1 DEF FirstLayers
    <3> QED
      BY <3>1, <1>7
  <2>2. CASE NSlots = 2
    <3>1. n = Schedule(f0, 1, Predicted(1)) /\ {0, NSlots - 1} = {0} \cup {1}
      BY <2>2 DEF FirstLayers
    <3>2. Sound(n) /\ Grown(f0, n, {1}, {})
      BY <3>1, <1>6, <1>7, ScheduleSound
    <3>3. Grown(d1, n, {0} \cup {1}, {} \cup {})
      BY <1>4, <1>7, <3>2, GrownTwice DEF Sound
    <3> QED
      BY <3>1, <3>2, <3>3
  <2> QED
    BY <2>1, <2>2, ArenaAssumption
<1>9. Grown(Clear, n, {} \cup {0, NSlots - 1}, {0, 1} \cup {})
  BY <1>2, <1>4, <1>5, <1>8, GrownTwice DEF Sound
<1>10. {} \cup {0, NSlots - 1} = {0, NSlots - 1} /\ {0, 1} \cup {} = {0, 1}
  OBVIOUS
<1>11. d0.ds \subseteq d1.ds /\ d1.ds \subseteq n.ds
  BY <1>4, <1>8 DEF Grown
<1> QED
  BY <1>2, <1>3, <1>8, <1>9, <1>10, <1>11

\* What a routing node asks for: this layer's experts, and the next layer's where it has a slot.
LEMMA BarrierAsks ==
    ASSUME Counting, il \in MoE, NEW want \in SUBSET Expert, NEW whole
    PROVE  LET n == ReadAhead(Schedule(State, Number(il), want), Number(il) + 1, whole)
           IN  /\ Sound(n) /\ Grown(State, n, {Number(il), Ahead}, {})
               /\ want \subseteq n.s[Number(il)]
<1> DEFINE a == Schedule(State, Number(il), want)
           n == ReadAhead(a, Number(il) + 1, whole)
<1>1. Number(il) \in K
  BY NumberFacts, ArenaAssumption DEF Layer
<1>2. Sound(State) /\ Sound(a) /\ Grown(State, a, {Number(il)}, {}) /\ want \subseteq a.s[Number(il)]
  BY <1>1, StateSound, ScheduleSound
<1>3. CASE NSlots = 1 \/ Number(il) + 1 \notin K
  <2>1. n = a
    BY <1>3 DEF ReadAhead
  <2>2. Grown(State, n, {Number(il), Ahead}, {})
    BY <1>2, <2>1 DEF Grown
  <2> QED
    BY <1>2, <2>1, <2>2
<1>4. CASE NSlots # 1 /\ Number(il) + 1 \in K
  <2> DEFINE more == IF whole THEN Expert ELSE Predicted(Number(il) + 1)
  <2>1. n = Schedule(a, Number(il) + 1, more)
    BY <1>4 DEF ReadAhead
  <2>2. more \subseteq Expert
    BY <1>4, PredictedType DEF Counting
  <2>3. Sound(n) /\ Grown(a, n, {Number(il) + 1}, {})
    BY <1>2, <2>1, <2>2, ScheduleSound
  <2>4. {Number(il)} \cup {Number(il) + 1} = {Number(il), Ahead}
    BY <1>1, <1>4, ArenaAssumption DEF Ahead, K
  <2>5. Grown(State, n, {Number(il)} \cup {Number(il) + 1}, {} \cup {})
    BY <1>2, <2>3, GrownTwice DEF Sound
  <2>6. a.s[Number(il)] \subseteq n.s[Number(il)]
    BY <1>1, <2>3 DEF Grown
  <2> QED
    BY <1>2, <2>3, <2>4, <2>5, <2>6
<1> QED
  BY <1>3, <1>4

\* What a layer's last node asks for: the other weights of the next two.
LEMMA DenseBarrierAsks ==
    ASSUME Counting, il + 1 \in Layer, HasDense
    PROVE  LET n == ScheduleDense(ScheduleDense(State, il + 1), il + 2)
           IN  /\ Sound(n) /\ Grown(State, n, {}, {il + 1, il + 2})
               /\ il + 1 \in n.ds
<1> DEFINE a == ScheduleDense(State, il + 1)
           n == ScheduleDense(a, il + 2)
<1>1. Sound(State) /\ Sound(a) /\ Grown(State, a, {}, {il + 1}) /\ il + 1 \in a.ds
  BY StateSound, ScheduleDenseSound
<1>2. Sound(n) /\ Grown(a, n, {}, {il + 2})
  BY <1>1, ScheduleDenseSound
<1>3. Grown(State, n, {} \cup {}, {il + 1} \cup {il + 2})
  BY <1>1, <1>2, GrownTwice DEF Sound
<1>4. {} \cup {} = {} /\ {il + 1} \cup {il + 2} = {il + 1, il + 2}
  OBVIOUS
<1>5. il + 1 \in n.ds
  BY <1>1, <1>2 DEF Grown
<1> QED
  BY <1>2, <1>3, <1>4, <1>5

----------------------------------------------------------------------------
(***************************************************************************)
(* Types, and the counts.                                                  *)
(***************************************************************************)
\* A sound state of the queue, stored, is typed and counted.
LEMMA StoreSound ==
    ASSUME NEW n, Sound(n), Store(n), held' = held
    PROVE  /\ queue' \subseteq Task /\ remaining' \in [K -> Int]
           /\ dense_remaining' \in [Layer -> Int] /\ in_flight' \in Int
           /\ sched' \in [K -> SUBSET Expert] /\ dense_scheduled' \subseteq Layer
           /\ IsFiniteSet(queue') /\ CountsExact' /\ Asked'
<1>1. /\ queue' \subseteq Task /\ remaining' \in [K -> Int]
      /\ dense_remaining' \in [Layer -> Int] /\ in_flight' \in Int
      /\ sched' \in [K -> SUBSET Expert] /\ dense_scheduled' \subseteq Layer
  BY DEF Sound, St, Store
<1>2. \A S : Held(S)' = Held(S)
  BY DEF Held
<1>3. IsFiniteSet(queue') /\ CountsExact'
  <2>1. in_flight' = Cardinality(queue') + Held(Task)'
    BY <1>2 DEF Sound, Counted, Store
  <2>2. ASSUME NEW k \in K
        PROVE  remaining'[k] = Cardinality(queue' \cap Uploads(k)) + Held(Uploads(k))'
    BY <1>2 DEF Sound, Counted, Store
  <2>3. ASSUME NEW l \in Layer
        PROVE  dense_remaining'[l] = Cardinality(queue' \cap DenseUploads(l)) + Held(DenseUploads(l))'
    BY <1>2 DEF Sound, Counted, Store
  <2> QED
    BY <2>1, <2>2, <2>3 DEF CountsExact, Queued, Sound, Counted, Store
<1>4. Asked'
  BY DEF Sound, Claimed, Store, Asked
<1> QED
  BY <1>1, <1>3, <1>4

\* What is stored is the state of the queue from then on.
LEMMA StoredIs ==
    ASSUME NEW n, n \in St, Store(n)
    PROVE  State' = n
BY DEF St, State, Store

\* A new graph stores a sound queue: the first layers, and the first others.
LEMMA BeginStores ==
    ASSUME Counting, BeginGraph
    PROVE  /\ \E n : Sound(n) /\ Store(n)
           /\ Grown(Clear, State', {0, NSlots - 1}, {0, 1})
           /\ HasDense => 0 \in dense_scheduled'
<1> DEFINE n == FirstLayers(ScheduleDense(ScheduleDense(Clear, 0), 1))
<1>1. Store(n)
  BY DEF BeginGraph, Clear
<1>2. Sound(n) /\ Grown(Clear, n, {0, NSlots - 1}, {0, 1}) /\ (HasDense => 0 \in n.ds)
  BY BeginAsks DEF BeginGraph
<1> HIDE DEF n
<1>3. State' = n
  BY <1>1, <1>2, StoredIs DEF Sound
<1>4. dense_scheduled' = n.ds
  BY <1>1 DEF Store
<1> QED
  BY <1>1, <1>2, <1>3, <1>4

\* A routing node stores a sound queue: what its layer routed, and the next layer's.
LEMMA BarrierStores ==
    ASSUME Counting, Barrier
    PROVE  /\ \E n : Sound(n) /\ Store(n)
           /\ Grown(State, State', {Number(il), Ahead}, {})
           /\ used' \subseteq sched'[Number(il)]
<1>1. PICK es \in SUBSET Expert \ {{}} :
        /\ used' = es
        /\ IF Routed
           THEN Store(ReadAhead(Schedule(State, Number(il), es), Number(il) + 1,
                                Cardinality(es) > Full))
           ELSE Store(ReadAhead(Schedule(State, Number(il), Expert), Number(il) + 1, TRUE))
  BY DEF Barrier
<1>2. PICK n : /\ Store(n) /\ Sound(n) /\ Grown(State, n, {Number(il), Ahead}, {})
               /\ es \subseteq n.s[Number(il)]
  <2>1. CASE Routed
    BY <1>1, <2>1, BarrierAsks DEF Barrier
  <2>2. CASE ~Routed
    BY <1>1, <2>2, BarrierAsks DEF Barrier
  <2> QED
    BY <2>1, <2>2
<1>3. State' = n
  BY <1>2, StoredIs DEF Sound
<1>4. sched' = n.s
  BY <1>2 DEF Store
<1> QED
  BY <1>1, <1>2, <1>3, <1>4

\* A layer's last node stores a sound queue: the other weights of the next layers.
LEMMA DenseBarrierStores ==
    ASSUME Counting, DenseBarrier
    PROVE  /\ \E n : Sound(n) /\ Store(n)
           /\ Grown(State, State', {}, {il + 1, il + 2})
           /\ il + 1 \in dense_scheduled'
<1> DEFINE n == ScheduleDense(ScheduleDense(State, il + 1), il + 2)
<1>1. Store(n)
  BY DEF DenseBarrier
<1>2. Sound(n) /\ Grown(State, n, {}, {il + 1, il + 2}) /\ il + 1 \in n.ds
  BY DenseBarrierAsks DEF DenseBarrier
<1> HIDE DEF n
<1>3. State' = n
  BY <1>1, <1>2, StoredIs DEF Sound
<1>4. dense_scheduled' = n.ds
  BY <1>1 DEF Store
<1> QED
  BY <1>1, <1>2, <1>3, <1>4

\* All three store a sound queue and leave the loaders alone.
LEMMA AskingSound ==
    ASSUME Counting, BeginGraph \/ Barrier \/ DenseBarrier
    PROVE  \E n : Sound(n) /\ Store(n) /\ held' = held /\ done' = done /\ placed' = placed
<1>1. held' = held /\ done' = done /\ placed' = placed
  BY DEF BeginGraph, Barrier, DenseBarrier, loaders
<1> QED
  BY <1>1, BeginStores, BarrierStores, DenseBarrierStores

\* The initial states are typed.
LEMMA InitType == Init => TypeOK
<1> SUFFICES ASSUME Init PROVE TypeOK
  OBVIOUS
<1>1. 0 \in Layer
  BY ArenaAssumption DEF Layer
<1>2. slots_held \in BOOLEAN
  BY DEF Init
<1>3. budget \in Nat /\ yielded \in Nat /\ base \in Nat
  BY ArenaAssumption DEF Init
<1>4. /\ remaining \in [K -> Int] /\ dense_remaining \in [Layer -> Int]
      /\ sched \in [K -> SUBSET Expert] /\ prev \in [K -> SUBSET Expert]
      /\ held \in [Lanes -> Task \cup {None}] /\ done \in [Lanes -> BOOLEAN]
  BY DEF Init
<1>5. /\ used \subseteq Expert /\ queue \subseteq Task /\ placed \subseteq Task
      /\ dense_scheduled \subseteq Layer /\ dense_waited \subseteq Layer
      /\ failed \in BOOLEAN /\ on_device \in BOOLEAN /\ wrong \in BOOLEAN
  BY DEF Init
<1>6. /\ il \in Layer /\ in_flight \in Int /\ answer \in {"none", "ok", "failed"}
      /\ at \in {"host", "device", "begin", "attn", "route", "experts", "end", "stopped",
                  "draining"}
  BY <1>1 DEF Init
<1> QED
  BY <1>2, <1>3, <1>4, <1>5, <1>6 DEF TypeOK

\* Every step keeps the types.
LEMMA StepType == Counting /\ NodesAsked /\ [Next]_vars => TypeOK'
<1> SUFFICES ASSUME Counting, NodesAsked, [Next]_vars PROVE TypeOK'
  OBVIOUS
<1> USE DEF TypeOK
<1>a. TypeOK
  BY DEF Counting
<1>1. CASE PlaceOnDevice \/ Brake \/ \E hold \in BOOLEAN : PlaceOnHost(hold)
  <2>1. CASE PlaceOnDevice
    <3>1. slots_held' \in BOOLEAN /\ yielded' \in Nat /\ placed' \subseteq Task
      BY <2>1, <1>a DEF PlaceOnDevice
    <3>2. budget' \in Nat
      BY <2>1, <1>a, ArenaAssumption DEF PlaceOnDevice
    <3> QED
      BY <2>1, <1>a, <3>1, <3>2 DEF PlaceOnDevice, counts, marks, loaders
  <2>2. CASE Brake
    BY <2>2, <1>a DEF Brake, graph, counts, marks, loaders
  <2>3. CASE \E hold \in BOOLEAN : PlaceOnHost(hold)
    <3>1. PICK hold \in BOOLEAN : PlaceOnHost(hold)
      BY <2>3
    <3>2. CASE UNCHANGED <<slots_held, budget, yielded>>
      BY <3>1, <3>2, <1>a DEF PlaceOnHost, counts, marks, loaders
    <3>3. CASE slots_held' = FALSE /\ budget' = yielded /\ yielded' = 0
      BY <3>1, <3>3, <1>a DEF PlaceOnHost, counts, marks, loaders
    <3> QED
      BY <3>1, <3>2, <3>3 DEF PlaceOnHost
  <2> QED
    BY <1>1, <2>1, <2>2, <2>3
<1>2. CASE BeginGraph
  <2>1. PICK n : Sound(n) /\ Store(n)
    BY <1>2, BeginStores
  <2>2. held' = held
    BY <1>2 DEF BeginGraph, loaders
  <2>3. 0 \in Layer
    BY ArenaAssumption DEF Layer
  <2> QED
    BY <1>2, <2>1, <2>2, <2>3, <1>a, StoreSound DEF BeginGraph, loaders, placement
<1>3. CASE Begun
  <2>1. HasDense => 0 \in Layer
    BY ArenaAssumption DEF Layer
  <2> QED
    BY <1>3, <2>1, <1>a DEF Begun, Observe, counts, loaders, placement
<1>4. CASE Barrier
  <2>1. PICK es \in SUBSET Expert \ {{}} :
          used' = es /\ (prev' = [prev EXCEPT ![Number(il)] = es] \/ prev' = prev)
    BY <1>4 DEF Barrier
  <2>2. PICK n : Sound(n) /\ Store(n)
    BY <1>4, BarrierStores
  <2>3. held' = held
    BY <1>4 DEF Barrier, loaders
  <2>4. prev' \in [K -> SUBSET Expert]
    BY <2>1, <1>a
  <2> QED
    BY <1>4, <2>1, <2>2, <2>3, <2>4, <1>a, StoreSound DEF Barrier, Observe, loaders, placement
<1>5. CASE BarrierReturns \/ NextLayer \/ Stop \/ Answer
  BY <1>5, <1>a DEF BarrierReturns, NextLayer, Stop, Answer, Observe, counts, marks, loaders, placement
<1>6. CASE DenseBarrier
  <2>1. PICK n : Sound(n) /\ Store(n)
    BY <1>6, DenseBarrierStores
  <2>2. held' = held
    BY <1>6 DEF DenseBarrier, loaders
  <2> QED
    BY <1>6, <2>1, <2>2, <1>a, StoreSound DEF DenseBarrier, Observe, loaders, placement
<1>7. CASE DenseBarrierReturns
  BY <1>7, <1>a DEF DenseBarrierReturns, NodesAsked, Observe, counts, loaders, placement
<1>8. CASE EndGraph
  <2>1. /\ \A k \in K : Cardinality({t \in queue : ~t.dense /\ t.k = k}) \in Int
        /\ \A l \in Layer : Cardinality({t \in queue : t.dense /\ t.k = l}) \in Int
        /\ Cardinality(queue) \in Int
    BY FS_Subset, FS_CardinalityType DEF Counting
  <2>2. /\ remaining' \in [K -> Int] /\ dense_remaining' \in [Layer -> Int]
        /\ in_flight' \in Int
    BY <1>8, <2>1, <1>a DEF EndGraph
  <2> QED
    BY <1>8, <2>2, <1>a DEF EndGraph, marks, loaders, placement
<1>9. ASSUME NEW w \in Lanes, Loader(w) PROVE TypeOK'
  <2>1. CASE Take(w)
    BY <2>1, <1>a DEF Take, graph, counts, marks, placement
  <2>2. CASE Upload(w)
    BY <2>2, <1>a DEF Upload, Observe, graph, counts, marks, placement
  <2>3. CASE ReadFails(w)
    BY <2>3, <1>a DEF ReadFails, graph, counts, marks, placement
  <2>4. CASE CountDown(w)
    BY <2>4, <1>a DEF CountDown, graph, counts, marks, placement
  <2> QED
    BY <1>9, <2>1, <2>2, <2>3, <2>4 DEF Loader
<1>10. CASE UNCHANGED vars
  BY <1>10, <1>a DEF vars, graph, counts, marks, loaders, placement
<1> QED
  BY <1>1, <1>2, <1>3, <1>4, <1>5, <1>6, <1>7, <1>8, <1>9, <1>10 DEF Next, Session

\* The queued and the held uploads of a set are counted by natural numbers.
LEMMA CountTypes ==
    ASSUME IsFiniteSet(queue), NEW S
    PROVE  Queued(S) \in Nat /\ Held(S) \in Nat
BY HeldFinite, FS_Intersection, FS_CardinalityType DEF Queued

\* A loader that takes an upload moves it from the queue to its hands.
LEMMA TakeCounts ==
    ASSUME Counting, NEW w \in Lanes, NEW t \in queue, held[w] = None,
           held' = [held EXCEPT ![w] = t], queue' = queue \ {t}, NEW S, S \subseteq Task
    PROVE  (Queued(S) + Held(S))' = Queued(S) + Held(S)
<1> DEFINE H == {v \in Lanes : held[v] \in S}
           H1 == {v \in Lanes : held'[v] \in S}
<1>1. IsFiniteSet(queue \cap S) /\ IsFiniteSet(H) /\ w \notin H
  BY FS_Intersection, HeldFinite, NoneIsNone DEF Counting
<1>2. CASE t \in S
  <2>1. queue' \cap S = (queue \cap S) \ {t} /\ t \in queue \cap S
    BY <1>2
  <2>2. H1 = H \cup {w}
    BY <1>2 DEF Counting, TypeOK
  <2>3. Cardinality(queue' \cap S) = Cardinality(queue \cap S) - 1
    BY <1>1, <2>1, FS_RemoveElement
  <2>4. Cardinality(H1) = Cardinality(H) + 1
    BY <1>1, <2>2, FS_AddElement
  <2> QED
    BY <1>1, <2>3, <2>4, FS_CardinalityType DEF Queued, Held
<1>3. CASE t \notin S
  <2>1. queue' \cap S = queue \cap S
    BY <1>3
  <2>2. H1 = H
    BY <1>1, <1>3 DEF Counting, TypeOK
  <2> QED
    BY <2>1, <2>2 DEF Queued, Held
<1> QED
  BY <1>2, <1>3

\* A loader that counts down holds nothing any more.
LEMMA CountDownCounts ==
    ASSUME Counting, NEW w \in Lanes, held[w] # None, held' = [held EXCEPT ![w] = None],
           queue' = queue, NEW S, S \subseteq Task
    PROVE  (Queued(S) + Held(S))' = Queued(S) + Held(S) - (IF held[w] \in S THEN 1 ELSE 0)
<1> DEFINE H == {v \in Lanes : held[v] \in S}
           H1 == {v \in Lanes : held'[v] \in S}
<1>1. IsFiniteSet(queue \cap S) /\ IsFiniteSet(H) /\ None \notin S
  BY FS_Intersection, HeldFinite, NoneIsNone DEF Counting
<1>2. Cardinality(queue \cap S) \in Nat /\ Cardinality(H) \in Nat
  BY <1>1, FS_CardinalityType
<1>3. H1 = H \ {w}
  BY <1>1 DEF Counting, TypeOK
<1>4. Cardinality(H1) = Cardinality(H) - (IF held[w] \in S THEN 1 ELSE 0)
  BY <1>1, <1>2, <1>3, FS_RemoveElement
<1> QED
  BY <1>2, <1>4 DEF Queued, Held

\* Every step keeps the counts exact, and what is queued or held asked for.
LEMMA StepCounting == Counting /\ NodesAsked /\ [Next]_vars => Counting'
<1> SUFFICES ASSUME Counting, NodesAsked, [Next]_vars PROVE Counting'
  OBVIOUS
<1>t. TypeOK'
  BY StepType
<1>q. TypeOK /\ IsFiniteSet(queue) /\ CountsExact /\ Asked /\ IdleBetween /\ DoneHeld
  BY DEF Counting
<1>a. ASSUME queue' = queue, counts' = counts, sched' = sched,
             dense_scheduled' = dense_scheduled, held' = held
      PROVE  IsFiniteSet(queue') /\ CountsExact' /\ Asked'
  <2>1. CountsExact'
    BY <1>a, <1>q DEF CountsExact, Queued, Held, counts
  <2>2. Asked'
    BY <1>a, <1>q DEF Asked
  <2> QED
    BY <1>a, <1>q, <2>1, <2>2
<1>1. CASE \/ PlaceOnDevice \/ Brake \/ \E hold \in BOOLEAN : PlaceOnHost(hold)
           \/ Begun \/ BarrierReturns \/ DenseBarrierReturns \/ NextLayer \/ Stop \/ Answer
           \/ UNCHANGED vars
  <2>1. /\ queue' = queue /\ counts' = counts /\ sched' = sched
        /\ dense_scheduled' = dense_scheduled /\ held' = held /\ done' = done
    BY <1>1 DEF PlaceOnDevice, Brake, PlaceOnHost, Begun, BarrierReturns, DenseBarrierReturns,
       NextLayer, Stop, Answer, vars, loaders, marks, counts
  <2>2. DoneHeld'
    BY <2>1, <1>q DEF DoneHeld
  <2>3. in_flight' = in_flight
    BY <2>1 DEF counts
  <2>4. at' \in {"host", "device"} => at \in {"host", "device"} \/ in_flight = 0
    BY <1>1 DEF PlaceOnDevice, Brake, PlaceOnHost, Begun, BarrierReturns, DenseBarrierReturns,
       NextLayer, Stop, Answer, vars, graph
  <2>5. IdleBetween'
    BY <2>3, <2>4, <1>q DEF IdleBetween
  <2> QED
    BY <1>t, <1>a, <2>1, <2>2, <2>5 DEF Counting
<1>2. CASE BeginGraph \/ Barrier \/ DenseBarrier
  <2>1. PICK n : Sound(n) /\ Store(n) /\ held' = held /\ done' = done
    BY <1>2, AskingSound
  <2>2. IsFiniteSet(queue') /\ CountsExact' /\ Asked'
    BY <2>1, StoreSound
  <2>3. DoneHeld'
    BY <2>1, <1>q DEF DoneHeld
  <2>4. IdleBetween'
    BY <1>2 DEF IdleBetween, BeginGraph, Barrier, DenseBarrier
  <2> QED
    BY <1>t, <2>2, <2>3, <2>4 DEF Counting
<1>3. CASE EndGraph
  <2>1. queue' = {} /\ held' = held /\ done' = done /\ sched' = sched
        /\ dense_scheduled' = dense_scheduled /\ at' = "draining"
    BY <1>3 DEF EndGraph, loaders, marks
  <2>2. IsFiniteSet(queue') /\ Asked' /\ DoneHeld' /\ IdleBetween'
    BY <2>1, <1>q, FS_EmptySet DEF Asked, DoneHeld, IdleBetween
  <2>3. \A S : Queued(S)' = 0 /\ Held(S)' = Held(S)
    BY <2>1, FS_EmptySet DEF Queued, Held
  <2>4. ASSUME NEW k \in K
        PROVE  remaining'[k] = Queued(Uploads(k))' + Held(Uploads(k))'
    <3>1. {t \in queue : ~t.dense /\ t.k = k} = queue \cap Uploads(k)
      BY UploadFacts, <1>q DEF TypeOK
    <3>2. remaining'[k] = remaining[k] - Queued(Uploads(k))
      BY <1>3, <3>1 DEF EndGraph, Queued
    <3>3. Queued(Uploads(k)) \in Nat
      BY <1>q, FS_Intersection, FS_CardinalityType DEF Queued
    <3>4. Held(Uploads(k)) \in Nat
      BY HeldFinite
    <3>5. remaining[k] = Queued(Uploads(k)) + Held(Uploads(k))
      BY <1>q DEF CountsExact
    <3> QED
      BY <2>3, <3>2, <3>3, <3>4, <3>5
  <2>5. ASSUME NEW l \in Layer
        PROVE  dense_remaining'[l] = Queued(DenseUploads(l))' + Held(DenseUploads(l))'
    <3>1. {t \in queue : t.dense /\ t.k = l} = queue \cap DenseUploads(l)
      BY UploadFacts, <1>q DEF TypeOK
    <3>2. dense_remaining'[l] = dense_remaining[l] - Queued(DenseUploads(l))
      BY <1>3, <3>1 DEF EndGraph, Queued
    <3>3. Queued(DenseUploads(l)) \in Nat
      BY <1>q, FS_Intersection, FS_CardinalityType DEF Queued
    <3>4. Held(DenseUploads(l)) \in Nat
      BY HeldFinite
    <3>5. dense_remaining[l] = Queued(DenseUploads(l)) + Held(DenseUploads(l))
      BY <1>q DEF CountsExact
    <3> QED
      BY <2>3, <3>2, <3>3, <3>4, <3>5
  <2>6. in_flight' = Cardinality(queue') + Held(Task)'
    <3>1. Cardinality(queue) \in Nat /\ Cardinality(queue') = 0
      BY <2>1, <1>q, FS_CardinalityType, FS_EmptySet
    <3>2. Held(Task) \in Nat /\ Held(Task)' = Held(Task)
      BY <2>3, HeldFinite
    <3>3. in_flight' = in_flight - Cardinality(queue)
      BY <1>3 DEF EndGraph
    <3> QED
      BY <3>1, <3>2, <3>3, <1>q DEF CountsExact
  <2>7. CountsExact'
    BY <2>4, <2>5, <2>6 DEF CountsExact
  <2> QED
    BY <1>t, <2>2, <2>7 DEF Counting
<1>4. ASSUME NEW w \in Lanes, Loader(w) PROVE Counting'
  <2>i. IdleBetween => (held[w] = None /\ queue = {}) \/ at \notin {"host", "device"}
    BY IdleQuiet DEF IdleBetween
  <2>1. CASE Take(w)
    <3>1. PICK t \in queue : held' = [held EXCEPT ![w] = t] /\ queue' = queue \ {t}
      BY <2>1 DEF Take
    <3>2. /\ held[w] = None /\ counts' = counts /\ done' = done /\ sched' = sched
          /\ dense_scheduled' = dense_scheduled /\ at' = at
      BY <2>1 DEF Take, marks, graph
    <3>3. \A S \in SUBSET Task : Queued(S)' + Held(S)' = Queued(S) + Held(S)
      BY <3>1, <3>2, TakeCounts
    <3>4. IsFiniteSet(queue')
      BY <3>1, <1>q, FS_RemoveElement
    <3>5. CountsExact'
      <4>1. queue \cap Task = queue /\ queue' \cap Task = queue'
        BY <1>t, <1>q DEF TypeOK
      <4>2. in_flight' = Cardinality(queue') + Held(Task)'
        BY <4>1, <3>2, <3>3, <1>q DEF CountsExact, Queued, counts
      <4>3. /\ \A k \in K : remaining'[k] = Queued(Uploads(k))' + Held(Uploads(k))'
            /\ \A l \in Layer : dense_remaining'[l] = Queued(DenseUploads(l))' + Held(DenseUploads(l))'
        BY <3>2, <3>3, <1>q, UploadFacts DEF CountsExact, counts
      <4> QED
        BY <4>2, <4>3 DEF CountsExact
    <3>6. Asked'
      BY <3>1, <3>2, <1>q DEF Asked, TypeOK
    <3>7. DoneHeld'
      BY <3>1, <3>2, <1>q DEF DoneHeld, TypeOK
    <3>8. IdleBetween'
      BY <3>1, <3>2, <2>i, <1>q DEF IdleBetween
    <3> QED
      BY <1>t, <3>4, <3>5, <3>6, <3>7, <3>8 DEF Counting
  <2>2. CASE Upload(w) \/ ReadFails(w)
    <3>1. /\ held[w] # None /\ queue' = queue /\ counts' = counts /\ sched' = sched
          /\ dense_scheduled' = dense_scheduled /\ held' = held
          /\ done' = [done EXCEPT ![w] = TRUE] /\ at' = at
      BY <2>2, NoneIsNone, ArenaAssumption DEF Upload, ReadFails, marks, graph
    <3>2. DoneHeld' /\ IdleBetween'
      BY <3>1, <1>q DEF DoneHeld, IdleBetween, counts, TypeOK
    <3> QED
      BY <1>t, <1>a, <3>1, <3>2 DEF Counting
  <2>3. CASE CountDown(w)
    <3>1. /\ held[w] # None /\ held' = [held EXCEPT ![w] = None]
          /\ done' = [done EXCEPT ![w] = FALSE] /\ queue' = queue
          /\ sched' = sched /\ dense_scheduled' = dense_scheduled /\ at' = at
          /\ in_flight' = in_flight - 1
      BY <2>3 DEF CountDown, marks, graph
    <3>2. held[w] \in Task
      BY <3>1, <1>q DEF TypeOK
    <3>3. ASSUME NEW S, S \subseteq Task
          PROVE  Queued(S)' + Held(S)' = Queued(S) + Held(S) - (IF held[w] \in S THEN 1 ELSE 0)
      BY <3>1, <3>3, CountDownCounts
    <3>4. in_flight' = Cardinality(queue') + Held(Task)'
      <4>1. queue \cap Task = queue /\ queue' \cap Task = queue'
        BY <1>t, <1>q DEF TypeOK
      <4>2. Queued(Task)' + Held(Task)' = Queued(Task) + Held(Task) - 1
        <5>1. Queued(Task)' + Held(Task)'
                = Queued(Task) + Held(Task) - (IF held[w] \in Task THEN 1 ELSE 0)
          BY <3>3, Zenon
        <5> QED
          BY <5>1, <3>2
      <4>3. Queued(Task) \in Nat /\ Held(Task) \in Nat
        BY <1>q, CountTypes
      <4>4. Queued(Task) = Cardinality(queue) /\ Queued(Task)' = Cardinality(queue')
        BY <4>1 DEF Queued
      <4> QED
        BY <4>2, <4>3, <4>4, <3>1, <1>q DEF CountsExact
    <3>5. ASSUME NEW k \in K
          PROVE  remaining'[k] = Queued(Uploads(k))' + Held(Uploads(k))'
      <4>1. Queued(Uploads(k))' + Held(Uploads(k))'
              = remaining[k] - (IF held[w] \in Uploads(k) THEN 1 ELSE 0)
        <5>1. Uploads(k) \subseteq Task
          BY UploadFacts
        <5>2. Queued(Uploads(k))' + Held(Uploads(k))'
                = Queued(Uploads(k)) + Held(Uploads(k)) - (IF held[w] \in Uploads(k) THEN 1 ELSE 0)
          BY <3>3, <5>1, Zenon
        <5>3. Queued(Uploads(k)) \in Nat /\ Held(Uploads(k)) \in Nat
          BY <1>q, CountTypes
        <5>4. remaining[k] = Queued(Uploads(k)) + Held(Uploads(k))
          BY <1>q DEF CountsExact
        <5> QED
          BY <5>2, <5>3, <5>4
      <4>2. held[w] \in Uploads(k) <=> ~held[w].dense /\ held[w].k = k
        BY <3>2, UploadFacts
      <4>3. remaining'[k] = remaining[k] - (IF held[w] \in Uploads(k) THEN 1 ELSE 0)
        BY <2>3, <4>2, <1>q DEF CountDown, TypeOK
      <4> QED
        BY <4>1, <4>3
    <3>6. ASSUME NEW l \in Layer
          PROVE  dense_remaining'[l] = Queued(DenseUploads(l))' + Held(DenseUploads(l))'
      <4>1. Queued(DenseUploads(l))' + Held(DenseUploads(l))'
              = dense_remaining[l] - (IF held[w] \in DenseUploads(l) THEN 1 ELSE 0)
        <5>1. DenseUploads(l) \subseteq Task
          BY UploadFacts
        <5>2. Queued(DenseUploads(l))' + Held(DenseUploads(l))'
                = Queued(DenseUploads(l)) + Held(DenseUploads(l))
                    - (IF held[w] \in DenseUploads(l) THEN 1 ELSE 0)
          BY <3>3, <5>1, Zenon
        <5>3. Queued(DenseUploads(l)) \in Nat /\ Held(DenseUploads(l)) \in Nat
          BY <1>q, CountTypes
        <5>4. dense_remaining[l] = Queued(DenseUploads(l)) + Held(DenseUploads(l))
          BY <1>q DEF CountsExact
        <5> QED
          BY <5>2, <5>3, <5>4
      <4>2. held[w] \in DenseUploads(l) <=> held[w].dense /\ held[w].k = l
        BY <3>2, UploadFacts
      <4>3. dense_remaining'[l] = dense_remaining[l] - (IF held[w] \in DenseUploads(l) THEN 1 ELSE 0)
        BY <2>3, <4>2, <1>q DEF CountDown, TypeOK
      <4> QED
        BY <4>1, <4>3
    <3>7. CountsExact'
      BY <3>4, <3>5, <3>6 DEF CountsExact
    <3>8. Asked'
      BY <3>1, <1>q, NoneIsNone DEF Asked, TypeOK
    <3>9. DoneHeld'
      BY <3>1, <1>q DEF DoneHeld, TypeOK
    <3>10. IdleBetween'
      BY <3>1, <2>i, <1>q DEF IdleBetween
    <3> QED
      BY <1>t, <1>q, <3>1, <3>7, <3>8, <3>9, <3>10 DEF Counting
  <2> QED
    BY <1>4, <2>1, <2>2, <2>3 DEF Loader
<1> QED
  BY <1>1, <1>2, <1>3, <1>4 DEF Next, Session

----------------------------------------------------------------------------
(***************************************************************************)
(* What is asked for, what has been waited for.                            *)
(***************************************************************************)
\* The numbers of the layer the graph is in and of the next.
LEMMA HereFacts ==
    ASSUME TypeOK
    PROVE  /\ il \in Int /\ Number(il) \in Nat /\ Number(il + 1) \in Nat
           /\ il \in MoE => Number(il) \in K /\ Number(il + 1) = Number(il) + 1
           /\ il \notin MoE => Number(il + 1) = Number(il)
           /\ NSlots \in Int /\ Ahead \in Int /\ Top \in Int /\ Past \in Int
           /\ Number(il) <= Past
           /\ K \subseteq Nat /\ Layer \subseteq Nat
<1>1. il \in Int /\ Layer \subseteq Nat
  BY ArenaAssumption DEF TypeOK, Layer
<1>2. /\ Number(il) \in Nat /\ Number(il + 1) \in Nat
      /\ il \in MoE => Number(il) \in K /\ Number(il + 1) = Number(il) + 1
      /\ il \notin MoE => Number(il + 1) = Number(il)
  BY <1>1, NumberFacts
<1>3. K \subseteq Nat
  BY NumberFacts DEF K
<1> QED
  BY <1>1, <1>2, <1>3, ArenaAssumption DEF Ahead, Top, Past

\* A loader's step leaves what is quiet quiet.
LEMMA LoaderQuiet ==
    ASSUME Counting, NEW w \in Lanes, Loader(w), NEW S, S \subseteq Task, Quiet(S)
    PROVE  Quiet(S)'
<1>1. TypeOK /\ None \notin S
  BY NoneIsNone DEF Counting
<1>2. CASE Take(w)
  BY <1>1, <1>2 DEF Take, Quiet, TypeOK
<1>3. CASE Upload(w) \/ ReadFails(w)
  BY <1>3 DEF Upload, ReadFails, Quiet
<1>4. CASE CountDown(w)
  BY <1>1, <1>4 DEF CountDown, Quiet, TypeOK
<1> QED
  BY <1>2, <1>3, <1>4 DEF Loader

\* A loader's step changes nothing of the graph or of what it asked for.
LEMMA LoaderLeaves ==
    ASSUME NEW w \in Lanes, Loader(w)
    PROVE  /\ at' = at /\ il' = il /\ used' = used /\ answer' = answer
           /\ sched' = sched /\ dense_scheduled' = dense_scheduled
           /\ dense_waited' = dense_waited
           /\ ~failed' => failed' = failed
<1>1. CASE Take(w) \/ CountDown(w)
  BY <1>1 DEF Take, CountDown, graph, marks
<1>2. CASE Upload(w)
  BY <1>2 DEF Upload, graph, marks
<1>3. CASE ReadFails(w)
  BY <1>3 DEF ReadFails, graph, marks
<1> QED
  BY <1>1, <1>2, <1>3 DEF Loader

\* A step within a graph that asks for nothing.
Advance == Begun \/ BarrierReturns \/ DenseBarrierReturns \/ NextLayer
\* What it leaves alone.
LEMMA AdvanceLeaves ==
    ASSUME Advance
    PROVE  /\ queue' = queue /\ held' = held /\ done' = done /\ placed' = placed
           /\ sched' = sched /\ dense_scheduled' = dense_scheduled /\ failed' = failed
BY DEF Advance, Begun, BarrierReturns, DenseBarrierReturns, NextLayer, loaders, marks

\* What the two nodes leave alone; neither takes a refusal back.
LEMMA NodesLeave ==
    ASSUME Barrier \/ DenseBarrier
    PROVE  /\ il' = il /\ held' = held /\ done' = done /\ placed' = placed
           /\ Active /\ at # "end"
           /\ ~failed' => ~failed
<1>1. CASE Barrier
  <2>1. failed' = (failed \/ (HasDense /\ Weights[il] > 0 /\ il \notin dense_waited))
    BY <1>1 DEF Barrier
  <2>2. ~failed' => ~failed
    BY <2>1
  <2> QED
    BY <1>1, <2>2 DEF Barrier, Active, loaders
<1>2. CASE DenseBarrier
  BY <1>2 DEF DenseBarrier, Computed, Active, loaders
<1> QED
  BY <1>1, <1>2

\* A step outside a graph, or out of it.
Leave == \/ PlaceOnDevice \/ Brake \/ (\E hold \in BOOLEAN : PlaceOnHost(hold))
         \/ Stop \/ EndGraph \/ Answer
LEMMA LeaveIsOut ==
    ASSUME Leave
    PROVE  ~Active'
BY DEF Leave, PlaceOnDevice, Brake, PlaceOnHost, Stop, EndGraph, Answer, Active, graph

\* Every step is one of these.
LEMMA StepKinds ==
    ASSUME [Next]_vars
    PROVE  \/ Leave \/ BeginGraph \/ Barrier \/ DenseBarrier \/ Advance
           \/ \E w \in Lanes : Loader(w)
           \/ UNCHANGED vars
BY DEF Next, Session, Leave, Advance

\* The window of layers asked for moves with the graph.
LEMMA StepWindow ==
    ASSUME Counting, Graph, [Next]_vars, TypeOK'
    PROVE  Window'
<1> USE DEF Graph
<1>t. TypeOK
  BY DEF Counting
<1>1. CASE Leave
  BY <1>1, LeaveIsOut DEF Window
<1>2. CASE BeginGraph
  <2>1. Grown(Clear, State', {0, NSlots - 1}, {0, 1})
    BY <1>2, BeginStores
  <2>2. il' = 0 /\ at' = "begin" /\ Number(0) = 0
    BY <1>2, NumberFacts DEF BeginGraph
  <2>3. \A k \in K : k \notin {0, NSlots - 1} => sched'[k] = {}
    BY <2>1 DEF Grown, Clear, State
  <2>4. dense_scheduled' \subseteq {0, 1}
    BY <2>1 DEF Grown, Clear, State
  <2>5. Ahead' = NSlots - 1 /\ Top' = 1
    BY <2>2, ArenaAssumption DEF Ahead, Top
  <2> QED
    BY <2>3, <2>4, <2>5, ArenaAssumption DEF Window
<1>3. CASE Barrier
  <2>1. Grown(State, State', {Number(il), Ahead}, {})
    BY <1>3, BarrierStores
  <2>2. il' = il /\ at' = "route" /\ at = "attn"
    BY <1>3 DEF Barrier
  <2>3. \A k \in K : k \notin {Number(il), Ahead} => sched'[k] = sched[k]
    BY <2>1 DEF Grown, State
  <2>4. dense_scheduled' = dense_scheduled
    BY <2>1 DEF Grown, State
  <2>5. Ahead' = Ahead /\ Top' = Top
    BY <2>2 DEF Ahead, Top
  <2>6. Number(il) <= Ahead
    BY <1>t, HereFacts, ArenaAssumption DEF Ahead
  <2> QED
    BY <2>2, <2>3, <2>4, <2>5, <2>6, <1>t, HereFacts DEF Window, Active
<1>4. CASE DenseBarrier
  <2>1. Grown(State, State', {}, {il + 1, il + 2})
    BY <1>4, DenseBarrierStores
  <2>2. il' = il /\ at' = "end" /\ at \in {"attn", "experts"}
    BY <1>4 DEF DenseBarrier, Computed
  <2>3. \A k \in K : sched'[k] = sched[k]
    BY <2>1 DEF Grown, State
  <2>4. dense_scheduled' \subseteq dense_scheduled \cup {il + 1, il + 2}
    BY <2>1 DEF Grown, State
  <2>5. Ahead' = Ahead /\ Top' = il + 2 /\ Top = il + 1
    BY <2>2 DEF Ahead, Top
  <2>6. dense_scheduled \subseteq Int
    BY <1>t, HereFacts DEF TypeOK
  <2> QED
    BY <2>2, <2>3, <2>4, <2>5, <2>6, <1>t, HereFacts DEF Window, Active
<1>5. CASE Advance
  <2>1. sched' = sched /\ dense_scheduled' = dense_scheduled /\ Active
    BY <1>5, AdvanceLeaves DEF Advance, Begun, BarrierReturns, DenseBarrierReturns, NextLayer,
       Computed, Active
  <2>2. Ahead <= Ahead' /\ Top <= Top'
    <3>1. \/ il' = il /\ (at' = at \/ at # "end")
          \/ il' = il + 1 /\ at' # "end"
      BY <1>5 DEF Advance, Begun, BarrierReturns, DenseBarrierReturns, NextLayer, Computed
    <3>2. CASE il' = il /\ (at' = at \/ at # "end")
      BY <3>2, <1>t, HereFacts DEF Ahead, Top
    <3>3. CASE il' = il + 1 /\ at' # "end"
      BY <3>3, <1>t, HereFacts DEF Ahead, Top
    <3> QED
      BY <3>1, <3>2, <3>3
  <2>3. Ahead' \in Int /\ Top' \in Int
    <3>1. il' \in Int
      BY ArenaAssumption DEF TypeOK, Layer
    <3>2. Number(il') \in Int
      BY <3>1, NumberFacts
    <3> QED
      BY <3>1, <3>2, ArenaAssumption DEF Ahead, Top
  <2>4. dense_scheduled \subseteq Int
    BY <1>t, HereFacts DEF TypeOK
  <2> QED
    BY <2>1, <2>2, <2>3, <2>4, <1>t, HereFacts DEF Window
<1>6. CASE (\E w \in Lanes : Loader(w)) \/ UNCHANGED vars
  <2>1. at' = at /\ il' = il /\ sched' = sched /\ dense_scheduled' = dense_scheduled
    BY <1>6, LoaderLeaves DEF vars, graph, marks
  <2> QED
    BY <2>1 DEF Window, Active, Ahead, Top
<1> QED
  BY <1>1, <1>2, <1>3, <1>4, <1>5, <1>6, StepKinds

\* Where the graph goes on, the layer it leaves behind has been routed.
LEMMA ComputedPast ==
    ASSUME TypeOK, Computed, at \in {"attn", "experts"}
    PROVE  Past = Number(il + 1)
BY HereFacts DEF Computed, Past

\* What was waited for at a routing node stays quiet.
LEMMA StepPassed ==
    ASSUME Counting, Graph, [Next]_vars
    PROVE  PassedQuiet'
<1> USE DEF Graph
<1>t. TypeOK
  BY DEF Counting
<1>u. \A k \in K : Uploads(k) \subseteq Task
  BY UploadFacts
<1>1. CASE Leave
  BY <1>1, LeaveIsOut DEF PassedQuiet
<1>2. CASE BeginGraph
  <2>1. Past' = 0
    BY <1>2, NumberFacts DEF BeginGraph, Past
  <2> QED
    BY <2>1, <1>t, HereFacts DEF PassedQuiet
<1>3. CASE Barrier
  <2>1. Grown(State, State', {Number(il), Ahead}, {})
    BY <1>3, BarrierStores
  <2>2. il' = il /\ at' = "route" /\ at = "attn" /\ held' = held
    BY <1>3 DEF Barrier, loaders
  <2>3. Past' = Number(il) /\ Past = Number(il) /\ Number(il) <= Ahead
    BY <2>2, <1>t, HereFacts, ArenaAssumption DEF Past, Ahead
  <2>4. ASSUME NEW k \in K, k < Number(il)
        PROVE  Quiet(Uploads(k))'
    <3>1. Quiet(Uploads(k))
      BY <2>2, <2>3, <2>4 DEF PassedQuiet, Active
    <3>2. k # Number(il) /\ k # Ahead
      BY <2>3, <2>4, <1>t, HereFacts
    <3>3. \A t \in Uploads(k) : t \notin queue' \ queue
      BY <2>1, <3>2, UploadFacts DEF Grown, State
    <3> QED
      BY <3>1, <3>3, <2>2 DEF Quiet
  <2> QED
    BY <2>3, <2>4 DEF PassedQuiet
<1>4. CASE DenseBarrier
  <2>1. Grown(State, State', {}, {il + 1, il + 2})
    BY <1>4, DenseBarrierStores
  <2>2. il' = il /\ at' = "end" /\ at \in {"attn", "experts"} /\ held' = held /\ Computed
    BY <1>4 DEF DenseBarrier, Computed, loaders
  <2>3. Past' = Past
    BY <2>2, <1>t, ComputedPast DEF Past
  <2>4. ASSUME NEW k \in K, k < Past
        PROVE  Quiet(Uploads(k))'
    <3>1. Quiet(Uploads(k))
      BY <2>2, <2>4 DEF PassedQuiet, Active
    <3>2. \A t \in Uploads(k) : t \notin queue' \ queue
      BY <2>1, UploadFacts DEF Grown, State
    <3> QED
      BY <3>1, <3>2, <2>2 DEF Quiet
  <2> QED
    BY <2>3, <2>4 DEF PassedQuiet
<1>5. CASE Advance
  <2>1. queue' = queue /\ held' = held /\ Active
    BY <1>5, AdvanceLeaves DEF Advance, Begun, BarrierReturns, DenseBarrierReturns, NextLayer,
       Computed, Active
  <2>2. \A S : Quiet(S)' = Quiet(S)
    BY <2>1 DEF Quiet
  <2>3. CASE BarrierReturns
    <3>1. at = "route" /\ at' = "experts" /\ il' = il /\ remaining[Number(il)] = 0
      BY <2>3 DEF BarrierReturns
    <3>2. il \in MoE
      BY <3>1 DEF NodesAsked
    <3>3. Past = Number(il) /\ Past' = Number(il) + 1 /\ Number(il) \in K
      BY <3>1, <3>2, <1>t, HereFacts DEF Past
    <3>4. Quiet(Uploads(Number(il)))
      BY <3>1, <3>3, CountedQuiet
    <3>5. \A k \in K : k < Past' => k < Past \/ k = Number(il)
      BY <3>3, <1>t, HereFacts
    <3> QED
      BY <2>1, <2>2, <3>4, <3>5 DEF PassedQuiet
  <2>4. CASE Begun \/ DenseBarrierReturns \/ NextLayer
    <3>1. Past' = Past
      BY <2>4, <1>t, ComputedPast DEF Begun, DenseBarrierReturns, NextLayer, Past, Computed
    <3> QED
      BY <2>1, <2>2, <3>1 DEF PassedQuiet
  <2> QED
    BY <1>5, <2>3, <2>4 DEF Advance
<1>6. ASSUME NEW w \in Lanes, Loader(w) PROVE PassedQuiet'
  <2>1. at' = at /\ il' = il
    BY <1>6, LoaderLeaves
  <2>2. \A k \in K : Quiet(Uploads(k)) => Quiet(Uploads(k))'
    BY <1>6, <1>u, LoaderQuiet
  <2> QED
    BY <2>1, <2>2 DEF PassedQuiet, Active, Past
<1>7. CASE UNCHANGED vars
  BY <1>7 DEF PassedQuiet, Active, Past, Quiet, vars, graph, loaders
<1> QED
  BY <1>1, <1>2, <1>3, <1>4, <1>5, <1>6, <1>7, StepKinds

\* What was waited for at a layer's last node stays quiet.
LEMMA StepWaited ==
    ASSUME Counting, Graph, [Next]_vars
    PROVE  WaitedQuiet'
<1> USE DEF Graph
<1>t. TypeOK
  BY DEF Counting
<1>u. \A l \in Layer : DenseUploads(l) \subseteq Task
  BY UploadFacts
<1>w. dense_waited \subseteq Layer /\ Layer \subseteq Int /\ il \in Int
  BY <1>t, HereFacts DEF TypeOK
<1>1. CASE Leave
  BY <1>1, LeaveIsOut DEF WaitedQuiet
<1>2. CASE BeginGraph
  BY <1>2 DEF BeginGraph, WaitedQuiet
<1>3. CASE Barrier \/ DenseBarrier
  <2>1. PICK ks, ls : Grown(State, State', ks, ls)
    BY <1>3, BarrierStores, DenseBarrierStores
  <2>2. il' = il /\ dense_waited' = dense_waited /\ held' = held /\ Active
    BY <1>3 DEF Barrier, DenseBarrier, Computed, Active, loaders
  <2>3. ASSUME NEW l \in dense_waited
        PROVE  l \in dense_scheduled' /\ l <= il' /\ Quiet(DenseUploads(l))'
    <3>1. l \in dense_scheduled /\ l <= il /\ Quiet(DenseUploads(l))
      BY <2>2 DEF WaitedQuiet
    <3>2. l \in dense_scheduled'
      BY <2>1, <3>1 DEF Grown, State
    <3>3. \A t \in DenseUploads(l) : t \notin queue' \ queue
      BY <2>1, <3>1, <1>w, UploadFacts DEF Grown, State
    <3>4. Quiet(DenseUploads(l))'
      BY <2>2, <3>1, <3>3 DEF Quiet
    <3> QED
      BY <2>2, <3>1, <3>2, <3>4
  <2> QED
    BY <2>2, <2>3 DEF WaitedQuiet
<1>5. CASE Advance
  <2>1. queue' = queue /\ held' = held /\ dense_scheduled' = dense_scheduled /\ Active
    BY <1>5, AdvanceLeaves DEF Advance, Begun, BarrierReturns, DenseBarrierReturns, NextLayer,
       Computed, Active
  <2>2. \A S : Quiet(S)' = Quiet(S)
    BY <2>1 DEF Quiet
  <2>3. CASE Begun
    <3>1. il = 0 /\ il' = 0 /\ dense_waited' = (IF HasDense THEN {0} ELSE {})
          /\ (HasDense => dense_remaining[0] = 0 /\ 0 \in dense_scheduled)
      BY <2>3 DEF Begun, NodesAsked
    <3>2. HasDense => Quiet(DenseUploads(0))
      BY <3>1, <1>t, CountedQuiet DEF TypeOK
    <3> QED
      BY <2>1, <2>2, <3>1, <3>2 DEF WaitedQuiet
  <2>4. CASE DenseBarrierReturns
    <3>1. /\ il' = il + 1 /\ dense_waited' = dense_waited \cup {il + 1}
          /\ dense_remaining[il + 1] = 0 /\ il + 1 \in dense_scheduled
      BY <2>4 DEF DenseBarrierReturns, NodesAsked
    <3>2. Quiet(DenseUploads(il + 1))
      BY <3>1, <1>t, CountedQuiet DEF TypeOK
    <3> QED
      BY <2>1, <2>2, <3>1, <3>2, <1>w DEF WaitedQuiet
  <2>5. CASE BarrierReturns \/ NextLayer
    <3>1. dense_waited' = dense_waited /\ il <= il'
      BY <2>5, <1>w DEF BarrierReturns, NextLayer, marks
    <3>2. il' \in Int
      BY <2>5, <1>w DEF BarrierReturns, NextLayer
    <3> QED
      BY <2>1, <2>2, <3>1, <3>2, <1>w DEF WaitedQuiet
  <2> QED
    BY <1>5, <2>3, <2>4, <2>5 DEF Advance
<1>6. ASSUME NEW w \in Lanes, Loader(w) PROVE WaitedQuiet'
  <2>1. /\ at' = at /\ il' = il /\ dense_waited' = dense_waited
        /\ dense_scheduled' = dense_scheduled
    BY <1>6, LoaderLeaves
  <2>2. \A l \in Layer : Quiet(DenseUploads(l)) => Quiet(DenseUploads(l))'
    BY <1>6, <1>u, LoaderQuiet
  <2> QED
    BY <2>1, <2>2, <1>w DEF WaitedQuiet, Active
<1>7. CASE UNCHANGED vars
  BY <1>7 DEF WaitedQuiet, Active, Quiet, vars, graph, loaders, marks
<1> QED
  BY <1>1, <1>2, <1>3, <1>5, <1>6, <1>7, StepKinds

\* What a node waits for, or the device reads, has been asked for.
LEMMA StepNodes ==
    ASSUME Counting, Graph, [Next]_vars
    PROVE  NodesAsked'
<1> USE DEF Graph
<1>1. CASE Leave
  BY <1>1, LeaveIsOut DEF NodesAsked, Active
<1>2. CASE BeginGraph
  BY <1>2, BeginStores DEF BeginGraph, NodesAsked
<1>3. CASE Barrier
  BY <1>3, BarrierStores DEF Barrier, NodesAsked
<1>4. CASE DenseBarrier
  BY <1>4, DenseBarrierStores DEF DenseBarrier, NodesAsked
<1>5. CASE Advance
  <2>1. CASE Begun \/ DenseBarrierReturns \/ NextLayer
    BY <2>1 DEF Begun, DenseBarrierReturns, NextLayer, NodesAsked
  <2>2. CASE BarrierReturns
    BY <2>2 DEF BarrierReturns, NodesAsked, marks
  <2> QED
    BY <1>5, <2>1, <2>2 DEF Advance
<1>6. CASE (\E w \in Lanes : Loader(w)) \/ UNCHANGED vars
  <2>1. /\ at' = at /\ il' = il /\ used' = used /\ sched' = sched
        /\ dense_scheduled' = dense_scheduled
    BY <1>6, LoaderLeaves DEF vars, graph, marks
  <2> QED
    BY <2>1 DEF NodesAsked
<1> QED
  BY <1>1, <1>2, <1>3, <1>4, <1>5, <1>6, StepKinds

\* Unless the graph is refused, every layer it has passed was waited for.
LEMMA StepDue ==
    ASSUME MissesNoticed, Counting, Graph, DueWaited, [Next]_vars
    PROVE  DueWaited'
<1> USE DEF Graph
<1>t. TypeOK /\ il \in Int /\ Layer \subseteq Nat
  BY HereFacts DEF Counting
<1>1. CASE Leave
  BY <1>1, LeaveIsOut DEF DueWaited
<1>2. CASE BeginGraph
  <2>1. at' = "begin" /\ il' = 0
    BY <1>2 DEF BeginGraph
  <2> QED
    BY <2>1, <1>t DEF DueWaited, Due
<1>3. CASE Barrier
  <2>1. /\ at = "attn" /\ at' = "route" /\ il' = il /\ dense_waited' = dense_waited
        /\ failed' = (failed \/ (HasDense /\ Weights[il] > 0 /\ il \notin dense_waited))
    BY <1>3 DEF Barrier
  <2>2. ASSUME ~failed', NEW l \in Layer, Weights[l] > 0, Due(l)'
        PROVE  l \in dense_waited'
    <3>1. HasDense
      BY <2>2 DEF HasDense
    <3>2. l < il \/ l = il
      BY <2>1, <2>2 DEF Due
    <3>3. CASE l < il
      BY <2>1, <2>2, <3>3 DEF DueWaited, Due, Active
    <3>4. CASE l = il
      BY <2>1, <2>2, <3>1, <3>4
    <3> QED
      BY <3>2, <3>3, <3>4
  <2> QED
    BY <2>2 DEF DueWaited
<1>4. CASE DenseBarrier
  <2>1. /\ at \in {"attn", "experts"} /\ at' = "end" /\ il' = il /\ Computed
        /\ dense_waited' = dense_waited /\ failed' = failed
    BY <1>4 DEF DenseBarrier, Computed
  <2>2. \A l \in Layer : Due(l)' => Due(l)
    BY <2>1 DEF Due, Computed
  <2> QED
    BY <2>1, <2>2 DEF DueWaited, Active
<1>5. CASE Advance
  <2>0. failed' = failed /\ Active
    BY <1>5, AdvanceLeaves DEF Advance, Begun, BarrierReturns, DenseBarrierReturns, NextLayer,
       Computed, Active
  <2>1. CASE Begun
    <3>1. /\ il = 0 /\ il' = 0 /\ at' = "attn"
          /\ dense_waited' = IF HasDense THEN {0} ELSE {}
      BY <2>1 DEF Begun, NodesAsked
    <3> QED
      BY <3>1, <1>t DEF DueWaited, Due, HasDense
  <2>2. CASE BarrierReturns
    <3>1. at = "route" /\ at' = "experts" /\ il' = il /\ dense_waited' = dense_waited
      BY <2>2 DEF BarrierReturns, marks
    <3> QED
      BY <2>0, <3>1 DEF DueWaited, Due
  <2>3. CASE DenseBarrierReturns
    <3>1. /\ at = "end" /\ at' = "attn" /\ il' = il + 1
          /\ dense_waited' = dense_waited \cup {il + 1}
      BY <2>3 DEF DenseBarrierReturns
    <3>2. \A l \in Layer : Due(l)' => Due(l) \/ l = il + 1
      BY <3>1, <1>t DEF Due
    <3> QED
      BY <2>0, <3>1, <3>2 DEF DueWaited
  <2>4. CASE NextLayer
    <3>1. /\ at \in {"attn", "experts"} /\ at' = "attn" /\ il' = il + 1 /\ Computed
          /\ dense_waited' = dense_waited /\ (HasDense => il \in Misses)
      BY <2>4 DEF NextLayer, Computed, marks
    <3>2. HasDense /\ il + 1 \in Layer /\ Weights[il + 1] > 0 => il + 1 \in MoE
      BY <3>1 DEF MissesNoticed
    <3>3. \A l \in Layer : Weights[l] > 0 /\ Due(l)' => Due(l) \/ (l = il + 1 /\ ~HasDense)
      BY <3>1, <3>2, <1>t DEF Due, Computed
    <3> QED
      BY <2>0, <3>1, <3>3 DEF DueWaited, HasDense
  <2> QED
    BY <1>5, <2>1, <2>2, <2>3, <2>4 DEF Advance
<1>6. CASE (\E w \in Lanes : Loader(w)) \/ UNCHANGED vars
  <2>1. at' = at /\ il' = il /\ dense_waited' = dense_waited /\ (~failed' => ~failed)
    BY <1>6, LoaderLeaves DEF vars, graph, marks
  <2> QED
    BY <2>1 DEF DueWaited, Active, Due
<1> QED
  BY <1>1, <1>2, <1>3, <1>4, <1>5, <1>6, StepKinds

----------------------------------------------------------------------------
(***************************************************************************)
(* What is asked for and not yet passed is in place, or will be.           *)
(***************************************************************************)
\* A loader's step other than an upload or a failure loses nothing.
LEMMA CoveredStep ==
    ASSUME Counting, NEW w \in Lanes, Take(w) \/ CountDown(w), NEW t \in Task, Covered(t)
    PROVE  Covered(t)'
<1>1. TypeOK /\ DoneHeld /\ t # None
  BY NoneIsNone DEF Counting
<1>2. CASE Take(w)
  <2>1. PICK u \in queue : held' = [held EXCEPT ![w] = u] /\ queue' = queue \ {u}
    BY <1>2 DEF Take
  <2>2. held[w] = None /\ done' = done /\ placed' = placed /\ ~done[w]
    BY <1>1, <1>2 DEF Take, DoneHeld
  <2>3. \A v \in Lanes : v # w => held'[v] = held[v]
    BY <2>1, <1>1 DEF TypeOK
  <2>4. held'[w] = u
    BY <2>1, <1>1 DEF TypeOK
  <2> QED
    BY <1>1, <2>1, <2>2, <2>3, <2>4 DEF Covered
<1>3. CASE CountDown(w)
  <2>1. /\ held' = [held EXCEPT ![w] = None] /\ done' = [done EXCEPT ![w] = FALSE]
        /\ done[w] /\ queue' = queue /\ placed' = placed
    BY <1>3 DEF CountDown
  <2>2. \A v \in Lanes : v # w => held'[v] = held[v] /\ done'[v] = done[v]
    BY <2>1, <1>1 DEF TypeOK
  <2> QED
    BY <2>1, <2>2 DEF Covered
<1> QED
  BY <1>2, <1>3

\* An upload loses nothing of its own layer, nor of a place it does not go to.
LEMMA CoveredUpload ==
    ASSUME Counting, NEW w \in Lanes, Upload(w), NEW t \in Task, Covered(t),
           SamePlace(held[w], t) => t.k = held[w].k
    PROVE  Covered(t)'
<1>1. TypeOK
  BY DEF Counting
<1>2. /\ done' = [done EXCEPT ![w] = TRUE] /\ held' = held /\ queue' = queue
      /\ placed' = {u \in placed : SamePlace(held[w], u) => u.k = held[w].k} \cup {held[w]}
  BY DEF Upload
<1>3. \A v \in Lanes : v # w => done'[v] = done[v]
  BY <1>2, <1>1 DEF TypeOK
<1>4. CASE t \in placed
  BY <1>2, <1>4 DEF Covered
<1>5. CASE t \in queue
  BY <1>2, <1>5 DEF Covered
<1>6. CASE \E v \in Lanes : held[v] = t /\ ~done[v]
  <2>1. PICK v \in Lanes : held[v] = t /\ ~done[v]
    BY <1>6
  <2>2. CASE v = w
    BY <1>2, <2>1, <2>2 DEF Covered
  <2>3. CASE v # w
    BY <1>2, <1>3, <2>1, <2>3 DEF Covered
  <2> QED
    BY <2>2, <2>3
<1> QED
  BY <1>4, <1>5, <1>6 DEF Covered

\* Two numbers of a window as wide as the slots, in one slot, are one number.
LEMMA OneSlot ==
    ASSUME NEW n \in Nat, NEW j \in Nat, NEW k \in Nat,
           n <= j, j <= n + NSlots - 1, n <= k, k <= n + NSlots - 1,
           j % NSlots = k % NSlots
    PROVE  j = k
<1>1. CASE NSlots = 1
  BY <1>1
<1>2. CASE NSlots = 2
  BY <1>2
<1> QED
  BY <1>1, <1>2, ArenaAssumption

\* An expert's upload does not spoil what the graph still needs.
LEMMA ExpertSafe ==
    ASSUME Counting, Graph, Active, NEW w \in Lanes, held[w] # None,
           NEW k \in K, k >= Number(il), NEW t \in Of(k, sched[k]), SamePlace(held[w], t)
    PROVE  t.k = held[w].k
<1>t. TypeOK /\ Asked /\ held[w] \in Task
  BY DEF Counting, TypeOK
<1>1. t \in Uploads(k) /\ t \in Task /\ ~t.dense /\ t.k = k /\ t.e \in sched[k]
  BY UploadFacts DEF Of
<1> DEFINE u == held[w]
<1>2. ~u.dense /\ u.k % NSlots = k % NSlots
  BY <1>1 DEF SamePlace
<1>3. u.k \in K /\ u \in Uploads(u.k) /\ u.e \in sched[u.k]
  BY <1>t, <1>2, UploadFacts DEF Asked
<1>4. u.k <= Ahead /\ k <= Ahead
  BY <1>1, <1>3, <1>t, HereFacts DEF Graph, Window
<1>5. Past <= u.k
  BY <1>3, <1>t, HereFacts DEF Graph, PassedQuiet, Quiet
<1>6. Number(il) <= u.k
  BY <1>3, <1>5, <1>t, HereFacts
<1>7. u.k \in Nat /\ k \in Nat /\ Number(il) \in Nat
  BY <1>3, <1>t, HereFacts
<1> HIDE DEF u
<1>8. u.k = k
  BY <1>2, <1>4, <1>6, <1>7, OneSlot DEF Ahead
<1> QED
  BY <1>1, <1>8 DEF u

\* Neither does an upload of a layer's other weights.
LEMMA DenseSafe ==
    ASSUME Counting, Graph, DueWaited, Active, ~failed, NEW w \in Lanes, held[w] # None,
           NEW l \in dense_scheduled, l > il \/ (l = il /\ at # "end"),
           NEW t \in DenseUploads(l), SamePlace(held[w], t)
    PROVE  t.k = held[w].k
<1>t. TypeOK /\ Asked /\ held[w] \in Task /\ l \in Layer
  BY DEF Counting, TypeOK
<1>1. t \in Task /\ t.dense /\ t.k = l
  BY <1>t, UploadFacts
<1> DEFINE u == held[w]
<1>2. u.dense /\ u.k % 2 = l % 2
  BY <1>1 DEF SamePlace
<1>3. u.k \in Layer /\ u \in DenseUploads(u.k) /\ Weights[u.k] > 0 /\ u.k \in dense_scheduled
  BY <1>t, <1>2, UploadFacts DEF Asked
<1>4. u.k <= Top /\ l <= Top
  BY <1>3 DEF Graph, Window
<1>5. u.k \notin dense_waited
  BY <1>3 DEF Graph, WaitedQuiet, Quiet
<1>6. ~Due(u.k)
  BY <1>3, <1>5 DEF DueWaited
<1>7. u.k \in Nat /\ l \in Nat /\ il \in Int
  BY <1>3, <1>t, HereFacts
<1> HIDE DEF u
<1>8. CASE at = "end"
  <2>1. u.k > il /\ l > il /\ u.k <= il + 2 /\ l <= il + 2
    BY <1>4, <1>6, <1>7, <1>8 DEF Due, Top
  <2> QED
    BY <1>1, <1>2, <1>7, <2>1 DEF u
<1>9. CASE at # "end"
  <2>1. u.k >= il /\ l >= il /\ u.k <= il + 1 /\ l <= il + 1
    BY <1>4, <1>6, <1>7, <1>9 DEF Due, Top
  <2> QED
    BY <1>1, <1>2, <1>7, <2>1 DEF u
<1> QED
  BY <1>8, <1>9

\* Experts stay covered.
LEMMA StepExperts ==
    ASSUME Counting, Graph, Bytes, [Next]_vars, TypeOK'
    PROVE  ExpertsCovered'
<1>t. TypeOK /\ \A k \in K : Uploads(k) \subseteq Task
  BY UploadFacts DEF Counting
<1>o. \A k \in K : \A es : \A t \in Of(k, es) : t \in Task /\ t \in Uploads(k)
  BY <1>t DEF Of
<1>1. CASE Leave
  BY <1>1, LeaveIsOut DEF ExpertsCovered
<1>2. CASE BeginGraph
  <2>1. Grown(Clear, State', {0, NSlots - 1}, {0, 1})
    BY <1>2, BeginStores
  <2>2. ASSUME NEW k \in K, NEW t \in Of(k, sched'[k])
        PROVE  t \in queue'
    <3>1. Of(k, State'.s[k] \ Clear.s[k]) \subseteq State'.q
      BY <2>1 DEF Grown
    <3>2. Clear.s[k] = {} /\ State'.s[k] = sched'[k] /\ State'.q = queue'
      BY DEF Clear, State
    <3>3. State'.s[k] \ Clear.s[k] = sched'[k]
      BY <3>2
    <3> QED
      BY <2>2, <3>1, <3>2, <3>3
  <2> QED
    BY <2>2 DEF ExpertsCovered, Covered
<1>3. CASE Barrier \/ DenseBarrier
  <2>1. PICK ks, ls : Grown(State, State', ks, ls)
    BY <1>3, BarrierStores, DenseBarrierStores
  <2>2. /\ il' = il /\ held' = held /\ done' = done /\ placed' = placed /\ Active
        /\ ~failed' => ~failed
    BY <1>3, NodesLeave
  <2>3. queue \subseteq queue' /\ \A k \in K : Of(k, sched'[k] \ sched[k]) \subseteq queue'
    BY <2>1 DEF Grown, State
  <2>4. ASSUME ~failed', NEW k \in K, k >= Number(il), NEW t \in Of(k, sched'[k])
        PROVE  Covered(t)'
    <3>1. CASE t \in Of(k, sched[k])
      <4>1. Covered(t)
        BY <2>2, <2>4, <3>1 DEF Bytes, ExpertsCovered
      <4> QED
        BY <4>1, <2>2, <2>3 DEF Covered
    <3>2. CASE t \notin Of(k, sched[k])
      <4>1. t \in Of(k, sched'[k] \ sched[k])
        BY <2>4, <3>2 DEF Of
      <4> QED
        BY <4>1, <2>3, <2>4 DEF Covered
    <3> QED
      BY <3>1, <3>2
  <2> QED
    BY <2>2, <2>4 DEF ExpertsCovered
<1>5. CASE Advance
  <2>1. /\ queue' = queue /\ held' = held /\ done' = done /\ placed' = placed
        /\ sched' = sched /\ failed' = failed
    BY <1>5, AdvanceLeaves
  <2>2. Active /\ (il' = il \/ il' = il + 1)
    BY <1>5 DEF Advance, Begun, BarrierReturns, DenseBarrierReturns, NextLayer, Computed, Active
  <2>3. Number(il) <= Number(il') /\ Number(il') \in Int
    BY <2>2, <1>t, HereFacts
  <2>4. \A t : Covered(t)' = Covered(t)
    BY <2>1 DEF Covered
  <2>5. \A k \in K : k >= Number(il') => k >= Number(il)
    BY <2>3, <1>t, HereFacts
  <2> QED
    BY <2>1, <2>2, <2>4, <2>5 DEF Bytes, ExpertsCovered
<1>6. ASSUME NEW w \in Lanes, Loader(w) PROVE ExpertsCovered'
  <2>1. at' = at /\ il' = il /\ sched' = sched /\ (~failed' => ~failed)
    BY <1>6, LoaderLeaves
  <2>2. CASE Take(w) \/ CountDown(w)
    BY <2>1, <2>2, <1>o, CoveredStep DEF Bytes, ExpertsCovered, Active
  <2>3. CASE ReadFails(w)
    BY <2>3 DEF ReadFails, ExpertsCovered
  <2>4. CASE Upload(w)
    <3>1. held[w] # None
      BY <2>4 DEF Upload
    <3>2. ASSUME Active, ~failed, NEW k \in K, k >= Number(il), NEW t \in Of(k, sched[k])
          PROVE  Covered(t)'
      <4>1. t \in Task /\ Covered(t)
        BY <3>2, <1>o DEF Bytes, ExpertsCovered
      <4>2. SamePlace(held[w], t) => t.k = held[w].k
        BY <3>1, <3>2, ExpertSafe
      <4> QED
        BY <2>4, <4>1, <4>2, CoveredUpload
    <3> QED
      BY <2>1, <3>2 DEF ExpertsCovered, Active
  <2> QED
    BY <1>6, <2>2, <2>3, <2>4 DEF Loader
<1>7. CASE UNCHANGED vars
  BY <1>7 DEF Bytes, ExpertsCovered, Active, Covered, vars, graph, loaders, marks
<1> QED
  BY <1>1, <1>2, <1>3, <1>5, <1>6, <1>7, StepKinds

\* So do the layers' other weights.
LEMMA StepDense ==
    ASSUME Counting, Graph, Bytes, [Next]_vars
    PROVE  DenseCovered'
<1>t. TypeOK /\ (\A l \in Layer : DenseUploads(l) \subseteq Task) /\ il \in Int /\ Layer \subseteq Nat
  BY HereFacts, UploadFacts DEF Counting
<1>s. dense_scheduled \subseteq Layer
  BY <1>t DEF TypeOK
<1>1. CASE Leave
  BY <1>1, LeaveIsOut DEF DenseCovered
<1>2. CASE BeginGraph
  <2>1. Grown(Clear, State', {0, NSlots - 1}, {0, 1})
    BY <1>2, BeginStores
  <2>2. \A l \in dense_scheduled' : DenseUploads(l) \subseteq queue'
    BY <2>1 DEF Grown, Clear, State
  <2> QED
    BY <2>2 DEF DenseCovered, Covered
<1>3. CASE Barrier \/ DenseBarrier
  <2>1. PICK ks, ls : Grown(State, State', ks, ls)
    BY <1>3, BarrierStores, DenseBarrierStores
  <2>2. /\ il' = il /\ held' = held /\ done' = done /\ placed' = placed /\ Active /\ at # "end"
        /\ ~failed' => ~failed
    BY <1>3, NodesLeave
  <2>3. /\ queue \subseteq queue'
        /\ \A l \in dense_scheduled' \ dense_scheduled : DenseUploads(l) \subseteq queue'
    BY <2>1 DEF Grown, State
  <2>4. ASSUME ~failed', NEW l \in dense_scheduled', l > il \/ l = il, NEW t \in DenseUploads(l)
        PROVE  Covered(t)'
    <3>1. CASE l \in dense_scheduled
      <4>1. Covered(t)
        BY <2>2, <2>4, <3>1 DEF Bytes, DenseCovered
      <4> QED
        BY <4>1, <2>2, <2>3 DEF Covered
    <3>2. CASE l \notin dense_scheduled
      BY <2>3, <2>4, <3>2 DEF Covered
    <3> QED
      BY <3>1, <3>2
  <2> QED
    BY <2>2, <2>4 DEF DenseCovered
<1>5. CASE Advance
  <2>1. /\ queue' = queue /\ held' = held /\ done' = done /\ placed' = placed
        /\ dense_scheduled' = dense_scheduled /\ failed' = failed
    BY <1>5, AdvanceLeaves
  <2>2. Active /\ ((il' = il /\ at # "end") \/ il' = il + 1)
    BY <1>5 DEF Advance, Begun, BarrierReturns, DenseBarrierReturns, NextLayer, Computed, Active
  <2>3. \A t : Covered(t)' = Covered(t)
    BY <2>1 DEF Covered
  <2>4. \A l \in dense_scheduled :
          l > il' \/ (l = il' /\ at' # "end") => l > il \/ (l = il /\ at # "end")
    BY <2>2, <1>t, <1>s
  <2> QED
    BY <2>1, <2>2, <2>3, <2>4 DEF Bytes, DenseCovered
<1>6. ASSUME NEW w \in Lanes, Loader(w) PROVE DenseCovered'
  <2>1. /\ at' = at /\ il' = il /\ dense_scheduled' = dense_scheduled
        /\ ~failed' => ~failed
    BY <1>6, LoaderLeaves
  <2>2. CASE Take(w) \/ CountDown(w)
    BY <2>1, <2>2, <1>t, <1>s, CoveredStep DEF Bytes, DenseCovered, Active
  <2>3. CASE ReadFails(w)
    BY <2>3 DEF ReadFails, DenseCovered
  <2>4. CASE Upload(w)
    <3>1. held[w] # None
      BY <2>4 DEF Upload
    <3>2. ASSUME Active, ~failed, NEW l \in dense_scheduled, l > il \/ (l = il /\ at # "end"),
                 NEW t \in DenseUploads(l)
          PROVE  Covered(t)'
      <4>1. t \in Task /\ Covered(t)
        BY <3>2, <1>t, <1>s DEF Bytes, DenseCovered
      <4>2. SamePlace(held[w], t) => t.k = held[w].k
        BY <3>1, <3>2, DenseSafe DEF Bytes
      <4> QED
        BY <2>4, <4>1, <4>2, CoveredUpload
    <3> QED
      BY <2>1, <3>2 DEF DenseCovered, Active
  <2> QED
    BY <1>6, <2>2, <2>3, <2>4 DEF Loader
<1>7. CASE UNCHANGED vars
  BY <1>7 DEF Bytes, DenseCovered, Active, Covered, vars, graph, loaders, marks
<1> QED
  BY <1>1, <1>2, <1>3, <1>5, <1>6, <1>7, StepKinds

----------------------------------------------------------------------------
(***************************************************************************)
(* What decode() answers, and the cache's budget.                          *)
(***************************************************************************)
\* Unless the graph is refused, or will be at this layer's routing node, the device
\* computes on bytes in place.
LEMMA ReadsInPlace ==
    Counting /\ Graph /\ Bytes /\ ~failed => InPlace \/ Missed
<1> SUFFICES ASSUME Counting, Graph, Bytes, ~failed, ~Missed PROVE InPlace
  OBVIOUS
<1>t. TypeOK /\ il \in Layer
  BY DEF Counting, TypeOK
<1>1. ASSUME at = "attn", HasDense PROVE DenseUploads(il) \subseteq placed
  <2>1. CASE Weights[il] > 0
    <3>1. il \in dense_waited
      BY <1>1, <1>t, <2>1 DEF Bytes, DueWaited, Due, Active, Missed
    <3>2. il \in dense_scheduled /\ Quiet(DenseUploads(il))
      BY <1>1, <3>1 DEF Graph, WaitedQuiet, Active
    <3>3. \A t \in DenseUploads(il) : Covered(t)
      BY <1>1, <3>2 DEF Bytes, DenseCovered, Active
    <3> QED
      BY <3>2, <3>3 DEF Quiet, Covered
  <2>2. CASE ~(Weights[il] > 0)
    BY <1>t, <2>2, UploadFacts
  <2> QED
    BY <2>1, <2>2
<1>2. ASSUME at = "experts" PROVE Of(Number(il), used) \subseteq placed
  <2>1. il \in MoE /\ used \subseteq sched[Number(il)]
    BY <1>2 DEF Graph, NodesAsked
  <2>2. Number(il) \in K /\ Number(il) < Past /\ Number(il) \in Nat
    BY <1>2, <2>1, <1>t, HereFacts DEF Past
  <2>3. Quiet(Uploads(Number(il)))
    BY <1>2, <2>2 DEF Graph, PassedQuiet, Active
  <2>4. \A t \in Of(Number(il), sched[Number(il)]) : Covered(t)
    BY <1>2, <2>2 DEF Bytes, ExpertsCovered, Active
  <2> QED
    BY <2>1, <2>3, <2>4 DEF Of, Quiet, Covered
<1> QED
  BY <1>1, <1>2 DEF InPlace

\* The same of the state a step leads to.
LEMMA ReadsInPlaceNext ==
    (Counting /\ Graph /\ Bytes /\ ~failed => InPlace \/ Missed)'
BY ReadsInPlace, PTL

\* Where the device went wrong, decode() refuses.
LEMMA StepBlamed ==
    ASSUME Counting, Graph, Bytes, Blamed, [Next]_vars,
           Counting', Graph', Bytes'
    PROVE  Blamed'
<1>t. TypeOK /\ wrong \in BOOLEAN
  BY DEF Counting, TypeOK
<1>s. ASSUME wrong' = wrong \/ wrong' = (wrong \/ ~InPlace'), ~wrong, wrong', ~failed'
      PROVE  Missed'
  BY <1>s, ReadsInPlaceNext
<1>p. wrong' = (wrong \/ ~InPlace') /\ ~Active' => wrong' = wrong
  <2>1. ~Active' => InPlace'
    BY DEF Active, InPlace
  <2> QED
    BY <2>1, <1>t
<1>1. CASE PlaceOnDevice \/ Brake \/ \E hold \in BOOLEAN : PlaceOnHost(hold)
  <2>1. /\ at \in {"host", "device"} /\ at' \in {"host", "device"}
        /\ answer' = answer /\ wrong' = wrong
    BY <1>1 DEF PlaceOnDevice, Brake, PlaceOnHost, graph
  <2> QED
    BY <2>1 DEF Blamed, Active
<1>2. CASE Stop
  <2>1. /\ at \in {"attn", "experts"} /\ at' = "stopped" /\ wrong' = wrong /\ failed' = failed
        /\ answer' = "ok" => Computed
    BY <1>2 DEF Stop
  <2>2. ASSUME answer' = "ok", wrong', ~failed' PROVE FALSE
    BY <2>1, <2>2 DEF Blamed, Active, Missed, Computed
  <2> QED
    BY <2>1, <2>2 DEF Blamed, Active
<1>3. CASE EndGraph
  BY <1>3 DEF EndGraph, Blamed, Active
<1>4. CASE Answer
  <2>1. /\ at = "draining" /\ at' = "device" /\ wrong' = wrong
        /\ answer' = IF failed THEN "failed" ELSE answer
    BY <1>4 DEF Answer
  <2>2. answer' = "ok" => ~wrong
    BY <2>1 DEF Blamed
  <2> QED
    BY <2>1, <2>2 DEF Blamed, Active
<1>5. CASE BeginGraph
  BY <1>5 DEF BeginGraph, Blamed
<1>6. CASE Barrier
  <2>1. /\ at = "attn" /\ at' = "route" /\ il' = il
        /\ failed' = (failed \/ (HasDense /\ Weights[il] > 0 /\ il \notin dense_waited))
        /\ wrong' = (wrong \/ ~InPlace')
    BY <1>6 DEF Barrier, Observe
  <2>2. ~Missed' /\ Active /\ Active' /\ (Missed => failed')
    <3>1. il \in Layer
      BY <1>t DEF TypeOK
    <3>2. Missed => HasDense
      BY <3>1 DEF Missed, HasDense
    <3> QED
      BY <2>1, <3>2 DEF Missed, Active
  <2>3. ~failed' => ~failed
    BY <2>1
  <2>4. ASSUME wrong', ~failed' PROVE FALSE
    BY <2>1, <2>2, <2>3, <2>4, <1>s, <1>t DEF Blamed
  <2> QED
    BY <2>1, <2>4 DEF Blamed
<1>7. CASE DenseBarrier \/ Advance
  <2>1. /\ wrong' = (wrong \/ ~InPlace') /\ failed' = failed /\ Active /\ Active'
        /\ ~Missed
    BY <1>7, AdvanceLeaves DEF DenseBarrier, Advance, Begun, BarrierReturns, DenseBarrierReturns,
       NextLayer, Observe, Computed, Active, Missed
  <2>2. ASSUME wrong', ~failed' PROVE Missed'
    BY <2>1, <2>2, <1>s, <1>t DEF Blamed
  <2> QED
    BY <2>1, <2>2 DEF Blamed, Active
<1>8. ASSUME NEW w \in Lanes, Loader(w) PROVE Blamed'
  <2>1. /\ at' = at /\ il' = il /\ answer' = answer /\ dense_waited' = dense_waited
        /\ ~failed' => ~failed
    BY <1>8, LoaderLeaves
  <2>2. wrong' = wrong \/ wrong' = (wrong \/ ~InPlace')
    BY <1>8 DEF Loader, Take, Upload, ReadFails, CountDown, Observe
  <2>3. Missed' = Missed /\ Active' = Active
    BY <2>1 DEF Missed, Active
  <2>4. ASSUME Active, wrong', ~failed' PROVE Missed'
    BY <2>1, <2>2, <2>3, <2>4, <1>s, <1>t DEF Blamed
  <2>5. ~Active => wrong' = wrong
    BY <2>2, <2>3, <1>p
  <2> QED
    BY <2>1, <2>3, <2>4, <2>5 DEF Blamed, Active
<1>9. CASE UNCHANGED vars
  BY <1>9 DEF Blamed, Active, Missed, vars, graph, marks
<1> QED
  BY <1>1, <1>2, <1>3, <1>4, <1>5, <1>6, <1>7, <1>8, <1>9, StepKinds DEF Leave

\* What the cache gave up it gets back.
LEMMA StepYielding ==
    ASSUME TypeOK, Yielding, [Next]_vars
    PROVE  Yielding'
<1> USE DEF Yielding, BudgetBack
<1>1. CASE PlaceOnDevice
  <2>1. CASE slots_held
    BY <1>1, <2>1 DEF PlaceOnDevice
  <2>2. CASE ~slots_held
    BY <1>1, <2>2 DEF PlaceOnDevice
  <2> QED
    BY <2>1, <2>2
<1>2. CASE Brake
  BY <1>2 DEF Brake
<1>3. ASSUME NEW hold \in BOOLEAN, PlaceOnHost(hold) PROVE Yielding'
  BY <1>3 DEF PlaceOnHost
<1>4. CASE placement' = placement
  BY <1>4 DEF placement
<1> QED
  BY <1>1, <1>2, <1>3, <1>4 DEF Next, Session, BeginGraph, Begun, Barrier, BarrierReturns,
     DenseBarrier, DenseBarrierReturns, NextLayer, Stop, EndGraph, Answer, Loader, Take,
     Upload, ReadFails, CountDown, vars

----------------------------------------------------------------------------
(***************************************************************************)
(* The theorems.                                                           *)
(***************************************************************************)
IInv == Counting /\ Graph /\ Answering /\ Yielding

\* The initial states satisfy the inductive invariant.
LEMMA InitInv == Init => IInv
<1> SUFFICES ASSUME Init PROVE IInv
  OBVIOUS
<1>1. TypeOK
  BY InitType
<1>2. queue = {} /\ \A w \in Lanes : held[w] = None
  BY DEF Init
<1>3. \A S : S \subseteq Task => Queued(S) = 0 /\ Held(S) = 0
  <2> TAKE S
  <2> HAVE S \subseteq Task
  <2>1. queue \cap S = {} /\ {w \in Lanes : held[w] \in S} = {}
    BY <1>2, NoneIsNone
  <2> QED
    BY <2>1, FS_EmptySet DEF Queued, Held
<1>4. IsFiniteSet(queue) /\ CountsExact
  <2>1. Cardinality(queue) = 0 /\ IsFiniteSet(queue) /\ Held(Task) = 0
    BY <1>2, <1>3, FS_EmptySet
  <2>2. \A k \in K : Queued(Uploads(k)) = 0 /\ Held(Uploads(k)) = 0
    BY <1>3, UploadFacts
  <2>3. \A l \in Layer : Queued(DenseUploads(l)) = 0 /\ Held(DenseUploads(l)) = 0
    BY <1>3, UploadFacts
  <2> QED
    BY <2>1, <2>2, <2>3 DEF CountsExact, Init
<1>5. Asked /\ IdleBetween /\ DoneHeld
  BY <1>2, NoneIsNone DEF Asked, IdleBetween, DoneHeld, Init
<1>6. ~Active /\ ~wrong /\ at = "host"
  BY DEF Active, Init
<1>7. Graph /\ Bytes /\ Blamed
  BY <1>6 DEF Graph, Bytes, Blamed, Window, PassedQuiet, WaitedQuiet, NodesAsked, DueWaited,
     ExpertsCovered, DenseCovered
<1>8. Yielding
  BY ArenaAssumption DEF Init, Yielding, BudgetBack
<1> QED
  BY <1>1, <1>4, <1>5, <1>7, <1>8 DEF IInv, Counting, Answering

\* Every step keeps it.
LEMMA StepInv == IInv /\ [Next]_vars => IInv'
<1> SUFFICES ASSUME IInv, [Next]_vars PROVE IInv'
  OBVIOUS
<1>1. Counting'
  BY StepCounting DEF IInv, Graph
<1>2. TypeOK'
  BY <1>1 DEF Counting
<1>3. Graph'
  BY <1>2, StepWindow, StepPassed, StepWaited, StepNodes DEF IInv, Graph
<1>4. MissesNoticed => Bytes'
  BY <1>2, StepDue, StepExperts, StepDense DEF IInv, Answering, Bytes
<1>5. MissesNoticed => Blamed'
  BY <1>1, <1>3, <1>4, StepBlamed DEF IInv, Answering
<1>6. Yielding'
  BY StepYielding DEF IInv, Counting
<1> QED
  BY <1>1, <1>3, <1>4, <1>5, <1>6 DEF IInv, Answering

\* Every state of every behaviour satisfies it.
THEOREM Invariance == Spec => []IInv
BY InitInv, StepInv, PTL DEF Spec

\* The types hold.
THEOREM TypeCorrect == Spec => []TypeOK
<1>1. IInv => TypeOK
  BY DEF IInv, Counting
<1> QED
  BY <1>1, Invariance, PTL

\* The counts the barriers wait for are the uploads queued or in a loader's hands,
\* in every state: an upload is counted once, however the layers ask for it.
THEOREM CountsAreExact == Spec => []CountsExact
<1>1. IInv => CountsExact
  BY DEF IInv, Counting
<1> QED
  BY <1>1, Invariance, PTL

\* Between two graphs nothing is queued or held: the slots may be freed.
THEOREM SlotsAreFree == Spec => []SlotsFree
<1>1. IInv => SlotsFree
  BY IdleQuiet DEF IInv, Counting, IdleBetween, SlotsFree
<1> QED
  BY <1>1, Invariance, PTL

\* A decode on the device that answers success has computed every layer on its own
\* weights, for any layers, slots, loaders, read failures and nodes that never come,
\* when the nodes that may not come are before layers that can notice it.
THEOREM AnswersAreRight == ASSUME MissesNoticed PROVE Spec => []RightOrRefused
<1>1. IInv => RightOrRefused
  BY DEF IInv, Answering, Blamed, RightOrRefused
<1> QED
  BY <1>1, Invariance, PTL

\* The cache has its whole budget whenever the slots are not held.
THEOREM BudgetComesBack == Spec => []BudgetBack
<1>1. IInv => BudgetBack
  BY DEF IInv, Yielding
<1> QED
  BY <1>1, Invariance, PTL
=============================================================================
