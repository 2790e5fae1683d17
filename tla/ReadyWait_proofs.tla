-------------------------- MODULE ReadyWait_proofs --------------------------
(***************************************************************************)
(* No wake-up is lost, for any number of compute threads, lanes and flags. *)
(* The argument: the count of waiters is exact, so a lane that stored its  *)
(* flag while somebody sleeps reads a count above zero and will notify.    *)
(***************************************************************************)
EXTENDS ReadyWait, FiniteSetTheorems, TLAPS

\* Registered is finite, as the threads are, and a sleeper is in it.
LEMMA RegisteredFinite ==
    /\ IsFiniteSet(Registered)
    /\ Asleep \subseteq Registered
<1>1. Registered \subseteq Threads BY DEF Registered
<1> QED BY <1>1, FS_Subset, WaitAssumption DEF Registered, Asleep

\* A set of threads that a step leaves, enters, or leaves alone.
LEMMA CountSteps ==
    ASSUME NEW S, NEW T, IsFiniteSet(S), NEW t
    PROVE  /\ t \notin S /\ T = S \union {t} => Cardinality(T) = Cardinality(S) + 1
           /\ t \in S /\ T = S \ {t} => Cardinality(T) = Cardinality(S) - 1
           /\ t \in S => Cardinality(S) # 0
           /\ Cardinality(S) \in Nat
<1>1. t \notin S /\ T = S \union {t} => Cardinality(T) = Cardinality(S) + 1 BY FS_AddElement
<1>2. t \in S /\ T = S \ {t} => Cardinality(T) = Cardinality(S) - 1 BY FS_RemoveElement
<1>3. Cardinality(S) \in Nat BY FS_CardinalityType
<1>4. t \in S => Cardinality(S) # 0 BY FS_EmptySet
<1> QED BY <1>1, <1>2, <1>3, <1>4

\* The types are kept by every step (that the count stays a natural number is the
\* count's own business).
LEMMA TypeStep ==
    ASSUME IInv, [Next]_vars
    PROVE  TypeOK'
<1> USE DEF IInv, TypeOK
<1>1. CASE EvalStep
    BY <1>1 DEF EvalStep, Publish, Append2, GiveUp, EvalTell, Woken
<1>2. ASSUME NEW l \in Lanes, LaneStep(l) PROVE TypeOK'
    BY <1>2 DEF LaneStep, Take, ReadEnds, Store, Look, Tell, Woken
<1>3. ASSUME NEW t \in Threads, ThreadStep(t) PROVE TypeOK'
  <2>1. CASE \E f \in Flags : Ask(t, f) BY <2>1 DEF Ask, Moves
  <2>2. CASE AskForeign(t) \/ SpinHit(t) \/ LookAgain(t) \/ Wait(t) \/ SpuriousWake(t)
      BY <2>2 DEF AskForeign, SpinHit, LookAgain, Wait, SpuriousWake, Moves
  <2>3. CASE AskForeignTell(t) BY <2>3 DEF AskForeignTell, Woken
  <2>4. CASE Register(t) BY <2>4 DEF Register, Moves
  <2>5. CASE Leave(t)
    <3>1. t \in Registered BY <2>5 DEF Leave, Registered
    <3>2. waiters # 0 BY <3>1, CountSteps, RegisteredFinite DEF CountExact
    <3>3. waiters' \in Nat BY <2>5, <3>2 DEF Leave
    <3> QED BY <2>5, <3>3 DEF Leave, Moves
  <2> QED BY <1>3, <2>1, <2>2, <2>3, <2>4, <2>5 DEF ThreadStep, Go
<1>4. CASE UNCHANGED vars BY <1>4 DEF vars
<1> QED BY <1>1, <1>2, <1>3, <1>4 DEF Next

\* The count of waiters stays exact: one thread is counted in, one is counted
\* out, and a notify moves sleepers to where they are still counted.
LEMMA CountStep ==
    ASSUME IInv, [Next]_vars
    PROVE  CountExact'
<1> USE DEF IInv
<1>a. CountExact BY DEF CountExact
<1>b. ASSUME Registered' = Registered, waiters' = waiters PROVE CountExact'
    BY <1>a, <1>b DEF CountExact
<1>w. ASSUME thread' = Woken PROVE Registered' = Registered
    BY <1>w DEF Registered, Woken, TypeOK
<1>1. CASE EvalStep
  <2>1. CASE EvalTell BY <2>1, <1>b, <1>w DEF EvalTell
  <2>2. CASE thread' = thread /\ waiters' = waiters BY <2>2, <1>b DEF Registered
  <2> QED BY <1>1, <2>1, <2>2 DEF EvalStep, Publish, Append2, GiveUp
<1>2. ASSUME NEW l \in Lanes, LaneStep(l) PROVE CountExact'
  <2>1. CASE Tell(l) BY <2>1, <1>b, <1>w DEF Tell
  <2>2. CASE thread' = thread /\ waiters' = waiters BY <2>2, <1>b DEF Registered
  <2> QED BY <1>2, <2>1, <2>2 DEF LaneStep, Take, ReadEnds, Store, Look
<1>3. ASSUME NEW t \in Threads, ThreadStep(t) PROVE CountExact'
  <2>1. CASE (\E f \in Flags : Ask(t, f)) \/ AskForeign(t) \/ SpinHit(t)
      BY <2>1, <1>b DEF Ask, AskForeign, SpinHit, Moves, Registered, TypeOK
  <2>2. CASE LookAgain(t) \/ Wait(t) \/ SpuriousWake(t)
      BY <2>2, <1>b DEF LookAgain, Wait, SpuriousWake, Moves, Registered, TypeOK
  <2>3. CASE AskForeignTell(t)
      BY <2>3, <1>b DEF AskForeignTell, Woken, Registered, TypeOK
  <2>4. CASE Register(t)
    <3>1. t \notin Registered /\ Registered' = Registered \union {t}
        BY <2>4 DEF Register, Moves, Registered, TypeOK
    <3> QED BY <2>4, <3>1, <1>a, CountSteps, RegisteredFinite DEF Register, CountExact
  <2>5. CASE Leave(t)
    <3>1. t \in Registered /\ Registered' = Registered \ {t}
        BY <2>5 DEF Leave, Moves, Registered, TypeOK
    <3> QED BY <2>5, <3>1, <1>a, CountSteps, RegisteredFinite DEF Leave, CountExact
  <2> QED BY <1>3, <2>1, <2>2, <2>3, <2>4, <2>5 DEF ThreadStep, Go
<1>4. CASE UNCHANGED vars BY <1>4, <1>b DEF vars, Registered
<1> QED BY <1>1, <1>2, <1>3, <1>4 DEF Next

\* With an exact count, somebody asleep means a count above zero.
LEMMA SleeperCounted ==
    CountExact /\ Asleep # {} => waiters # 0
BY RegisteredFinite, CountSteps DEF CountExact, Asleep

\* Every step leaves a teller for every sleeper whose wait is over.
LEMMA WakeupStep ==
    ASSUME IInv, [Next]_vars, CountExact'
    PROVE  NoLostWakeup'
<1> USE DEF IInv
<1>s. (CountExact /\ Asleep # {} => waiters # 0)'
  <2>1. IsFiniteSet(Registered') /\ Asleep' \subseteq Registered'
    <3>1. Registered' \subseteq Threads BY DEF Registered
    <3> QED BY <3>1, FS_Subset, WaitAssumption DEF Registered, Asleep
  <2> QED BY <2>1, CountSteps DEF CountExact, Asleep
<1>n. ASSUME Asleep' = {} PROVE NoLostWakeup' BY <1>n DEF NoLostWakeup
<1>w. Woken \in [Threads -> {Woken[t] : t \in Threads}] /\ \A t \in Threads : Woken[t] # "asleep"
    BY DEF Woken
<1>1. CASE EvalStep
  <2>1. CASE \E hits, first, second \in SUBSET Flags : Publish(hits, first, second)
      BY <2>1, <1>n DEF Publish, Asleep
  <2>2. CASE Append2
      BY <2>2 DEF Append2, NoLostWakeup, Asleep, Released, SomebodyTells, TellerOf
  <2>3. CASE GiveUp BY <2>3 DEF GiveUp, NoLostWakeup, SomebodyTells
  <2>4. CASE EvalTell BY <2>4, <1>n, <1>w DEF EvalTell, Asleep
  <2> QED BY <1>1, <2>1, <2>2, <2>3, <2>4 DEF EvalStep
<1>2. ASSUME NEW l \in Lanes, LaneStep(l) PROVE NoLostWakeup'
  <2>1. CASE Take(l)
      BY <2>1 DEF Take, NoLostWakeup, Asleep, Released, SomebodyTells, TellerOf, TypeOK
  <2>2. ASSUME NEW ok \in BOOLEAN, ReadEnds(l, ok) PROVE NoLostWakeup'
    <3>1. CASE ok
        BY <2>2, <3>1
        DEF ReadEnds, NoLostWakeup, Asleep, Released, SomebodyTells, TellerOf, TypeOK
    <3>2. CASE ~ok
      <4>1. fatal' /\ lane'[l] = "storing" BY <2>2, <3>2 DEF ReadEnds, TypeOK
      <4> QED BY <4>1 DEF NoLostWakeup, SomebodyTells
    <3> QED BY <3>1, <3>2
  <2>3. CASE Store(l)
    <3>1. lane'[l] = "looking" BY <2>3 DEF Store, TypeOK
    <3>2. ASSUME Asleep' # {} PROVE SomebodyTells'
        BY <3>1, <3>2, <1>s DEF SomebodyTells, TellerOf
    <3> QED BY <3>2 DEF NoLostWakeup
  <2>4. CASE Look(l)
    <3>1. CASE waiters = 0
        BY <2>4, <3>1, <1>n, <1>s DEF Look, Asleep
    <3>2. CASE waiters # 0
        BY <2>4, <3>2 DEF Look, NoLostWakeup, SomebodyTells, TellerOf, TypeOK
    <3> QED BY <3>1, <3>2
  <2>5. CASE Tell(l) BY <2>5, <1>n, <1>w DEF Tell, Asleep
  <2> QED BY <1>2, <2>1, <2>2, <2>3, <2>4, <2>5 DEF LaneStep
<1>3. ASSUME NEW t \in Threads, ThreadStep(t) PROVE NoLostWakeup'
  <2>1. ASSUME NEW f \in Flags, Ask(t, f) PROVE NoLostWakeup'
      BY <2>1 DEF Ask, Moves, NoLostWakeup, Asleep, Released, SomebodyTells, TellerOf, TypeOK
  <2>2. CASE AskForeign(t)
      BY <2>2 DEF AskForeign, Moves, NoLostWakeup, SomebodyTells, TypeOK
  <2>3. CASE AskForeignTell(t)
    <3>1. \A u \in Threads : thread'[u] # "asleep" BY <2>3 DEF AskForeignTell, Woken
    <3> QED BY <3>1, <1>n DEF Asleep
  <2>4. CASE SpinHit(t) \/ LookAgain(t) \/ Wait(t) \/ SpuriousWake(t)
      BY <2>4 DEF SpinHit, LookAgain, Wait, SpuriousWake, Moves, NoLostWakeup, Asleep,
                  Released, SomebodyTells, TellerOf, TypeOK
  <2>5. CASE Register(t)
      BY <2>5 DEF Register, Moves, NoLostWakeup, Asleep, Released, SomebodyTells, TellerOf, TypeOK
  <2>6. CASE Leave(t)
    <3>1. ASSUME NEW u \in Asleep', Released(u)' PROVE SomebodyTells'
      <4>1. u \in Asleep /\ Released(u)
          BY <2>6, <3>1 DEF Leave, Moves, Asleep, Released, TypeOK
      <4>2. waiters' # 0 BY <3>1, <1>s
      <4>3. SomebodyTells BY <4>1 DEF NoLostWakeup
      <4> QED BY <2>6, <4>2, <4>3 DEF Leave, Moves, SomebodyTells, TellerOf, TypeOK
    <3> QED BY <3>1 DEF NoLostWakeup
  <2> QED BY <1>3, <2>1, <2>2, <2>3, <2>4, <2>5, <2>6 DEF ThreadStep, Go
<1>4. CASE UNCHANGED vars
    BY <1>4 DEF vars, NoLostWakeup, Asleep, Released, SomebodyTells, TellerOf
<1> QED BY <1>1, <1>2, <1>3, <1>4 DEF Next

\* The initial states: nobody is registered.
LEMMA InitInv == Init => IInv
<1> SUFFICES ASSUME Init PROVE IInv OBVIOUS
<1>1. TypeOK BY DEF Init, TypeOK
<1>2. Registered = {} BY DEF Init, Registered
<1>3. CountExact BY <1>2, FS_EmptySet DEF CountExact, Init
<1>4. NoLostWakeup BY DEF NoLostWakeup, Asleep, Init
<1> QED BY <1>1, <1>3, <1>4 DEF IInv

\* The types, the count and the wake-ups, together, are an invariant of the wait.
THEOREM Invariant == Spec => []IInv
<1>1. IInv /\ [Next]_vars => IInv' BY TypeStep, CountStep, WakeupStep DEF IInv
<1> QED BY <1>1, InitInv, PTL DEF Spec

\* No compute thread sleeps through the landing of its slice, or through the end
\* of the run, with nobody on the way to wake it (io_drain, on_expert_ready).
THEOREM NoLostWakeupHolds == Spec => []NoLostWakeup
<1>1. IInv => NoLostWakeup BY DEF IInv
<1> QED BY <1>1, Invariant, PTL

\* The flag a thread waits for is up, or its store is still to come, whatever the
\* waves of the batch and the lanes do in between.
LEMMA ComingStep ==
    ASSUME TypeOK, NobodyWaitsInVain, [Next]_vars
    PROVE  NobodyWaitsInVain'
<1> USE DEF TypeOK, NobodyWaitsInVain, Coming
<1>1. CASE EvalStep
    BY <1>1 DEF EvalStep, Publish, Append2, GiveUp, EvalTell, Woken
<1>2. ASSUME NEW l \in Lanes, LaneStep(l) PROVE NobodyWaitsInVain'
  <2>1. CASE Take(l)
    <3>1. PICK f \in todo : job' = [job EXCEPT ![l] = f] /\ todo' = todo \ {f}
        BY <2>1 DEF Take
    <3>2. Coming \subseteq Coming' BY <2>1, <3>1 DEF Take
    <3> QED BY <2>1, <3>2 DEF Take
  <2>2. ASSUME NEW ok \in BOOLEAN, ReadEnds(l, ok) PROVE NobodyWaitsInVain'
    <3>1. Coming \subseteq Coming' BY <2>2 DEF ReadEnds
    <3> QED BY <2>2, <3>1 DEF ReadEnds
  <2>3. CASE Store(l)
    <3>1. up \union Coming \subseteq up' \union Coming' BY <2>3 DEF Store
    <3> QED BY <2>3, <3>1 DEF Store
  <2>4. CASE Look(l)
    <3>1. Coming \subseteq Coming' BY <2>4 DEF Look
    <3> QED BY <2>4, <3>1 DEF Look
  <2>5. CASE Tell(l)
    <3>1. Coming \subseteq Coming' BY <2>5 DEF Tell
    <3> QED BY <2>5, <3>1 DEF Tell, Woken
  <2> QED BY <1>2, <2>1, <2>2, <2>3, <2>4, <2>5 DEF LaneStep
<1>3. ASSUME NEW t \in Threads, ThreadStep(t) PROVE NobodyWaitsInVain'
  <2>1. ASSUME NEW f \in Flags, Ask(t, f) PROVE NobodyWaitsInVain' BY <2>1 DEF Ask, Moves
  <2>2. CASE AskForeign(t) BY <2>2 DEF AskForeign, Moves
  <2>3. CASE AskForeignTell(t) BY <2>3 DEF AskForeignTell, Woken
  <2>4. CASE SpinHit(t) \/ Register(t) \/ LookAgain(t) \/ Wait(t) \/ SpuriousWake(t) \/ Leave(t)
      BY <2>4 DEF SpinHit, Register, LookAgain, Wait, SpuriousWake, Leave, Moves
  <2> QED BY <1>3, <2>1, <2>2, <2>3, <2>4 DEF ThreadStep, Go
<1>4. CASE UNCHANGED vars BY <1>4 DEF vars
<1> QED BY <1>1, <1>2, <1>3, <1>4 DEF Next

\* No compute thread waits for a flag nobody is going to raise, unless the run is
\* fatal and it is about to be told so.
THEOREM NobodyWaitsInVainHolds == Spec => []NobodyWaitsInVain
<1>1. Init => NobodyWaitsInVain BY DEF Init, NobodyWaitsInVain
<1>2. IInv => TypeOK BY DEF IInv
<1> QED BY <1>1, <1>2, ComingStep, Invariant, PTL DEF Spec
=============================================================================
