-------------------------- MODULE EngineHost_proofs -------------------------
(* Proofs about EngineHost, for any clients, operators and bounds. *)
EXTENDS EngineHost, TLAPS

\* The initial states satisfy the invariant.
LEMMA InitInv == Init => IInv
  BY HostAssumption
  DEF Init, IInv, TypeOK, GenHeld, LifeHeld, OwnWhileHolding, UnderTheTurn, ClosedUnlessReady,
      Figures, RecordsAfresh, GoneStopsItsOwn, Using, Holding, InLoad, InUnload, Handles,
      NoSession, Sessions, HostAssumption

\* Every step keeps the types.
LEMMA TypeStep == TypeOK /\ [Next]_vars => TypeOK'
<1> SUFFICES ASSUME TypeOK, [Next]_vars PROVE TypeOK'
  OBVIOUS
<1> USE HostAssumption
    DEF TypeOK, HostAssumption, Goes, Calls, Roused, hostVars, restOfHost, clientVars, callVars,
        Handles, NoSession, Sessions, InTurn, InLoad, InUnload
<1>1. ASSUME NEW c \in Clients, TurnStep(c) PROVE TypeOK'
  <2>1. CASE Enter(c) BY <2>1 DEF Enter
  <2>2. CASE SpuriousWake(c) BY <2>2 DEF SpuriousWake
  <2>3. CASE ClientGone(c) BY <2>3 DEF ClientGone
  <2>4. CASE CheckState(c) BY <2>4 DEF CheckState
  <2>5. CASE LockGen(c) BY <2>5 DEF LockGen
  <2>6. CASE Recheck(c) BY <2>6 DEF Recheck
  <2>7. CASE Pick(c) BY <2>7 DEF Pick
  <2>8. CASE NoModel(c) BY <2>8 DEF NoModel
  <2>9. CASE Announce(c) BY <2>9 DEF Announce
  <2>10. CASE BeginGenerate(c) BY <2>10 DEF BeginGenerate
  <2>11. ASSUME NEW to \in Ends, NEW more \in 0..1, EndGenerate(c, to, more) PROVE TypeOK'
    <3>1. more \in Nat
      OBVIOUS
    <3>2. learned' \in [Sessions -> Nat]
      <4>1. CASE own[c] \in Sessions
        <5>1. learned[own[c]] + more \in Nat
          BY <3>1, <4>1
        <5> QED
          BY <4>1, <5>1, <2>11 DEF EndGenerate
      <4>2. CASE own[c] \notin Sessions
        BY <4>2, <2>11 DEF EndGenerate
      <4> QED
        BY <4>1, <4>2
    <3> QED
      BY <3>2, <2>11 DEF EndGenerate, Ends
  <2>12. CASE TurnFails(c) BY <2>12 DEF TurnFails
  <2>13. CASE Measured(c) BY <2>13 DEF Measured
  <2>14. CASE Keep(c) BY <2>14 DEF Keep
  <2>15. CASE PublishEnd(c) BY <2>15 DEF PublishEnd
  <2>16. CASE Unlock(c) BY <2>16 DEF Unlock
  <2>17. CASE LeaveLine(c) BY <2>17 DEF LeaveLine
  <2> QED
    BY <1>1, <2>1, <2>2, <2>3, <2>4, <2>5, <2>6, <2>7, <2>8, <2>9, <2>10, <2>11, <2>12,
       <2>13, <2>14, <2>15, <2>16, <2>17 DEF TurnStep, TurnGoesOn
<1>2. ASSUME NEW p \in Operators, NEW first \in {"load", "unload", "only_copy"}, Begins(p, first) PROVE TypeOK'
  BY <1>2 DEF Begins
<1>3. ASSUME NEW p \in Operators, CallGoesOn(p) PROVE TypeOK'
  <2>1. CASE LockLife(p, "load", "mark") BY <2>1 DEF LockLife
  <2>2. CASE LockLife(p, "unload", "unload_copy") BY <2>2 DEF LockLife
  <2>3. CASE MarkLoading(p) BY <2>3 DEF MarkLoading
  <2>4. CASE RefuseLoad(p) BY <2>4 DEF RefuseLoad
  <2>5. CASE Join(p, "join", "announce") BY <2>5 DEF Join
  <2>6. CASE Join(p, "unload_join", "unload_gen") BY <2>6 DEF Join
  <2>7. CASE Publish(p, "announce", "copy") BY <2>7 DEF Publish
  <2>8. CASE CopySession(p, "copy", "cancel") BY <2>8 DEF CopySession
  <2>9. CASE CopySession(p, "unload_copy", "unload_cancel") BY <2>9 DEF CopySession
  <2>10. CASE CopySession(p, "only_copy", "only_cancel") BY <2>10 DEF CopySession
  <2>11. CASE CancelSession(p, "cancel", "spawn")
    <3>1. latch' \in [Sessions -> SUBSET (Clients \union {Command})]
      BY <2>11 DEF CancelSession
    <3>2. told' \subseteq Clients
      BY <2>11 DEF CancelSession, UsersOf
    <3> QED
      BY <3>1, <3>2, <2>11 DEF CancelSession
  <2>12. CASE CancelSession(p, "unload_cancel", "unload_join")
    <3>1. latch' \in [Sessions -> SUBSET (Clients \union {Command})]
      BY <2>12 DEF CancelSession
    <3>2. told' \subseteq Clients
      BY <2>12 DEF CancelSession, UsersOf
    <3> QED
      BY <3>1, <3>2, <2>12 DEF CancelSession
  <2>13. CASE CancelSession(p, "only_cancel", "idle")
    <3>1. latch' \in [Sessions -> SUBSET (Clients \union {Command})]
      BY <2>13 DEF CancelSession
    <3>2. told' \subseteq Clients
      BY <2>13 DEF CancelSession, UsersOf
    <3> QED
      BY <3>1, <3>2, <2>13 DEF CancelSession
  <2>14. CASE Spawn(p) BY <2>14 DEF Spawn
  <2>15. CASE Unload(p) BY <2>15 DEF Unload
  <2>16. CASE UnloadEnds(p) BY <2>16 DEF UnloadEnds
  <2> QED
    BY <1>3, <2>1, <2>2, <2>3, <2>4, <2>5, <2>6, <2>7, <2>8, <2>9, <2>10, <2>11, <2>12,
       <2>13, <2>14, <2>15, <2>16 DEF CallGoesOn, LoadStep, UnloadStep, CancelStep
<1>4. ASSUME LoaderStep PROVE TypeOK'
  <2>1. CASE LoaderDrops BY <2>1 DEF LoaderDrops
  <2>2. CASE OpenReady BY <2>2 DEF OpenReady
  <2>3. CASE OpenFails BY <2>3 DEF OpenFails
  <2>4. CASE LoaderEnds BY <2>4 DEF LoaderEnds
  <2> QED
    BY <1>4, <2>1, <2>2, <2>3, <2>4 DEF LoaderStep
<1>5. CASE UNCHANGED vars
  BY <1>5 DEF vars
<1>6. CASE Exhausted
  BY <1>5, <1>6 DEF Exhausted
<1> QED
  BY <1>1, <1>2, <1>3, <1>4, <1>5, <1>6 DEF Next

\* The locks are held by who works under them, and a session by who picked one.
Locks == GenHeld /\ LifeHeld /\ OwnWhileHolding

\* Every step keeps the locks with their holders.
LEMMA LockStep == TypeOK /\ Locks /\ [Next]_vars => Locks'
<1> SUFFICES ASSUME TypeOK, Locks, [Next]_vars PROVE Locks'
  OBVIOUS
<1> USE HostAssumption
    DEF TypeOK, Locks, GenHeld, LifeHeld, OwnWhileHolding, HostAssumption, Goes, Calls, Roused, hostVars, restOfHost, clientVars, callVars,
        Handles, NoSession, Sessions, InTurn, InLoad, InUnload, Using, Holding
<1>1. ASSUME NEW c \in Clients, TurnStep(c) PROVE Locks'
  <2>1. CASE Enter(c) BY <2>1 DEF Enter
  <2>2. CASE SpuriousWake(c) BY <2>2 DEF SpuriousWake
  <2>3. CASE ClientGone(c) BY <2>3 DEF ClientGone
  <2>4. CASE CheckState(c) BY <2>4 DEF CheckState
  <2>5. CASE LockGen(c) BY <2>5 DEF LockGen
  <2>6. CASE Recheck(c) BY <2>6 DEF Recheck
  <2>7. CASE Pick(c) BY <2>7 DEF Pick
  <2>8. CASE NoModel(c) BY <2>8 DEF NoModel
  <2>9. CASE Announce(c) BY <2>9 DEF Announce
  <2>10. CASE BeginGenerate(c) BY <2>10 DEF BeginGenerate
  <2>11. ASSUME NEW to \in Ends, NEW more \in 0..1, EndGenerate(c, to, more) PROVE Locks'
    BY <2>11 DEF EndGenerate, Ends
  <2>12. CASE TurnFails(c) BY <2>12 DEF TurnFails
  <2>13. CASE Measured(c) BY <2>13 DEF Measured
  <2>14. CASE Keep(c) BY <2>14 DEF Keep
  <2>15. CASE PublishEnd(c) BY <2>15 DEF PublishEnd
  <2>16. CASE Unlock(c) BY <2>16 DEF Unlock
  <2>17. CASE LeaveLine(c) BY <2>17 DEF LeaveLine
  <2> QED
    BY <1>1, <2>1, <2>2, <2>3, <2>4, <2>5, <2>6, <2>7, <2>8, <2>9, <2>10, <2>11, <2>12,
       <2>13, <2>14, <2>15, <2>16, <2>17 DEF TurnStep, TurnGoesOn
<1>2. ASSUME NEW p \in Operators, NEW first \in {"load", "unload", "only_copy"}, Begins(p, first) PROVE Locks'
  BY <1>2 DEF Begins
<1>3. ASSUME NEW p \in Operators, CallGoesOn(p) PROVE Locks'
  <2>1. CASE LockLife(p, "load", "mark") BY <2>1 DEF LockLife
  <2>2. CASE LockLife(p, "unload", "unload_copy") BY <2>2 DEF LockLife
  <2>3. CASE MarkLoading(p) BY <2>3 DEF MarkLoading
  <2>4. CASE RefuseLoad(p) BY <2>4 DEF RefuseLoad
  <2>5. CASE Join(p, "join", "announce") BY <2>5 DEF Join
  <2>6. CASE Join(p, "unload_join", "unload_gen") BY <2>6 DEF Join
  <2>7. CASE Publish(p, "announce", "copy") BY <2>7 DEF Publish
  <2>8. CASE CopySession(p, "copy", "cancel") BY <2>8 DEF CopySession
  <2>9. CASE CopySession(p, "unload_copy", "unload_cancel") BY <2>9 DEF CopySession
  <2>10. CASE CopySession(p, "only_copy", "only_cancel") BY <2>10 DEF CopySession
  <2>11. CASE CancelSession(p, "cancel", "spawn") BY <2>11 DEF CancelSession
  <2>12. CASE CancelSession(p, "unload_cancel", "unload_join") BY <2>12 DEF CancelSession
  <2>13. CASE CancelSession(p, "only_cancel", "idle") BY <2>13 DEF CancelSession
  <2>14. CASE Spawn(p) BY <2>14 DEF Spawn
  <2>15. CASE Unload(p) BY <2>15 DEF Unload
  <2>16. CASE UnloadEnds(p) BY <2>16 DEF UnloadEnds
  <2> QED
    BY <1>3, <2>1, <2>2, <2>3, <2>4, <2>5, <2>6, <2>7, <2>8, <2>9, <2>10, <2>11, <2>12,
       <2>13, <2>14, <2>15, <2>16 DEF CallGoesOn, LoadStep, UnloadStep, CancelStep
<1>4. ASSUME LoaderStep PROVE Locks'
  <2>1. CASE LoaderDrops BY <2>1 DEF LoaderDrops
  <2>2. CASE OpenReady BY <2>2 DEF OpenReady
  <2>3. CASE OpenFails BY <2>3 DEF OpenFails
  <2>4. CASE LoaderEnds BY <2>4 DEF LoaderEnds
  <2> QED
    BY <1>4, <2>1, <2>2, <2>3, <2>4 DEF LoaderStep
<1>5. CASE UNCHANGED vars
  BY <1>5 DEF vars
<1>6. CASE Exhausted
  BY <1>5, <1>6 DEF Exhausted
<1> QED
  BY <1>1, <1>2, <1>3, <1>4, <1>5, <1>6 DEF Next

\* What a turn and the host know of the session agrees.
Held == UnderTheTurn /\ ClosedUnlessReady /\ Figures /\ RecordsAfresh

\* Every step keeps the session and what is known of it together.
LEMMA HeldStep == TypeOK /\ Locks /\ Held /\ [Next]_vars => Held'
<1> SUFFICES ASSUME TypeOK, Locks, Held, [Next]_vars PROVE Held'
  OBVIOUS
<1> USE HostAssumption
    DEF TypeOK, Locks, Held, UnderTheTurn, ClosedUnlessReady, Figures, RecordsAfresh,
        GenHeld, LifeHeld, OwnWhileHolding, HostAssumption, Goes, Calls, Roused, hostVars, restOfHost, clientVars, callVars,
        Handles, NoSession, Sessions, InTurn, InLoad, InUnload, Using, Holding
<1>1. ASSUME NEW c \in Clients, TurnStep(c) PROVE Held'
  <2>1. CASE Enter(c) BY <2>1 DEF Enter
  <2>2. CASE SpuriousWake(c) BY <2>2 DEF SpuriousWake
  <2>3. CASE ClientGone(c) BY <2>3 DEF ClientGone
  <2>4. CASE CheckState(c) BY <2>4 DEF CheckState
  <2>5. CASE LockGen(c) BY <2>5 DEF LockGen
  <2>6. CASE Recheck(c) BY <2>6 DEF Recheck
  <2>7. CASE Pick(c) BY <2>7 DEF Pick
  <2>8. CASE NoModel(c) BY <2>8 DEF NoModel
  <2>9. CASE Announce(c) BY <2>9 DEF Announce
  <2>10. CASE BeginGenerate(c) BY <2>10 DEF BeginGenerate
  <2>11. ASSUME NEW to \in Ends, NEW more \in 0..1, EndGenerate(c, to, more) PROVE Held'
    BY <2>11 DEF EndGenerate, Ends
  <2>12. CASE TurnFails(c) BY <2>12 DEF TurnFails
  <2>13. CASE Measured(c) BY <2>13 DEF Measured
  <2>14. CASE Keep(c) BY <2>14 DEF Keep
  <2>15. CASE PublishEnd(c) BY <2>15 DEF PublishEnd
  <2>16. CASE Unlock(c) BY <2>16 DEF Unlock
  <2>17. CASE LeaveLine(c) BY <2>17 DEF LeaveLine
  <2> QED
    BY <1>1, <2>1, <2>2, <2>3, <2>4, <2>5, <2>6, <2>7, <2>8, <2>9, <2>10, <2>11, <2>12,
       <2>13, <2>14, <2>15, <2>16, <2>17 DEF TurnStep, TurnGoesOn
<1>2. ASSUME NEW p \in Operators, NEW first \in {"load", "unload", "only_copy"}, Begins(p, first) PROVE Held'
  BY <1>2 DEF Begins
<1>3. ASSUME NEW p \in Operators, CallGoesOn(p) PROVE Held'
  <2>1. CASE LockLife(p, "load", "mark") BY <2>1 DEF LockLife
  <2>2. CASE LockLife(p, "unload", "unload_copy") BY <2>2 DEF LockLife
  <2>3. CASE MarkLoading(p) BY <2>3 DEF MarkLoading
  <2>4. CASE RefuseLoad(p) BY <2>4 DEF RefuseLoad
  <2>5. CASE Join(p, "join", "announce") BY <2>5 DEF Join
  <2>6. CASE Join(p, "unload_join", "unload_gen") BY <2>6 DEF Join
  <2>7. CASE Publish(p, "announce", "copy") BY <2>7 DEF Publish
  <2>8. CASE CopySession(p, "copy", "cancel") BY <2>8 DEF CopySession
  <2>9. CASE CopySession(p, "unload_copy", "unload_cancel") BY <2>9 DEF CopySession
  <2>10. CASE CopySession(p, "only_copy", "only_cancel") BY <2>10 DEF CopySession
  <2>11. CASE CancelSession(p, "cancel", "spawn") BY <2>11 DEF CancelSession
  <2>12. CASE CancelSession(p, "unload_cancel", "unload_join") BY <2>12 DEF CancelSession
  <2>13. CASE CancelSession(p, "only_cancel", "idle") BY <2>13 DEF CancelSession
  <2>14. CASE Spawn(p) BY <2>14 DEF Spawn
  <2>15. CASE Unload(p) BY <2>15 DEF Unload
  <2>16. CASE UnloadEnds(p) BY <2>16 DEF UnloadEnds
  <2> QED
    BY <1>3, <2>1, <2>2, <2>3, <2>4, <2>5, <2>6, <2>7, <2>8, <2>9, <2>10, <2>11, <2>12,
       <2>13, <2>14, <2>15, <2>16 DEF CallGoesOn, LoadStep, UnloadStep, CancelStep
<1>4. ASSUME LoaderStep PROVE Held'
  <2>1. CASE LoaderDrops BY <2>1 DEF LoaderDrops
  <2>2. CASE OpenReady BY <2>2 DEF OpenReady
  <2>3. CASE OpenFails BY <2>3 DEF OpenFails
  <2>4. CASE LoaderEnds BY <2>4 DEF LoaderEnds
  <2> QED
    BY <1>4, <2>1, <2>2, <2>3, <2>4 DEF LoaderStep
<1>5. CASE UNCHANGED vars
  BY <1>5 DEF vars
<1>6. CASE Exhausted
  BY <1>5, <1>6 DEF Exhausted
<1> QED
  BY <1>1, <1>2, <1>3, <1>4, <1>5, <1>6 DEF Next

\* Every step keeps what is latched to its own turn.
LEMMA GoneStep == TypeOK /\ Locks /\ Held /\ GoneStopsItsOwn /\ [Next]_vars => GoneStopsItsOwn'
<1> SUFFICES ASSUME TypeOK, Locks, Held, GoneStopsItsOwn, [Next]_vars PROVE GoneStopsItsOwn'
  OBVIOUS
<1> USE HostAssumption
    DEF TypeOK, Locks, Held, UnderTheTurn, GoneStopsItsOwn,
        GenHeld, LifeHeld, OwnWhileHolding, HostAssumption, Goes, Calls, Roused, hostVars, restOfHost, clientVars, callVars,
        Handles, NoSession, Sessions, InTurn, InLoad, InUnload, Using, Holding
<1>1. ASSUME NEW c \in Clients, TurnStep(c) PROVE GoneStopsItsOwn'
  <2>1. CASE Enter(c) BY <2>1 DEF Enter
  <2>2. CASE SpuriousWake(c) BY <2>2 DEF SpuriousWake
  <2>3. CASE ClientGone(c) BY <2>3 DEF ClientGone
  <2>4. CASE CheckState(c) BY <2>4 DEF CheckState
  <2>5. CASE LockGen(c) BY <2>5 DEF LockGen
  <2>6. CASE Recheck(c) BY <2>6 DEF Recheck
  <2>7. CASE Pick(c) BY <2>7 DEF Pick
  <2>8. CASE NoModel(c) BY <2>8 DEF NoModel
  <2>9. CASE Announce(c) BY <2>9 DEF Announce
  <2>10. CASE BeginGenerate(c) BY <2>10 DEF BeginGenerate
  <2>11. ASSUME NEW to \in Ends, NEW more \in 0..1, EndGenerate(c, to, more) PROVE GoneStopsItsOwn'
    BY <2>11 DEF EndGenerate, Ends
  <2>12. CASE TurnFails(c) BY <2>12 DEF TurnFails
  <2>13. CASE Measured(c) BY <2>13 DEF Measured
  <2>14. CASE Keep(c) BY <2>14 DEF Keep
  <2>15. CASE PublishEnd(c) BY <2>15 DEF PublishEnd
  <2>16. CASE Unlock(c) BY <2>16 DEF Unlock
  <2>17. CASE LeaveLine(c) BY <2>17 DEF LeaveLine
  <2> QED
    BY <1>1, <2>1, <2>2, <2>3, <2>4, <2>5, <2>6, <2>7, <2>8, <2>9, <2>10, <2>11, <2>12,
       <2>13, <2>14, <2>15, <2>16, <2>17 DEF TurnStep, TurnGoesOn
<1>2. ASSUME NEW p \in Operators, NEW first \in {"load", "unload", "only_copy"}, Begins(p, first) PROVE GoneStopsItsOwn'
  BY <1>2 DEF Begins
<1>3. ASSUME NEW p \in Operators, CallGoesOn(p) PROVE GoneStopsItsOwn'
  <2>1. CASE LockLife(p, "load", "mark") BY <2>1 DEF LockLife
  <2>2. CASE LockLife(p, "unload", "unload_copy") BY <2>2 DEF LockLife
  <2>3. CASE MarkLoading(p) BY <2>3 DEF MarkLoading
  <2>4. CASE RefuseLoad(p) BY <2>4 DEF RefuseLoad
  <2>5. CASE Join(p, "join", "announce") BY <2>5 DEF Join
  <2>6. CASE Join(p, "unload_join", "unload_gen") BY <2>6 DEF Join
  <2>7. CASE Publish(p, "announce", "copy") BY <2>7 DEF Publish
  <2>8. CASE CopySession(p, "copy", "cancel") BY <2>8 DEF CopySession
  <2>9. CASE CopySession(p, "unload_copy", "unload_cancel") BY <2>9 DEF CopySession
  <2>10. CASE CopySession(p, "only_copy", "only_cancel") BY <2>10 DEF CopySession
  <2>11. CASE CancelSession(p, "cancel", "spawn")
    <3>1. \A s \in Sessions : latch'[s] \subseteq latch[s] \union {Command}
      BY <2>11 DEF CancelSession
    <3>2. at' = at /\ own' = own
      BY <2>11 DEF CancelSession
    <3> QED
      BY <3>1, <3>2
  <2>12. CASE CancelSession(p, "unload_cancel", "unload_join")
    <3>1. \A s \in Sessions : latch'[s] \subseteq latch[s] \union {Command}
      BY <2>12 DEF CancelSession
    <3>2. at' = at /\ own' = own
      BY <2>12 DEF CancelSession
    <3> QED
      BY <3>1, <3>2
  <2>13. CASE CancelSession(p, "only_cancel", "idle")
    <3>1. \A s \in Sessions : latch'[s] \subseteq latch[s] \union {Command}
      BY <2>13 DEF CancelSession
    <3>2. at' = at /\ own' = own
      BY <2>13 DEF CancelSession
    <3> QED
      BY <3>1, <3>2
  <2>14. CASE Spawn(p) BY <2>14 DEF Spawn
  <2>15. CASE Unload(p) BY <2>15 DEF Unload
  <2>16. CASE UnloadEnds(p) BY <2>16 DEF UnloadEnds
  <2> QED
    BY <1>3, <2>1, <2>2, <2>3, <2>4, <2>5, <2>6, <2>7, <2>8, <2>9, <2>10, <2>11, <2>12,
       <2>13, <2>14, <2>15, <2>16 DEF CallGoesOn, LoadStep, UnloadStep, CancelStep
<1>4. ASSUME LoaderStep PROVE GoneStopsItsOwn'
  <2>1. CASE LoaderDrops BY <2>1 DEF LoaderDrops
  <2>2. CASE OpenReady BY <2>2 DEF OpenReady
  <2>3. CASE OpenFails BY <2>3 DEF OpenFails
  <2>4. CASE LoaderEnds BY <2>4 DEF LoaderEnds
  <2> QED
    BY <1>4, <2>1, <2>2, <2>3, <2>4 DEF LoaderStep
<1>5. CASE UNCHANGED vars
  BY <1>5 DEF vars
<1>6. CASE Exhausted
  BY <1>5, <1>6 DEF Exhausted
<1> HIDE DEF TypeOK, Locks, Held, UnderTheTurn, GoneStopsItsOwn
<1> QED
  BY <1>1, <1>2, <1>3, <1>4, <1>5, <1>6 DEF Next

---------------------------------------------------------------------------
\* The invariant holds in every reachable state.
THEOREM Invariant == Spec => []IInv
<1>1. IInv /\ [Next]_vars => IInv'
  BY TypeStep, LockStep, HeldStep, GoneStep DEF IInv, Locks, Held
<1> QED
  BY <1>1, InitInv, PTL DEF Spec

\* No load and no unload takes the session from under a turn, for any number of
\* clients and operators.
THEOREM UnderTheTurnHolds == Spec => []UnderTheTurn
<1>1. IInv => UnderTheTurn
  BY DEF IInv
<1> QED
  BY <1>1, Invariant, PTL

\* While a model is opened the host and the turns hold none: gen_m_ is the loader's,
\* so no turn has picked a session.
THEOREM OpenedAloneHolds == Spec => []OpenedAlone
<1>1. IInv => OpenedAlone
  BY HostAssumption
  DEF IInv, OpenedAlone, Figures, GenHeld, OwnWhileHolding, Holding, HostAssumption
<1> QED
  BY <1>1, Invariant, PTL

\* The loader thread is joined by one caller at a time, and a new one is only started
\* when there is none: both follow from who holds life_m_.
THEOREM ThreadHandledAloneHolds == Spec => []ThreadHandledAlone
<1>1. IInv => ThreadHandledAlone
  BY DEF IInv, ThreadHandledAlone, AtThread, LifeHeld, InLoad, InUnload
<1> QED
  BY <1>1, Invariant, PTL

\* The figures of the last turn are those of the session that is ready.
THEOREM LastTurnOwnHolds == Spec => []LastTurnOwn
<1>1. IInv => LastTurnOwn
  BY DEF IInv, LastTurnOwn, Figures
<1> QED
  BY <1>1, Invariant, PTL

\* A client that hangs up stops no turn but its own.
THEOREM GoneStopsItsOwnHolds == Spec => []GoneStopsItsOwn
<1>1. IInv => GoneStopsItsOwn
  BY DEF IInv
<1> QED
  BY <1>1, Invariant, PTL
=============================================================================
