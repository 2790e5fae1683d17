----------------------------- MODULE EngineHost -----------------------------
(***************************************************************************)
(* The server's engine host (server/engine_host.cpp): one model session,   *)
(* replaced by a background load, closed by an unload or by a failed turn, *)
(* and used by one turn at a time.                                         *)
(*                                                                         *)
(* Three locks: life_m_ across load() and unload(), gen_m_ across a turn   *)
(* and across the loader's work, m_ around each touch of the state.  One   *)
(* hold of m_ is one step; whatever happens between two holds of it may    *)
(* interleave with every other thread.  The line of turns_ is taken at its *)
(* word (TurnQueue: OneTurn, Served): at most one client is past enter().  *)
(***************************************************************************)
EXTENDS Naturals, FiniteSets

CONSTANTS Clients,    \* the threads that ask for turns
          Operators,  \* the threads that load, unload and cancel
          Loader,     \* the loader thread, as a holder of gen_m_
          Nobody,     \* a lock's holder when it is free
          Command,    \* a cancel() that came from no client
          MaxTurns,   \* bound: turns asked for in a behaviour
          MaxCalls    \* bound: loads, unloads and cancels in a behaviour

ASSUME HostAssumption ==
    /\ Loader \notin Clients /\ Nobody \notin Clients \union Operators \union {Loader}
    /\ Command \notin Clients
    /\ MaxTurns \in Nat /\ MaxCalls \in Nat

\* Sessions are numbered as they open; 0 is none.
Sessions == 1..MaxCalls
NoSession == 0
Handles == Sessions \union {NoSession}

VARIABLES
    state,       \* state_
    session,     \* session_
    last_turn,   \* the session whose figures last_turn_ holds
    kept,        \* routing_kept_: how much of the record was handed on
    learned,     \* how much each session has recorded of its routing
    latch,       \* who asked to cancel since a session's latch was last cleared
    life,        \* the holder of life_m_
    gen,         \* the holder of gen_m_
    loader,      \* the thread loader_ holds, and where it is
    at,          \* where each client is in chat()
    own,         \* the session each client's turn uses
    call,        \* where each operator is in load(), unload() or cancel()
    ptr,         \* the session each operator's cancel() copied
    told,        \* clients a cancel() reached since generating_ was set
    turns,       \* turns asked for
    calls,       \* calls made
    opened       \* sessions opened

restOfHost == <<kept, learned, latch, opened>>
hostVars == <<state, session, last_turn, restOfHost>>
clientVars == <<at, own, turns>>
callVars == <<life, call, ptr, calls>>
vars == <<hostVars, gen, loader, clientVars, callVars, told>>

InTurn == {"check", "asleep", "lock", "recheck", "pick", "announce", "begin", "generating",
           "failed", "measured", "publish", "keep", "unlock", "leave"}
InLoad == {"load", "mark", "join", "announce", "copy", "cancel", "spawn"}
InUnload == {"unload", "unload_copy", "unload_cancel", "unload_join", "unload_gen",
             "unload_publish"}

TypeOK ==
    /\ state \in {"Empty", "Loading", "Ready", "Error"}
    /\ session \in Handles /\ last_turn \in Handles
    /\ kept \in Nat /\ learned \in [Sessions -> Nat]
    /\ latch \in [Sessions -> SUBSET (Clients \union {Command})]
    /\ life \in Operators \union {Nobody}
    /\ gen \in Clients \union {Loader, Nobody}
    /\ loader \in {"none", "started", "opening", "publishing", "ended"}
    /\ at \in [Clients -> {"out"} \union InTurn]
    /\ own \in [Clients -> Handles]
    /\ call \in [Operators ->
                    {"idle", "only_copy", "only_cancel"} \union InLoad \union InUnload]
    /\ ptr \in [Operators -> Handles]
    /\ told \subseteq Clients
    /\ turns \in 0..MaxTurns /\ calls \in 0..MaxCalls /\ opened \in 0..MaxCalls

Init ==
    /\ state = "Empty" /\ session = NoSession /\ last_turn = NoSession
    /\ kept = 0 /\ learned = [s \in Sessions |-> 0]
    /\ latch = [s \in Sessions |-> {}]
    /\ life = Nobody /\ gen = Nobody /\ loader = "none"
    /\ at = [c \in Clients |-> "out"] /\ own = [c \in Clients |-> NoSession]
    /\ call = [p \in Operators |-> "idle"] /\ ptr = [p \in Operators |-> NoSession]
    /\ told = {} /\ turns = 0 /\ calls = 0 /\ opened = 0

Goes(c, from, to) == at[c] = from /\ at' = [at EXCEPT ![c] = to]
Calls(p, from, to) == call[p] = from /\ call' = [call EXCEPT ![p] = to]

\* publish_state(): whoever sleeps on state_cv_ looks again.
Roused == [c \in Clients |-> IF at[c] = "asleep" THEN "check" ELSE at[c]]

---------------------------------------------------------------------------
(* A turn: chat() and decide().                                            *)

\* turns_.enter() grants.
Enter(c) ==
    /\ turns < MaxTurns
    /\ \A d \in Clients : at[d] = "out"
    /\ Goes(c, "out", "check")
    /\ turns' = turns + 1
    /\ UNCHANGED <<hostVars, gen, loader, own, callVars, told>>

\* take_turn: a load that was announced is waited for.
CheckState(c) ==
    /\ Goes(c, "check", IF state = "Loading" THEN "asleep" ELSE "lock")
    /\ UNCHANGED <<hostVars, gen, loader, own, turns, callVars, told>>

\* A wake-up nobody sent.
SpuriousWake(c) ==
    /\ Goes(c, "asleep", "check")
    /\ UNCHANGED <<hostVars, gen, loader, own, turns, callVars, told>>

LockGen(c) ==
    /\ Goes(c, "lock", "recheck")
    /\ gen = Nobody /\ gen' = c
    /\ UNCHANGED <<hostVars, loader, own, turns, callVars, told>>

\* The seeded bug of Recheck: a turn that overtook the loader keeps the lock and
\* waits for it.
RecheckHolding(c) ==
    /\ Goes(c, "recheck", IF state = "Loading" THEN "asleep" ELSE "pick")
    /\ UNCHANGED <<hostVars, gen, loader, own, turns, callVars, told>>

\* A turn that overtook the loader gives the lock back and waits again.
Recheck(c) ==
    /\ Goes(c, "recheck", IF state = "Loading" THEN "check" ELSE "pick")
    /\ gen' = IF state = "Loading" THEN Nobody ELSE gen
    /\ UNCHANGED <<hostVars, loader, own, turns, callVars, told>>

\* The session of a host that is ready becomes the turn's ...
Pick(c) ==
    /\ state = "Ready" /\ session # NoSession
    /\ Goes(c, "pick", "announce")
    /\ own' = [own EXCEPT ![c] = session]
    /\ UNCHANGED <<hostVars, gen, loader, turns, callVars, told>>

\* ... and with none the turn is answered 503 no_model.
NoModel(c) ==
    /\ state # "Ready" \/ session = NoSession
    /\ Goes(c, "pick", "unlock")
    /\ UNCHANGED <<hostVars, gen, loader, own, turns, callVars, told>>

\* generating_ is set, and published.
Announce(c) ==
    /\ at[c] = "announce"
    /\ at' = [Roused EXCEPT ![c] = "begin"]
    /\ UNCHANGED <<hostVars, gen, loader, own, turns, callVars, told>>

\* The seeded bug of BeginGenerate: the latch of the turn before is left as it is.
BeginLatched(c) ==
    /\ Goes(c, "begin", "generating")
    /\ UNCHANGED <<hostVars, gen, loader, own, turns, callVars, told>>

\* generate() and decide() start with a fresh cancel latch.
BeginGenerate(c) ==
    /\ Goes(c, "begin", "generating")
    /\ latch' = [latch EXCEPT ![own[c]] = {}]
    /\ UNCHANGED <<state, session, last_turn, kept, learned, opened, gen, loader, own, turns,
                   callVars, told>>

\* on_token says the client is gone: the turn cancels its own session.
ClientGone(c) ==
    /\ at[c] = "generating" /\ c \notin latch[own[c]]
    /\ latch' = [latch EXCEPT ![own[c]] = @ \union {c}]
    /\ UNCHANGED <<state, session, last_turn, kept, learned, opened, gen, loader, clientVars,
                   callVars, told>>

\* generate() or decide() returns and generating_ is cleared.  "measured": an answer
\* with tokens, not cancelled; "keep": any other answer; "publish": refused, and every
\* decision; "failed": a decode failed.  A cancelled turn may have missed the latch.
Ends == {"measured", "keep", "publish", "failed"}
EndGenerate(c, to, more) ==
    /\ Goes(c, "generating", to)
    /\ learned' = [learned EXCEPT ![own[c]] = @ + more]
    /\ told' = told \ {c}
    /\ UNCHANGED <<state, session, last_turn, kept, latch, opened, gen, loader, own, turns,
                   callVars>>

\* The seeded bug of TurnFails: the session that failed stays.
TurnFailsKept(c) ==
    /\ Goes(c, "failed", "publish")
    /\ state' = "Error"
    /\ UNCHANGED <<session, last_turn, restOfHost, gen, loader, own, turns,
                   callVars, told>>

\* A failed decode closes the session.
TurnFails(c) ==
    /\ Goes(c, "failed", "publish")
    /\ session' = NoSession /\ state' = "Error"
    /\ UNCHANGED <<last_turn, restOfHost, gen, loader, own, turns, callVars, told>>

\* A full answer is the measured one.
Measured(c) ==
    /\ Goes(c, "measured", "keep")
    /\ last_turn' = own[c]
    /\ UNCHANGED <<state, session, restOfHost, gen, loader, own, turns, callVars,
                   told>>

\* An answer, full or cancelled, is published and the record handed on when it grew.
Keep(c) ==
    /\ at[c] = "keep"
    /\ at' = [Roused EXCEPT ![c] = "unlock"]
    /\ kept' = IF learned[own[c]] > kept THEN learned[own[c]] ELSE kept
    /\ UNCHANGED <<state, session, last_turn, learned, latch, opened, gen, loader, own, turns,
                   callVars, told>>

\* A decision, a refusal or a failure is published.
PublishEnd(c) ==
    /\ at[c] = "publish"
    /\ at' = [Roused EXCEPT ![c] = "unlock"]
    /\ UNCHANGED <<hostVars, gen, loader, own, turns, callVars, told>>

\* The turn lets go of its session and of gen_m_, ...
Unlock(c) ==
    /\ Goes(c, "unlock", "leave")
    /\ own' = [own EXCEPT ![c] = NoSession]
    /\ gen' = Nobody
    /\ UNCHANGED <<hostVars, loader, turns, callVars, told>>

\* ... and of its place in line.
LeaveLine(c) ==
    /\ Goes(c, "leave", "out")
    /\ UNCHANGED <<hostVars, gen, loader, own, turns, callVars, told>>

\* What a turn does once it is past enter(); nobody is bound to ask for one, to
\* hang up, or to wake for nothing.
TurnGoesOn(c) ==
    \/ CheckState(c) \/ LockGen(c) \/ Recheck(c) \/ Pick(c) \/ NoModel(c)
    \/ Announce(c) \/ BeginGenerate(c)
    \/ \E to \in Ends, more \in 0..1 : EndGenerate(c, to, more)
    \/ TurnFails(c) \/ Measured(c) \/ Keep(c) \/ PublishEnd(c)
    \/ Unlock(c) \/ LeaveLine(c)

TurnStep(c) == Enter(c) \/ SpuriousWake(c) \/ ClientGone(c) \/ TurnGoesOn(c)

---------------------------------------------------------------------------
(* cancel(), which load() and unload() call too: the session is copied     *)
(* under m_ and told afterwards.                                           *)

\* A call of the front-end.  load() is only called with load_m held
\* (server/http_server.cpp), so there is one at a time.
Begins(p, first) ==
    /\ calls < MaxCalls
    /\ first = "load" => \A q \in Operators : call[q] \notin InLoad
    /\ Calls(p, "idle", first)
    /\ calls' = calls + 1
    /\ UNCHANGED <<hostVars, gen, loader, clientVars, life, ptr, told>>

CopySession(p, from, to) ==
    /\ Calls(p, from, to)
    /\ ptr' = [ptr EXCEPT ![p] = session]
    /\ UNCHANGED <<hostVars, gen, loader, clientVars, life, calls, told>>

\* The turn that generates on session s, if any does.
UsersOf(s) == {c \in Clients : own[c] = s /\ at[c] \in {"begin", "generating"}}

CancelSession(p, from, to) ==
    /\ Calls(p, from, to)
    /\ ptr' = [ptr EXCEPT ![p] = NoSession]
    /\ IF ptr[p] = NoSession
       THEN UNCHANGED <<latch, told>>
       ELSE /\ latch' = [latch EXCEPT ![ptr[p]] = @ \union {Command}]
            /\ told' = told \union UsersOf(ptr[p])
    /\ UNCHANGED <<state, session, last_turn, kept, learned, opened, gen, loader, clientVars,
                   life, calls>>

---------------------------------------------------------------------------
(* load() and its thread.                                                  *)

\* The seeded bug of LockLife: the lock is taken from whoever holds it.
LockLifeAnyway(p, from, to) ==
    /\ Calls(p, from, to)
    /\ life' = p
    /\ UNCHANGED <<hostVars, gen, loader, clientVars, ptr, calls, told>>

LockLife(p, from, to) ==
    /\ Calls(p, from, to)
    /\ life = Nobody /\ life' = p
    /\ UNCHANGED <<hostVars, gen, loader, clientVars, ptr, calls, told>>

\* The load is announced ...
MarkLoading(p) ==
    /\ state # "Loading" /\ state' = "Loading"
    /\ last_turn' = NoSession
    /\ Calls(p, "mark", "join")
    /\ UNCHANGED <<session, restOfHost, gen, loader, clientVars, life, ptr, calls,
                   told>>

\* ... or refused, when one is under way.
RefuseLoad(p) ==
    /\ state = "Loading"
    /\ Calls(p, "mark", "idle")
    /\ life' = Nobody
    /\ UNCHANGED <<hostVars, gen, loader, clientVars, ptr, calls, told>>

\* The thread of the load before is joined.
Join(p, from, to) ==
    /\ loader \in {"none", "ended"}
    /\ loader' = "none"
    /\ Calls(p, from, to)
    /\ UNCHANGED <<hostVars, gen, clientVars, life, ptr, calls, told>>

Publish(p, from, to) ==
    /\ Calls(p, from, to)
    /\ at' = Roused
    /\ UNCHANGED <<hostVars, gen, loader, own, turns, life, ptr, calls, told>>

\* The loader thread starts, and load() returns.
Spawn(p) ==
    /\ Calls(p, "spawn", "idle")
    /\ loader' = "started"
    /\ life' = Nobody
    /\ UNCHANGED <<hostVars, gen, clientVars, ptr, calls, told>>

\* The seeded bug of LoaderDrops: the figure a last turn of the old model left is
\* not cleared again.
LoaderDropsOnce ==
    /\ loader = "started" /\ gen = Nobody
    /\ gen' = Loader /\ loader' = "opening"
    /\ session' = NoSession
    /\ UNCHANGED <<state, last_turn, restOfHost, clientVars, callVars, told>>

\* The seeded bug of LoaderDrops: the old session is dropped while a turn uses it.
LoaderDropsUnlocked ==
    /\ loader = "started"
    /\ gen' = Loader /\ loader' = "opening"
    /\ session' = NoSession /\ last_turn' = NoSession
    /\ UNCHANGED <<state, restOfHost, clientVars, callVars, told>>

\* The seeded bug of LoaderDrops: the old session stays until the new one is open.
LoaderKeeps ==
    /\ loader = "started" /\ gen = Nobody
    /\ gen' = Loader /\ loader' = "opening"
    /\ last_turn' = NoSession
    /\ UNCHANGED <<state, session, restOfHost, clientVars, callVars, told>>

\* With gen_m_ held the old session goes, before the new one is opened.
LoaderDrops ==
    /\ loader = "started" /\ gen = Nobody
    /\ gen' = Loader /\ loader' = "opening"
    /\ session' = NoSession /\ last_turn' = NoSession
    /\ UNCHANGED <<state, restOfHost, clientVars, callVars, told>>

\* The seeded bug of OpenReady: the count of the session before is kept.
OpenReadyCounted ==
    /\ loader = "opening" /\ loader' = "publishing"
    /\ opened < MaxCalls /\ opened' = opened + 1
    /\ session' = opened' /\ state' = "Ready"
    /\ UNCHANGED <<last_turn, kept, learned, latch, gen, clientVars, callVars, told>>

\* The new session is installed; it records afresh.
OpenReady ==
    /\ loader = "opening" /\ loader' = "publishing"
    /\ opened < MaxCalls /\ opened' = opened + 1
    /\ session' = opened' /\ kept' = 0 /\ state' = "Ready"
    /\ UNCHANGED <<last_turn, learned, latch, gen, clientVars, callVars, told>>

OpenFails ==
    /\ loader = "opening" /\ loader' = "publishing"
    /\ state' = "Error"
    /\ UNCHANGED <<session, last_turn, restOfHost, gen, clientVars, callVars, told>>

\* The seeded bug of LoaderEnds: the end of the load is not published.
LoaderEndsQuietly ==
    /\ loader = "publishing" /\ loader' = "ended"
    /\ gen' = Nobody
    /\ UNCHANGED <<hostVars, clientVars, callVars, told>>

\* The state is published, and gen_m_ released.
LoaderEnds ==
    /\ loader = "publishing" /\ loader' = "ended"
    /\ gen' = Nobody
    /\ at' = Roused
    /\ UNCHANGED <<hostVars, own, turns, callVars, told>>

LoaderStep == LoaderDrops \/ OpenReady \/ OpenFails \/ LoaderEnds

---------------------------------------------------------------------------
(* unload(), once the loader was joined.                                   *)

\* The seeded bug of Unload: the session is closed without waiting for the turn.
UnloadAtOnce(p) ==
    /\ Calls(p, "unload_gen", "unload_publish")
    /\ session' = NoSession /\ state' = "Empty" /\ last_turn' = NoSession
    /\ UNCHANGED <<restOfHost, gen, loader, clientVars, life, ptr, calls, told>>

\* gen_m_ is waited for, and the session closed under it.
Unload(p) ==
    /\ gen = Nobody
    /\ Calls(p, "unload_gen", "unload_publish")
    /\ session' = NoSession /\ state' = "Empty" /\ last_turn' = NoSession
    /\ UNCHANGED <<restOfHost, gen, loader, clientVars, life, ptr, calls, told>>

\* The state is published and unload() returns.
UnloadEnds(p) ==
    /\ Calls(p, "unload_publish", "idle")
    /\ at' = Roused
    /\ life' = Nobody
    /\ UNCHANGED <<hostVars, gen, loader, own, turns, ptr, calls, told>>

---------------------------------------------------------------------------
LoadStep(p) ==
    \/ LockLife(p, "load", "mark") \/ MarkLoading(p) \/ RefuseLoad(p)
    \/ Join(p, "join", "announce") \/ Publish(p, "announce", "copy")
    \/ CopySession(p, "copy", "cancel") \/ CancelSession(p, "cancel", "spawn")
    \/ Spawn(p)

UnloadStep(p) ==
    \/ LockLife(p, "unload", "unload_copy")
    \/ CopySession(p, "unload_copy", "unload_cancel")
    \/ CancelSession(p, "unload_cancel", "unload_join")
    \/ Join(p, "unload_join", "unload_gen")
    \/ Unload(p) \/ UnloadEnds(p)

CancelStep(p) ==
    \/ CopySession(p, "only_copy", "only_cancel") \/ CancelSession(p, "only_cancel", "idle")

CallGoesOn(p) == LoadStep(p) \/ UnloadStep(p) \/ CancelStep(p)

\* Not in the code: all turns and calls of the bounds were made, and the behaviour
\* ends (any other standstill is a deadlock).
Exhausted ==
    /\ turns = MaxTurns /\ calls = MaxCalls
    /\ \A c \in Clients : at[c] = "out"
    /\ \A p \in Operators : call[p] = "idle"
    /\ loader \in {"none", "ended"}
    /\ UNCHANGED vars

Next ==
    \/ \E c \in Clients : TurnStep(c)
    \/ \E p \in Operators :
          \/ \E first \in {"load", "unload", "only_copy"} : Begins(p, first)
          \/ CallGoesOn(p)
    \/ LoaderStep
    \/ Exhausted

Spec == Init /\ [][Next]_vars

\* Threads run; a generation ends (its length is bounded by the context) and so
\* does an open.  Nobody is bound to ask for anything or to hang up.
FairSpec ==
    /\ Spec
    /\ \A c \in Clients : WF_vars(TurnGoesOn(c))
    /\ \A p \in Operators : WF_vars(CallGoesOn(p))
    /\ WF_vars(LoaderStep)

---------------------------------------------------------------------------
(* Correctness.                                                            *)

Using == {"announce", "begin", "generating", "failed", "measured", "keep"}

\* The session a turn uses is the host's, from the moment it was picked until the
\* turn is over: no load and no unload takes it away under the turn.
UnderTheTurn ==
    \A c \in Clients : at[c] \in Using => own[c] = session /\ session # NoSession

\* "two large models resident at once is exactly the memory this engine exists to
\* avoid spending": while one opens, the host has none and no turn holds one.  (cancel()
\* copies the pointer too, for as long as it takes it to raise a flag.)
OpenedAlone ==
    loader = "opening" => session = NoSession /\ \A c \in Clients : own[c] = NoSession

\* A host that says it is empty or failed holds no model.
ClosedUnlessReady == state \in {"Empty", "Error"} => session = NoSession

\* The loader thread is joined by one caller at a time and replaced only once it was
\* joined (engine_host.h on life_m_): otherwise the process ends.
AtThread(p) == call[p] \in {"join", "unload_join"}
ThreadHandledAlone ==
    /\ \A p, q \in Operators : AtThread(p) /\ AtThread(q) => p = q
    /\ \A p \in Operators : call[p] = "spawn" => loader = "none"

\* The last turn's figures are the loaded session's, although a turn of the model
\* before may end after the load was announced.
LastTurnOwn == state = "Ready" /\ last_turn # NoSession => last_turn = session

\* Growth of the loaded session's record is never hidden by what an earlier session
\* handed on.
RecordsAfresh == session # NoSession => kept <= learned[session]

\* A client that hangs up stops its own turn and "cannot reach another client's".
GoneStopsItsOwn ==
    \A c \in Clients : at[c] = "generating" => latch[own[c]] \subseteq {c, Command}

\* A load that was announced ends, one way or the other.
LoadEnds == state = "Loading" ~> state # "Loading"

\* A turn that was granted is answered.
TurnAnswered == \A c \in Clients : at[c] = "check" ~> at[c] = "out"

\* Every load(), unload() and cancel() returns.
CallReturns == \A p \in Operators : call[p] # "idle" ~> call[p] = "idle"

\* A load is under way from its announcement until its session is installed or not.
LoadUnderWay ==
    \/ loader \in {"started", "opening"}
    \/ \E p \in Operators : call[p] \in {"join", "announce", "copy", "cancel", "spawn"}

\* A turn is told that no model is loaded only when none is about to be
\* (engine_host.h on take_turn).
NoModelMeansNone ==
    [][\A c \in Clients : at[c] = "pick" /\ at'[c] = "unlock" => ~LoadUnderWay]_vars

\* A cancel() during a turn stops it (tests/engine_host_test.cpp): the latch it set
\* is there while the turn generates.
CancelHeard ==
    \A c \in told : at[c] = "generating" => Command \in latch[own[c]]

---------------------------------------------------------------------------
(* What is inductive.                                                      *)

\* Who is past LockGen holds gen_m_, and so does the loader at work.
Holding == Using \union {"recheck", "pick", "publish", "unlock"}
GenHeld ==
    /\ \A c \in Clients : at[c] \in Holding => gen = c
    /\ loader \in {"opening", "publishing"} => gen = Loader

\* load() past its announcement and unload() hold life_m_, and once either joined the
\* thread there is none.
LifeHeld ==
    \A p \in Operators :
        /\ call[p] \in (InLoad \ {"load"}) \union (InUnload \ {"unload"}) => life = p
        /\ call[p] \in {"announce", "copy", "cancel", "spawn", "unload_gen", "unload_publish"} =>
              loader = "none"

\* A turn holds a session from Pick to Unlock.
OwnWhileHolding == \A c \in Clients : own[c] # NoSession => at[c] \in Using \union {"publish", "unlock"}

\* The figures kept are the session's, and a new one finds none.
Figures ==
    /\ session # NoSession /\ last_turn # NoSession => last_turn = session
    /\ loader = "opening" => session = NoSession /\ last_turn = NoSession
    /\ state = "Ready" /\ session = NoSession => loader = "opening"

IInv ==
    /\ TypeOK
    /\ GenHeld /\ LifeHeld /\ OwnWhileHolding
    /\ UnderTheTurn /\ ClosedUnlessReady /\ Figures
    /\ RecordsAfresh /\ GoneStopsItsOwn
=============================================================================
