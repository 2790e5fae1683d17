----------------------------- MODULE TurnQueue ------------------------------
(***************************************************************************)
(* The line of turns (server/turn_queue.cpp): a ticket lock with a bound   *)
(* and with places given back.  enter() is several critical sections of    *)
(* m_: taking a ticket, the wake-ups of wait_for, and, between two of them *)
(* and without the lock, the callback that says whether the client is      *)
(* still there.  Everything under one hold of m_ is one action.            *)
(***************************************************************************)
EXTENDS Naturals, FiniteSets

CONSTANTS Callers,      \* the threads that call enter()
          MaxWaiting,   \* max_waiting_
          MaxTickets    \* bound: how many tickets a behaviour hands out

ASSUME QueueAssumption ==
    /\ IsFiniteSet(Callers)
    /\ MaxWaiting \in Nat
    /\ MaxTickets \in Nat

VARIABLES next_ticket,  \* the ticket the next caller takes
          serving,      \* the ticket whose turn it is
          gone,         \* tickets given up while waiting
          pc,           \* where each caller is in enter()/leave()
          ticket,       \* the ticket each caller in enter() holds
          turned_away   \* callers whose last enter() returned Full

vars == <<next_ticket, serving, gone, pc, ticket, turned_away>>

\* "idle": outside; "waiting": in cv_.wait_for; "asking": in still_wanted(),
\* without the lock; "running": enter() granted and leave() not yet called.
Places == {"idle", "waiting", "asking", "running"}

TypeOK ==
    /\ next_ticket \in 0..MaxTickets
    /\ serving \in 0..MaxTickets
    /\ gone \subseteq 0..MaxTickets
    /\ pc \in [Callers -> Places]
    /\ ticket \in [Callers -> 0..MaxTickets]
    /\ turned_away \subseteq Callers

Init ==
    /\ next_ticket = 0 /\ serving = 0 /\ gone = {}
    /\ pc = [c \in Callers |-> "idle"]
    /\ ticket = [c \in Callers |-> 0]
    /\ turned_away = {}

\* (size_t) (next_ticket_ - serving_) - gone_.size()
InLine == (next_ticket - serving) - Cardinality(gone)

---------------------------------------------------------------------------

\* enter() with the line full: nothing is held.
EnterFull(c) ==
    /\ pc[c] = "idle"
    /\ InLine > MaxWaiting
    /\ turned_away' = turned_away \union {c}
    /\ UNCHANGED <<next_ticket, serving, gone, pc, ticket>>

\* The seeded bug of Enter: one more than the bound is let in.
EnterOneTooMany(c) ==
    /\ pc[c] = "idle"
    /\ InLine <= MaxWaiting + 1
    /\ next_ticket < MaxTickets
    /\ next_ticket' = next_ticket + 1
    /\ ticket' = [ticket EXCEPT ![c] = next_ticket]
    /\ pc' = [pc EXCEPT ![c] = IF serving = next_ticket THEN "running" ELSE "waiting"]
    /\ turned_away' = turned_away \ {c}
    /\ UNCHANGED <<serving, gone>>

\* enter() takes a ticket; the loop is not entered when the ticket is already
\* being served.
Enter(c) ==
    /\ pc[c] = "idle"
    /\ InLine <= MaxWaiting
    /\ next_ticket < MaxTickets
    /\ next_ticket' = next_ticket + 1
    /\ ticket' = [ticket EXCEPT ![c] = next_ticket]
    /\ pc' = [pc EXCEPT ![c] = IF serving = next_ticket THEN "running" ELSE "waiting"]
    /\ turned_away' = turned_away \ {c}
    /\ UNCHANGED <<serving, gone>>

\* The seeded bug of WakeServed: any wake-up is taken for the turn.
WakeServedUnchecked(c) ==
    /\ pc[c] = "waiting"
    /\ pc' = [pc EXCEPT ![c] = "running"]
    /\ UNCHANGED <<next_ticket, serving, gone, ticket, turned_away>>

\* wait_for returns (notified, timed out or spuriously) and the turn is here.
WakeServed(c) ==
    /\ pc[c] = "waiting" /\ serving = ticket[c]
    /\ pc' = [pc EXCEPT ![c] = "running"]
    /\ UNCHANGED <<next_ticket, serving, gone, ticket, turned_away>>

\* wait_for returns, the turn is not here, and there is a callback to ask: the
\* lock is dropped for it.
WakeAsk(c) ==
    /\ pc[c] = "waiting" /\ serving # ticket[c]
    /\ pc' = [pc EXCEPT ![c] = "asking"]
    /\ UNCHANGED <<next_ticket, serving, gone, ticket, turned_away>>

\* Back under the lock with an answer that does not end the wait: still
\* wanted, or the turn came while the callback ran.
AnswerStay(c) ==
    /\ pc[c] = "asking"
    /\ pc' = [pc EXCEPT ![c] = IF serving = ticket[c] THEN "running" ELSE "waiting"]
    /\ UNCHANGED <<next_ticket, serving, gone, ticket, turned_away>>

\* The seeded bug of AnswerGone: `serving_` is not read again after the callback.
AnswerGoneUnchecked(c) ==
    /\ pc[c] = "asking"
    /\ gone' = gone \union {ticket[c]}
    /\ pc' = [pc EXCEPT ![c] = "idle"]
    /\ UNCHANGED <<next_ticket, serving, ticket, turned_away>>

\* The client is gone and its turn has not come: the place is given back.
AnswerGone(c) ==
    /\ pc[c] = "asking" /\ serving # ticket[c]
    /\ gone' = gone \union {ticket[c]}
    /\ pc' = [pc EXCEPT ![c] = "idle"]
    /\ UNCHANGED <<next_ticket, serving, ticket, turned_away>>

\* t is where skip_gone_locked() stops when it starts at s: the first ticket
\* from s on that was not given up.
SkipsTo(s, t) == t >= s /\ t \notin gone /\ s..(t - 1) \subseteq gone

\* The seeded bug of Leave: the tickets given up are not skipped.
LeaveWithoutSkip(c) ==
    /\ pc[c] = "running"
    /\ serving' = serving + 1
    /\ pc' = [pc EXCEPT ![c] = "idle"]
    /\ UNCHANGED <<next_ticket, gone, ticket, turned_away>>

\* The seeded bug of Leave: the skipped tickets stay on the list.
LeaveKeepsGone(c) ==
    /\ pc[c] = "running"
    /\ \E t \in 0..next_ticket : SkipsTo(serving + 1, t) /\ serving' = t
    /\ pc' = [pc EXCEPT ![c] = "idle"]
    /\ UNCHANGED <<next_ticket, gone, ticket, turned_away>>

\* leave(): the next ticket not given up is served.
Leave(c) ==
    /\ pc[c] = "running"
    /\ \E t \in 0..next_ticket :
          /\ SkipsTo(serving + 1, t)
          /\ serving' = t
          /\ gone' = gone \ ((serving + 1)..(t - 1))
    /\ pc' = [pc EXCEPT ![c] = "idle"]
    /\ UNCHANGED <<next_ticket, ticket, turned_away>>

\* Not in the code: every ticket of the bound was handed out and nobody is in
\* line, so the behaviour ends (and any other standstill is a deadlock).
Exhausted ==
    /\ next_ticket = MaxTickets
    /\ \A c \in Callers : pc[c] = "idle"
    /\ UNCHANGED vars

Step(c) ==
    \/ EnterFull(c) \/ Enter(c)
    \/ WakeServed(c) \/ WakeAsk(c)
    \/ AnswerStay(c) \/ AnswerGone(c)
    \/ Leave(c)

Next == Exhausted \/ \E c \in Callers : Step(c)

Spec == Init /\ [][Next]_vars

\* wait_for times out every poll, so a caller in the loop always runs again; the
\* callback returns; a turn ends and leave() follows (struct Leave of chat()).
Fairness ==
    \A c \in Callers :
        /\ WF_vars(WakeServed(c))
        /\ WF_vars(AnswerStay(c) \/ AnswerGone(c))
        /\ WF_vars(Leave(c))

FairSpec == Spec /\ Fairness

---------------------------------------------------------------------------

Live == {c \in Callers : pc[c] # "idle"}

\* At most one caller has the turn (turn_queue.h: "the one generation the
\* engine runs at a time"), whoever gave up and whenever.
OneTurn == \A c, d \in Callers : pc[c] = "running" /\ pc[d] = "running" => c = d

\* The line never stops at a ticket nobody holds: while anyone is in line, the
\* ticket being served belongs to a caller that can still take its turn.  A
\* caller that gave up its place as the turn reached it would break this.
NeverStalled ==
    serving < next_ticket => \E c \in Live : ticket[c] = serving

\* The size_t subtraction of enter() and waiting() counts exactly the callers in
\* line: it does not wrap, a place given back is counted free at once, and so nobody
\* is turned away with a place free.
CountIsExact == InLine = Cardinality(Live)

\* At most MaxWaiting callers behind the one whose turn it is.
Bounded == Cardinality(Live) <= MaxWaiting + 1

\* The callers in line, in the order of their tickets.
LineOf ==
    CHOOSE s \in [1..Cardinality(Live) -> Live] :
        \A i, j \in DOMAIN s : i < j => ticket[s[i]] < ticket[s[j]]

Abstract == INSTANCE Line WITH line <- LineOf,
                               running <- {c \in Callers : pc[c] = "running"}

\* The tickets implement the line: every step of enter() and leave() is a Join, a
\* Begin, a GiveUp or a Finish of it, or changes nothing there: nobody overtakes.
ImplementsLine == Abstract!Spec

\* A caller in line gets its turn, or gives its place up itself.
Served == \A c \in Callers : pc[c] \in {"waiting", "asking"} ~> pc[c] \in {"running", "idle"}

---------------------------------------------------------------------------

\* Every live place holds a ticket of its own from serving on that was not given up,
\* and every ticket from serving on is held or given up.
LiveTickets ==
    \A c \in Callers : pc[c] # "idle" =>
        /\ serving <= ticket[c] /\ ticket[c] < next_ticket
        /\ ticket[c] \notin gone
        /\ pc[c] = "running" => ticket[c] = serving

TicketsApart ==
    \A c, d \in Callers :
        pc[c] # "idle" /\ pc[d] # "idle" /\ ticket[c] = ticket[d] => c = d

GoneAhead == \A t \in gone : serving < t /\ t < next_ticket

EveryTicketAccounted ==
    \A t \in serving..(next_ticket - 1) :
        t \in gone \/ \E c \in Callers : pc[c] # "idle" /\ ticket[c] = t

IInv ==
    /\ TypeOK
    /\ serving <= next_ticket
    /\ LiveTickets
    /\ TicketsApart
    /\ GoneAhead
    /\ EveryTicketAccounted
=============================================================================
