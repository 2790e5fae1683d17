-------------------------------- MODULE Line --------------------------------
(***************************************************************************)
(* What the admission line of the server promises: the requests for the    *)
(* one generation the engine runs at a time form a bounded queue.  Whoever *)
(* is at its head has the turn, newcomers go to its tail, a request that   *)
(* stops waiting leaves from the middle, and nobody overtakes.  TurnQueue  *)
(* (server/turn_queue.cpp) is shown to implement this with tickets.        *)
(***************************************************************************)
EXTENDS Naturals, Sequences, SequencesExt

CONSTANTS Callers,      \* the threads that ask for a turn
          MaxWaiting    \* how many may wait behind the one at the head

VARIABLES line,     \* who is in line, in the order of arrival
          running   \* who has the turn: nobody, or the head once it has begun

vars == <<line, running>>

TypeOK == line \in Seq(Callers) /\ IsInjective(line) /\ running \subseteq Callers

Init == line = <<>> /\ running = {}

\* A newcomer joins the tail while fewer than MaxWaiting + 1 are in line; with
\* nobody before it, it has the turn at once.
Join(c) ==
    /\ c \notin Range(line)
    /\ Len(line) <= MaxWaiting
    /\ line' = Append(line, c)
    /\ running' = IF line = <<>> THEN {c} ELSE running

\* The head begins its turn.
Begin ==
    /\ line # <<>> /\ running = {}
    /\ running' = {Head(line)}
    /\ UNCHANGED line

\* Somebody behind the head gives up; the order of the others is kept.
GiveUp(c) ==
    /\ \E i \in 2..Len(line) : line[i] = c /\ line' = RemoveAt(line, i)
    /\ UNCHANGED running

\* The turn of the head ends.
Finish ==
    /\ line # <<>> /\ running = {Head(line)}
    /\ line' = Tail(line) /\ running' = {}

Next == Begin \/ Finish \/ \E c \in Callers : Join(c) \/ GiveUp(c)

Spec == Init /\ [][Next]_vars
=============================================================================
