----------------------------- MODULE ReadyWait -----------------------------
(***************************************************************************)
(* How a compute thread waits for a slice under overlap: on_expert_ready   *)
(* against the publishers of core/src/moe/expert_stream_source.cpp - the   *)
(* I/O lanes, and the eval thread when it gives the run up.                *)
(*                                                                         *)
(* A lane publishes without the mutex: it stores the flag, then looks at   *)
(* the number of waiters, and only if there is one does it take ready_mtx_ *)
(* and notify.  A thread registers as a waiter, looks at the flag again,   *)
(* and only then sleeps.  Each step below is one seq_cst access, or one    *)
(* hold of the mutex.                                                      *)
(***************************************************************************)
EXTENDS Naturals, FiniteSets

CONSTANTS Threads,   \* the compute threads
          Lanes,     \* the I/O lanes
          Flags      \* ready_: one flag per expert and projection

ASSUME WaitAssumption == IsFiniteSet(Threads)

VARIABLES
    todo,       \* the flags whose read is in the batch and not yet taken
    up,         \* the flags that carry async_gen_
    later,      \* the flags of the second wave, not yet appended
    fatal,      \* fatal_
    waiters,    \* ready_waiters_
    lane,       \* where each lane is
    job,        \* the flag whose slice each lane reads
    thread,     \* where each compute thread is
    want,       \* the flag each compute thread asks about
    eval        \* "running", or "telling": fatal_ is set, the notify is to come

vars == <<todo, up, later, fatal, waiters, lane, job, thread, want, eval>>

\* The threads counted in waiters, and those on the condition variable.
Registered == {t \in Threads : thread[t] \in {"look", "lock", "asleep", "leave"}}
Asleep == {t \in Threads : thread[t] = "asleep"}

TypeOK ==
    /\ todo \subseteq Flags /\ up \subseteq Flags /\ later \subseteq Flags
    /\ fatal \in BOOLEAN /\ waiters \in Nat
    /\ lane \in [Lanes -> {"idle", "reading", "storing", "looking", "telling"}]
    /\ job \in [Lanes -> Flags]
    /\ thread \in [Threads -> {"computing", "spinning", "look", "lock", "asleep", "leave",
                               "telling"}]
    /\ want \in [Threads -> Flags]
    /\ eval \in {"running", "telling"}

Init ==
    /\ todo = {} /\ up = {} /\ later = {}
    /\ fatal = FALSE /\ waiters = 0
    /\ lane = [l \in Lanes |-> "idle"] /\ job \in [Lanes -> Flags]
    /\ thread = [t \in Threads |-> "computing"] /\ want \in [Threads -> Flags]
    /\ eval = "running"

\* The predicate of every wait of t.
Released(t) == want[t] \in up \/ fatal

\* notify_all, under ready_mtx_: every sleeper contends for the mutex again.
Woken == [t \in Threads |-> IF thread[t] = "asleep" THEN "lock" ELSE thread[t]]

\* The flags of the batch whose store is still to come.
Coming == todo \union later \union
              {job[l] : l \in {k \in Lanes : lane[k] \in {"reading", "storing"}}}

---------------------------------------------------------------------------
(* The eval thread.                                                        *)

\* load_layer_async: once the last batch is drained and its graph node over, the
\* generation moves on, which lowers every flag but the hits'; the misses are
\* published, in one wave or two.
Publish(hits, first, second) ==
    /\ eval = "running" /\ ~fatal
    /\ todo = {} /\ later = {} /\ \A l \in Lanes : lane[l] = "idle"
    /\ \A t \in Threads : thread[t] = "computing"
    /\ up' = hits /\ todo' = first /\ later' = second
    /\ UNCHANGED <<fatal, waiters, lane, job, thread, want, eval>>

\* The seeded bug of Append2: the second wave replaces what is left of the first.
AppendOver ==
    /\ eval = "running" /\ later # {}
    /\ todo' = later /\ later' = {}
    /\ UNCHANGED <<up, fatal, waiters, lane, job, thread, want, eval>>

\* The second wave is appended to the batch.
Append2 ==
    /\ eval = "running" /\ later # {}
    /\ todo' = todo \union later /\ later' = {}
    /\ UNCHANGED <<up, fatal, waiters, lane, job, thread, want, eval>>

\* A commit of the second wave fails, or the source shuts down.
GiveUp ==
    /\ eval = "running" /\ (~fatal \/ later # {})
    /\ fatal' = TRUE /\ later' = {}
    /\ eval' = "telling"
    /\ UNCHANGED <<todo, up, waiters, lane, job, thread, want>>

EvalTell ==
    /\ eval = "telling"
    /\ thread' = Woken
    /\ eval' = "running"
    /\ UNCHANGED <<todo, up, later, fatal, waiters, lane, job, want>>

---------------------------------------------------------------------------
(* A lane: io_drain.                                                       *)

Take(l) ==
    /\ lane[l] = "idle"
    /\ \E f \in todo : job' = [job EXCEPT ![l] = f] /\ todo' = todo \ {f}
    /\ lane' = [lane EXCEPT ![l] = "reading"]
    /\ UNCHANGED <<up, later, fatal, waiters, thread, want, eval>>

\* The read returns; if it failed the run is fatal before the flag goes up.
ReadEnds(l, ok) ==
    /\ lane[l] = "reading"
    /\ fatal' = (fatal \/ ~ok)
    /\ lane' = [lane EXCEPT ![l] = "storing"]
    /\ UNCHANGED <<todo, up, later, waiters, job, thread, want, eval>>

\* The flag is stored, with the mutex held by nobody in particular.
Store(l) ==
    /\ lane[l] = "storing"
    /\ up' = up \union {job[l]}
    /\ lane' = [lane EXCEPT ![l] = "looking"]
    /\ UNCHANGED <<todo, later, fatal, waiters, job, thread, want, eval>>

\* The number of waiters is read after the store.
Look(l) ==
    /\ lane[l] = "looking"
    /\ lane' = [lane EXCEPT ![l] = IF waiters = 0 THEN "idle" ELSE "telling"]
    /\ UNCHANGED <<todo, up, later, fatal, waiters, job, thread, want, eval>>

\* The seeded bug of Tell: notify_one.
TellOne(l) ==
    /\ lane[l] = "telling"
    /\ IF Asleep = {} THEN UNCHANGED thread
       ELSE \E t \in Asleep : thread' = [thread EXCEPT ![t] = "lock"]
    /\ lane' = [lane EXCEPT ![l] = "idle"]
    /\ UNCHANGED <<todo, up, later, fatal, waiters, job, want, eval>>

Tell(l) ==
    /\ lane[l] = "telling"
    /\ thread' = Woken
    /\ lane' = [lane EXCEPT ![l] = "idle"]
    /\ UNCHANGED <<todo, up, later, fatal, waiters, job, want, eval>>

LaneStep(l) ==
    \/ Take(l)
    \/ \E ok \in BOOLEAN : ReadEnds(l, ok)
    \/ Store(l) \/ Look(l) \/ Tell(l)

---------------------------------------------------------------------------
(* A compute thread: on_expert_ready.                                      *)

Moves(t, to) == thread' = [thread EXCEPT ![t] = to]

\* The kernel needs a slice of the layer in flight; a flag that is up is passed.
\* Once the run is fatal the flag may be one nobody will ever raise.
Ask(t, f) ==
    /\ thread[t] = "computing"
    /\ f \notin up
    /\ f \in Coming \/ fatal
    /\ want' = [want EXCEPT ![t] = f]
    /\ Moves(t, "spinning")
    /\ UNCHANGED <<todo, up, later, fatal, waiters, lane, job, eval>>

\* The kernel asks for a layer that was not staged: the run is fatal.
AskForeign(t) ==
    /\ thread[t] = "computing" /\ ~fatal
    /\ fatal' = TRUE
    /\ Moves(t, "telling")
    /\ UNCHANGED <<todo, up, later, waiters, lane, job, want, eval>>

AskForeignTell(t) ==
    /\ thread[t] = "telling"
    /\ thread' = [Woken EXCEPT ![t] = "computing"]
    /\ UNCHANGED <<todo, up, later, fatal, waiters, lane, job, want, eval>>

\* The short spin ends because the slice landed ...
SpinHit(t) ==
    /\ thread[t] = "spinning" /\ Released(t)
    /\ Moves(t, "computing")
    /\ UNCHANGED <<todo, up, later, fatal, waiters, lane, job, want, eval>>

\* The seeded bug of Register: the thread goes to sleep uncounted.
RegisterNot(t) ==
    /\ thread[t] = "spinning"
    /\ Moves(t, "look")
    /\ UNCHANGED <<todo, up, later, fatal, waiters, lane, job, want, eval>>

\* ... or runs out: the thread registers before its last look.
Register(t) ==
    /\ thread[t] = "spinning"
    /\ waiters' = waiters + 1
    /\ Moves(t, "look")
    /\ UNCHANGED <<todo, up, later, fatal, lane, job, want, eval>>

\* The seeded bug of LookAgain: a thread that finds its flag up returns at once,
\* still counted.
LookReturns(t) ==
    /\ thread[t] = "look"
    /\ Moves(t, IF Released(t) THEN "computing" ELSE "lock")
    /\ UNCHANGED <<todo, up, later, fatal, waiters, lane, job, want, eval>>

\* The last look without the mutex.
LookAgain(t) ==
    /\ thread[t] = "look"
    /\ Moves(t, IF Released(t) THEN "leave" ELSE "lock")
    /\ UNCHANGED <<todo, up, later, fatal, waiters, lane, job, want, eval>>

\* The wait: with the mutex held, the predicate, and if it is false to sleep,
\* which lets go of the mutex.
Wait(t) ==
    /\ thread[t] = "lock"
    /\ Moves(t, IF Released(t) THEN "leave" ELSE "asleep")
    /\ UNCHANGED <<todo, up, later, fatal, waiters, lane, job, want, eval>>

\* A wake-up nobody sent.
SpuriousWake(t) ==
    /\ thread[t] = "asleep"
    /\ Moves(t, "lock")
    /\ UNCHANGED <<todo, up, later, fatal, waiters, lane, job, want, eval>>

Leave(t) ==
    /\ thread[t] = "leave"
    /\ waiters' = waiters - 1
    /\ Moves(t, "computing")
    /\ UNCHANGED <<todo, up, later, fatal, lane, job, want, eval>>

\* What the thread does once it asked, whatever others do.
Go(t) == SpinHit(t) \/ Register(t) \/ LookAgain(t) \/ Wait(t) \/ Leave(t) \/ AskForeignTell(t)

ThreadStep(t) ==
    \/ \E f \in Flags : Ask(t, f)
    \/ AskForeign(t)
    \/ Go(t)
    \/ SpuriousWake(t)

---------------------------------------------------------------------------
EvalStep ==
    \/ \E hits, first, second \in SUBSET Flags :
          /\ hits \intersect first = {} /\ (hits \union first) \intersect second = {}
          /\ Publish(hits, first, second)
    \/ Append2 \/ GiveUp \/ EvalTell

Next ==
    \/ EvalStep
    \/ \E l \in Lanes : LaneStep(l)
    \/ \E t \in Threads : ThreadStep(t)

Spec == Init /\ [][Next]_vars

\* The lanes' reads end, the eval thread finishes its load, and a compute thread
\* goes on; none of them is bound to begin anything, nor to wake for nothing.
FairSpec ==
    /\ Spec
    /\ WF_vars(Append2) /\ WF_vars(EvalTell)
    /\ \A l \in Lanes : WF_vars(LaneStep(l))
    /\ \A t \in Threads : WF_vars(Go(t))

---------------------------------------------------------------------------
(* Correctness.                                                            *)

\* ready_waiters_ counts the registered threads.
CountExact == waiters = Cardinality(Registered)

\* A notify that is bound to come: somebody holds the news and will tell.
TellerOf(l) == lane[l] = "telling" \/ (lane[l] = "looking" /\ waiters # 0)
SomebodyTells ==
    \/ eval = "telling"
    \/ \E l \in Lanes : TellerOf(l) \/ (fatal /\ lane[l] = "storing")
    \/ \E t \in Threads : thread[t] = "telling"

\* No wake-up is lost: a thread sleeps through the landing of its slice, or
\* through the end of the run, only while somebody is on the way to notify it
\* (the comments at io_drain's store and at on_expert_ready's registration).
NoLostWakeup == \A t \in Asleep : Released(t) => SomebodyTells

\* The invariant those two need: the types, and each other.
IInv == TypeOK /\ CountExact /\ NoLostWakeup

\* What nobody has read yet is somebody's to read: a flag a thread waits for is
\* up, or its read is queued or under way, or the run is fatal.
NobodyWaitsInVain ==
    \A t \in Threads :
        thread[t] \notin {"computing", "telling"} => want[t] \in up \union Coming \/ fatal

\* Every thread that asked for a slice goes on computing.
EveryoneGoesOn == \A t \in Threads : (thread[t] = "spinning") ~> (thread[t] = "computing")
=============================================================================
