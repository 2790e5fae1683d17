------------------------------ MODULE AgentRuns ------------------------------
(***************************************************************************)
(* The runs of the agent (server/agent.cpp): a message starts a run on a   *)
(* thread of its own, which asks the model in rounds and does the tools it *)
(* calls, some of them after an approval.  HTTP workers send, edit,        *)
(* remove, approve and stop; the scheduler starts the tasks; shutdown()    *)
(* waits for all of it.                                                    *)
(*                                                                         *)
(* A step is what one thread does under m_ or under a run's m, or one call *)
(* of the store.  The model and the tools return.  All conversations share *)
(* one workspace; those of other agents (agent_external.cpp) are left out. *)
(***************************************************************************)
EXTENDS Integers, FiniteSets

CONSTANTS Convs,       \* the conversations people send to
          Tasks,       \* the scheduled tasks
          Full,        \* the conversations and tasks whose mode asks for no approval
          Workers,     \* the HTTP workers
          Scheduler,   \* the scheduler's thread
          MaxRuns,     \* bounds the runs
          MaxItems,    \* bounds the changes a run's tools plan
          MaxCalls     \* bounds the calls of the HTTP workers

ASSUME AgentRunsAssumption ==
    /\ Full \subseteq Convs \cup Tasks /\ Scheduler \notin Workers /\ Tasks \cap Convs = {}
    /\ MaxRuns \in Nat \ {0} /\ MaxItems \in Nat \ {0} /\ MaxCalls \in Nat

Runs == 1..MaxRuns
Items == 1..MaxItems
Callers == Workers \cup {Scheduler}
None == "none"

VARIABLES
    pc,           \* where the thread of each run is
    conv,         \* the conversation of each run
    item,         \* the item it is at
    stop,         \* its stop
    read,         \* what finish_task read
    slot,         \* decisions: the decision slot of each item of each run
    card,         \* the items of each run that were shown to wait
    outdated,     \* the runs whose planned change the file has since left behind
    live,         \* runs_
    active,       \* active_
    finished,     \* finished_
    runningTasks, \* running_tasks_
    lastRun,      \* the store: the last run of each task and its outcome
    exists,       \* the store: the conversations that are there
    at,           \* where each caller is
    to, on,       \* the conversation and the run of its call
    answer,       \* the item it answers, and its yes
    reap,         \* the threads it joins
    calls,
    shut,         \* where shutdown() is
    told,         \* the runs it has yet to stop, or to join
    said          \* the answers people gave: <<run, item, yes>>

record == <<conv, item, stop, read>>
approval == <<slot, card, outdated>>
books == <<live, active, finished>>
tasks == <<runningTasks, lastRun>>
request == <<to, on, answer, reap, calls>>
ending == <<shut, told>>
vars == <<pc, record, approval, books, tasks, exists, at, request, ending, said>>

NeverRan == [r |-> 0, outcome |-> None]
NoAnswer == [item |-> 0, yes |-> FALSE]

RunPlaces == {"none", "created", "registered", "rounds", "asking", "tool", "slot", "shown", "check", "sleep",
              "asleep", "act", "ending", "erased", "task", "taskPut", "last", "counted", "exited", "joined"}
CallPlaces == {"idle", "cut", "remove", "register", "reap", "spawn", "approve", "stop", "notify",
               "create", "refused", "putError", "gone"}
LastRuns == [r : 0..MaxRuns, outcome : {None, "running", "over", "error"}]
AllConvs == Convs \cup Tasks \cup {None}

TypeOK ==
    /\ pc \in [Runs -> RunPlaces] /\ conv \in [Runs -> AllConvs] /\ item \in [Runs -> 0..MaxItems]
    /\ stop \in [Runs -> BOOLEAN] /\ read \in [Runs -> LastRuns]
    /\ slot \in [Runs -> [Items -> {"none", "waiting", "yes", "no"}]] /\ card \in [Runs -> SUBSET Items]
    /\ outdated \subseteq Runs
    /\ live \subseteq Runs /\ active \in Int /\ finished \subseteq Runs
    /\ runningTasks \subseteq Tasks /\ lastRun \in [Tasks -> LastRuns] /\ exists \subseteq Convs
    /\ at \in [Callers -> CallPlaces] /\ to \in [Callers -> AllConvs] /\ on \in [Callers -> 0..MaxRuns]
    /\ answer \in [Callers -> [item : 0..MaxItems, yes : BOOLEAN]] /\ reap \in [Callers -> SUBSET Runs]
    /\ calls \in Nat
    /\ shut \in {"no", "scheduler", "runs", "wait", "join", "returned"} /\ told \subseteq Runs
    /\ said \subseteq Runs \X Items \X BOOLEAN

Init ==
    /\ pc = [r \in Runs |-> "none"] /\ conv = [r \in Runs |-> None] /\ item = [r \in Runs |-> 0]
    /\ stop = [r \in Runs |-> FALSE] /\ read = [r \in Runs |-> NeverRan]
    /\ slot = [r \in Runs |-> [i \in Items |-> "none"]] /\ card = [r \in Runs |-> {}] /\ outdated = {}
    /\ live = {} /\ active = 0 /\ finished = {} /\ runningTasks = {}
    /\ lastRun = [t \in Tasks |-> NeverRan] /\ exists = Convs
    /\ at = [w \in Callers |-> "idle"] /\ to = [w \in Callers |-> None] /\ on = [w \in Callers |-> 0]
    /\ answer = [w \in Callers |-> NoAnswer] /\ reap = [w \in Callers |-> {}] /\ calls = 0
    /\ shut = "no" /\ told = {} /\ said = {}

At(r, p) == pc[r] = p
OfTask(r) == conv[r] \in Tasks
Asks(r) == conv[r] \notin Full
\* runs_, by conversation: each run of a task has a conversation of its own.
RunOf(c) == {r \in live : conv[r] = c /\ c \in Convs}
\* No thread but the run's own holds its m for more than a step.
MutexFree(r) == ~At(r, "sleep")

----------------------------------------------------------------------------
(***************************************************************************)
(* A run's thread: the rounds, and the approvals.                          *)
(***************************************************************************)
Goto(r, p) == pc' = [pc EXCEPT ![r] = p]
RunOnly == UNCHANGED <<conv, stop, books, tasks, exists, at, request, ending, said>>

RoundTop(r) ==
    /\ At(r, "rounds")
    /\ Goto(r, IF stop[r] THEN "ending" ELSE "asking")
    /\ RunOnly /\ UNCHANGED <<item, read, approval>>

\* A model that failed or is through, or one that calls tools.
Answered(r) ==
    /\ At(r, "asking")
    /\ Goto(r, "ending") \/ (~stop[r] /\ Goto(r, "tool"))
    /\ RunOnly /\ UNCHANGED <<item, read, approval>>

\* The calls are through, or the same one failed once too often.
RoundOver(r) ==
    /\ At(r, "tool")
    /\ Goto(r, "rounds") \/ (~stop[r] /\ Goto(r, "ending"))
    /\ RunOnly /\ UNCHANGED <<item, read, approval>>

\* A call that changes a file: planned for its card.  The run of a task that would have to ask is
\* refused, and does not do it.
Plan(r) ==
    /\ At(r, "tool") /\ ~stop[r] /\ item[r] < MaxItems /\ ~(OfTask(r) /\ Asks(r))
    /\ Goto(r, IF Asks(r) THEN "slot" ELSE "act")
    /\ item' = [item EXCEPT ![r] = @ + 1] /\ outdated' = outdated \ {r}
    /\ RunOnly /\ UNCHANGED <<read, slot, card>>

OpenSlot(r) == slot' = [slot EXCEPT ![r][item[r]] = "waiting"]
ShowCard(r) == card' = [card EXCEPT ![r] = @ \cup {item[r]}]

\* MUTANT of Ask: the card first, its decision slot after it.
AskCardFirst(r) ==
    /\ \/ At(r, "slot") /\ ShowCard(r) /\ Goto(r, "shown") /\ UNCHANGED slot
       \/ At(r, "shown") /\ OpenSlot(r) /\ Goto(r, "check") /\ UNCHANGED card
    /\ RunOnly /\ UNCHANGED <<item, read, outdated>>

\* The decision slot first, so that an answer which follows the card at once is taken.
Ask(r) ==
    /\ \/ At(r, "slot") /\ OpenSlot(r) /\ Goto(r, "shown") /\ UNCHANGED card
       \/ At(r, "shown") /\ ShowCard(r) /\ Goto(r, "check") /\ UNCHANGED slot
    /\ RunOnly /\ UNCHANGED <<item, read, outdated>>

\* The wait's predicate, under the run's m: held on until the thread sleeps.
Decide(r) ==
    /\ At(r, "check")
    /\ IF slot[r][item[r]] # "waiting" \/ stop[r]
       THEN /\ Goto(r, IF slot[r][item[r]] = "yes" /\ ~stop[r] THEN "act" ELSE "tool")
            /\ slot' = [slot EXCEPT ![r][item[r]] = "none"]
       ELSE Goto(r, "sleep") /\ UNCHANGED slot
    /\ RunOnly /\ UNCHANGED <<item, read, card, outdated>>

Sleep(r) ==
    /\ At(r, "sleep")
    /\ Goto(r, "asleep")
    /\ RunOnly /\ UNCHANGED <<item, read, approval>>

\* The change is planned again, for the file as it is now, and written: no look at stop.
Write(r) ==
    /\ At(r, "act")
    /\ Goto(r, "tool")
    /\ outdated' = {x \in Runs \ {r} : x \in outdated \/ pc[x] \in {"slot", "shown", "check", "sleep", "asleep", "act"}}
    /\ RunOnly /\ UNCHANGED <<item, read, slot, card>>

WriteFails(r) ==
    /\ At(r, "act")
    /\ Goto(r, "tool")
    /\ RunOnly /\ UNCHANGED <<item, read, approval>>

----------------------------------------------------------------------------
(***************************************************************************)
(* A run's end, in its order: out of runs_, its task, then counted.        *)
(***************************************************************************)
Erase(r) ==
    /\ At(r, "ending")
    /\ Goto(r, IF OfTask(r) THEN "erased" ELSE "last") /\ live' = live \ {r}
    /\ UNCHANGED <<record, approval, active, finished, tasks, exists, at, request, ending, said>>

TaskOver(r) ==
    /\ At(r, "erased")
    /\ Goto(r, "task") /\ runningTasks' = runningTasks \ {conv[r]}
    /\ UNCHANGED <<record, approval, books, lastRun, exists, at, request, ending, said>>

\* finish_task reads the task, and puts all of it back.
TaskRead(r) ==
    /\ At(r, "task")
    /\ Goto(r, "taskPut") /\ read' = [read EXCEPT ![r] = lastRun[conv[r]]]
    /\ RunOnly /\ UNCHANGED <<item, approval>>

TaskPut(r) ==
    /\ At(r, "taskPut")
    /\ Goto(r, "last") /\ read' = [read EXCEPT ![r] = NeverRan]
    /\ lastRun' = [lastRun EXCEPT ![conv[r]] = [r |-> read[r].r, outcome |-> IF read[r].r = r THEN "over" ELSE read[r].outcome]]
    /\ UNCHANGED <<conv, item, stop, approval, books, runningTasks, exists, at, request, ending, said>>

\* done is set for a stop() that waits, which waits k_stop_wait_s at most and does nothing after.
Counted(r) ==
    /\ At(r, "last")
    /\ Goto(r, "counted") /\ finished' = finished \cup {r} /\ active' = active - 1
    /\ UNCHANGED <<record, approval, live, tasks, exists, at, request, ending, said>>

Exit(r) ==
    /\ At(r, "counted")
    /\ Goto(r, "exited")
    /\ RunOnly /\ UNCHANGED <<item, read, approval>>

RunStep(r) ==
    \/ RoundTop(r) \/ Answered(r) \/ RoundOver(r) \/ Plan(r) \/ Ask(r) \/ Decide(r) \/ Sleep(r) \/ Write(r) \/ WriteFails(r)
    \/ Erase(r) \/ TaskOver(r) \/ TaskRead(r) \/ TaskPut(r) \/ Counted(r) \/ Exit(r)

----------------------------------------------------------------------------
(***************************************************************************)
(* send, edit, remove_conversation, and start.                             *)
(***************************************************************************)
InCall(w, p) == at[w] = p
GoOn(w, p) == at' = [at EXCEPT ![w] = p]
Back(w) ==
    /\ GoOn(w, "idle") /\ to' = [to EXCEPT ![w] = None] /\ on' = [on EXCEPT ![w] = 0]
    /\ answer' = [answer EXCEPT ![w] = NoAnswer] /\ UNCHANGED <<reap, calls>>
Begins(w) == InCall(w, "idle") /\ calls < MaxCalls /\ calls' = calls + 1
CallOnly == UNCHANGED <<record, approval, books, tasks, exists, ending, said>>
\* The first run that is still to be had.
IsNext(r) == At(r, "none") /\ \A x \in 1..(r - 1) : ~At(x, "none")
Joined(rs) == pc' = [r \in Runs |-> IF r \in rs THEN "joined" ELSE pc[r]]

Send(w, c) ==
    /\ Begins(w) /\ c \in exists
    /\ GoOn(w, "register") /\ to' = [to EXCEPT ![w] = c]
    /\ CallOnly /\ UNCHANGED <<pc, on, answer, reap>>

\* edit and remove look whether the conversation runs, then change it.
Look(w, c) ==
    /\ Begins(w) /\ c \in exists /\ RunOf(c) = {}
    /\ GoOn(w, "cut") \/ GoOn(w, "remove")
    /\ to' = [to EXCEPT ![w] = c]
    /\ CallOnly /\ UNCHANGED <<pc, on, answer, reap>>

Cut(w) ==
    /\ InCall(w, "cut")
    /\ IF to[w] \in exists THEN GoOn(w, "register") /\ UNCHANGED request ELSE Back(w)
    /\ CallOnly /\ UNCHANGED pc

Remove(w) ==
    /\ InCall(w, "remove")
    /\ Back(w) /\ exists' = exists \ {to[w]}
    /\ UNCHANGED <<pc, record, approval, books, tasks, ending, said>>

Refused(w) == shut # "no" \/ RunOf(to[w]) # {}

\* The run is in runs_ and counted before its thread is there; the threads that returned are taken.
Register(w) ==
    /\ InCall(w, "register") /\ ~Refused(w)
    /\ \E r \in Runs :
         /\ IF to[w] \in Tasks THEN r = on[w] ELSE IsNext(r)
         /\ Goto(r, "registered") /\ conv' = [conv EXCEPT ![r] = to[w]]
         /\ GoOn(w, "reap") /\ on' = [on EXCEPT ![w] = r] /\ reap' = [reap EXCEPT ![w] = finished]
         /\ live' = live \cup {r} /\ finished' = {} /\ active' = active + 1
    /\ UNCHANGED <<item, stop, read, approval, tasks, exists, to, answer, calls, ending, said>>

Refuse(w) ==
    /\ InCall(w, "register") /\ Refused(w)
    /\ IF to[w] \in Tasks THEN GoOn(w, "refused") /\ UNCHANGED request ELSE Back(w)
    /\ CallOnly /\ UNCHANGED pc

Reap(w) ==
    /\ InCall(w, "reap") /\ \A r \in reap[w] : At(r, "exited")
    /\ Joined(reap[w])
    /\ GoOn(w, "spawn") /\ reap' = [reap EXCEPT ![w] = {}]
    /\ CallOnly /\ UNCHANGED <<to, on, answer, calls>>

Spawn(w) ==
    /\ InCall(w, "spawn")
    /\ Goto(on[w], "rounds") /\ Back(w)
    /\ CallOnly

\* No thread is to be had: the request ends with the exception, the run stays in the books.  (In
\* the scheduler it would end the program.)
SpawnFails(w) ==
    /\ w # Scheduler /\ InCall(w, "spawn")
    /\ Back(w)
    /\ CallOnly /\ UNCHANGED pc

----------------------------------------------------------------------------
(***************************************************************************)
(* approve and stop: the run is looked up, and then told.                  *)
(***************************************************************************)
Wake(r) == pc' = [pc EXCEPT ![r] = IF @ = "asleep" THEN "check" ELSE @]

Approve(w) ==
    /\ Begins(w)
    /\ \E r \in live, yes \in BOOLEAN : \E i \in card[r] :
         on' = [on EXCEPT ![w] = r] /\ answer' = [answer EXCEPT ![w] = [item |-> i, yes |-> yes]]
    /\ GoOn(w, "approve")
    /\ CallOnly /\ UNCHANGED <<pc, to, reap>>

\* MUTANT of Addressed: an answer is for whatever the run waits for.
AddressedToAny(w) == item[on[w]]

\* The item an answer is for.
Addressed(w) == answer[w].item

Give(w) ==
    /\ InCall(w, "approve") /\ MutexFree(on[w])
    /\ slot[on[w]][Addressed(w)] = "waiting"
    /\ slot' = [slot EXCEPT ![on[w]][Addressed(w)] = IF answer[w].yes THEN "yes" ELSE "no"]
    /\ Wake(on[w])
    /\ said' = said \cup {<<on[w], answer[w].item, answer[w].yes>>}
    /\ Back(w)
    /\ UNCHANGED <<record, card, outdated, books, tasks, exists, ending>>

NotWaiting(w) ==
    /\ InCall(w, "approve") /\ MutexFree(on[w])
    /\ slot[on[w]][Addressed(w)] # "waiting"
    /\ Back(w)
    /\ CallOnly /\ UNCHANGED pc

Stop(w) ==
    /\ Begins(w)
    /\ \E r \in live : ~OfTask(r) /\ on' = [on EXCEPT ![w] = r]
    /\ GoOn(w, "stop")
    /\ CallOnly /\ UNCHANGED <<pc, to, answer, reap>>

\* MUTANT of CanNotify: the sleepers are notified without the run's m.
CanNotifyAlways(r) == TRUE

\* The sleepers are notified under the run's m, after stop is set.
CanNotify(r) == MutexFree(r)

StopSet(w) ==
    /\ InCall(w, "stop")
    /\ stop' = [stop EXCEPT ![on[w]] = TRUE] /\ GoOn(w, "notify")
    /\ UNCHANGED <<pc, conv, item, read, approval, books, tasks, exists, request, ending, said>>

StopNotify(w) ==
    /\ InCall(w, "notify") /\ CanNotify(on[w])
    /\ Wake(on[w]) /\ Back(w)
    /\ CallOnly

----------------------------------------------------------------------------
(***************************************************************************)
(* run_task, and the scheduler.                                            *)
(***************************************************************************)
\* A task that is due by the list the scheduler read, or that a person runs now; never twice at a time.
TaskBegins(w, t) ==
    /\ InCall(w, "idle") /\ t \notin runningTasks
    /\ IF w = Scheduler THEN UNCHANGED calls ELSE calls < MaxCalls /\ calls' = calls + 1
    /\ runningTasks' = runningTasks \cup {t}
    /\ \E r \in Runs : IsNext(r) /\ Goto(r, "created") /\ on' = [on EXCEPT ![w] = r]
    /\ GoOn(w, "create") /\ to' = [to EXCEPT ![w] = t]
    /\ UNCHANGED <<record, approval, books, lastRun, exists, answer, reap, ending, said>>

\* Its conversation is created, and the task put with it.
TaskCreates(w) ==
    /\ InCall(w, "create")
    /\ lastRun' = [lastRun EXCEPT ![to[w]] = [r |-> on[w], outcome |-> "running"]]
    /\ GoOn(w, "register")
    /\ UNCHANGED <<pc, record, approval, books, runningTasks, exists, request, ending, said>>

TaskRefused(w) ==
    /\ InCall(w, "refused")
    /\ runningTasks' = runningTasks \ {to[w]} /\ GoOn(w, "putError")
    /\ UNCHANGED <<pc, record, approval, books, lastRun, exists, request, ending, said>>

TaskPutError(w) ==
    /\ InCall(w, "putError")
    /\ lastRun' = [lastRun EXCEPT ![to[w]] = [r |-> on[w], outcome |-> "error"]]
    /\ Back(w)
    /\ UNCHANGED <<pc, record, approval, books, runningTasks, exists, ending, said>>

SchedulerLeaves ==
    /\ InCall(Scheduler, "idle") /\ shut # "no"
    /\ GoOn(Scheduler, "gone")
    /\ CallOnly /\ UNCHANGED <<pc, request>>

----------------------------------------------------------------------------
(***************************************************************************)
(* shutdown.                                                               *)
(***************************************************************************)
ShutOnly == UNCHANGED <<conv, item, read, approval, live, active, tasks, exists, at, request, said>>

ShutBegins ==
    /\ shut = "no"
    /\ shut' = "scheduler" /\ told' = live
    /\ ShutOnly /\ UNCHANGED <<pc, stop, finished>>

SchedulerJoined ==
    /\ shut = "scheduler" /\ InCall(Scheduler, "gone")
    /\ shut' = "runs"
    /\ ShutOnly /\ UNCHANGED <<pc, stop, finished, told>>

TellStop(r) ==
    /\ shut = "runs" /\ r \in told /\ ~stop[r]
    /\ stop' = [stop EXCEPT ![r] = TRUE]
    /\ ShutOnly /\ UNCHANGED <<pc, finished, shut, told>>

TellNotify(r) ==
    /\ shut = "runs" /\ r \in told /\ stop[r] /\ CanNotify(r)
    /\ Wake(r) /\ told' = told \ {r}
    /\ ShutOnly /\ UNCHANGED <<stop, finished, shut>>

AllTold ==
    /\ shut = "runs" /\ told = {}
    /\ shut' = "wait"
    /\ ShutOnly /\ UNCHANGED <<pc, stop, finished, told>>

\* MUTANT of NoneActive: runs_ is waited for, not the threads.
NoneLive ==
    /\ shut = "wait" /\ live = {}
    /\ shut' = "join" /\ told' = finished /\ finished' = {}
    /\ ShutOnly /\ UNCHANGED <<pc, stop>>

NoneActive ==
    /\ shut = "wait" /\ active = 0
    /\ shut' = "join" /\ told' = finished /\ finished' = {}
    /\ ShutOnly /\ UNCHANGED <<pc, stop>>

JoinAll ==
    /\ shut = "join" /\ \A r \in told : At(r, "exited")
    /\ Joined(told) /\ told' = {} /\ shut' = "returned"
    /\ ShutOnly /\ UNCHANGED <<stop, finished>>

StartStep(w) == Register(w) \/ Refuse(w) \/ Reap(w) \/ Spawn(w) \/ SpawnFails(w)
TaskStep(w) == TaskCreates(w) \/ TaskRefused(w) \/ TaskPutError(w)
WorkerStep(w) == Cut(w) \/ Remove(w) \/ Give(w) \/ NotWaiting(w) \/ StopSet(w) \/ StopNotify(w)
TellRun(r) == TellStop(r) \/ TellNotify(r)
Shutdown == SchedulerJoined \/ AllTold \/ NoneActive \/ JoinAll

Next ==
    \/ \E r \in Runs : RunStep(r) \/ TellRun(r)
    \/ \E w \in Callers : StartStep(w) \/ TaskStep(w) \/ \E t \in Tasks : TaskBegins(w, t)
    \/ \E w \in Workers : WorkerStep(w) \/ Approve(w) \/ Stop(w) \/ \E c \in Convs : Send(w, c) \/ Look(w, c)
    \/ SchedulerLeaves \/ ShutBegins \/ Shutdown

\* Threads run on; nobody has to call anything, and a model or a tool returns some time.
Fairness ==
    /\ \A r \in Runs : WF_vars(RunStep(r)) /\ WF_vars(TellRun(r))
    /\ \A w \in Workers : WF_vars(StartStep(w) \/ TaskStep(w) \/ WorkerStep(w))
    /\ WF_vars(StartStep(Scheduler) \/ TaskStep(Scheduler) \/ SchedulerLeaves) /\ WF_vars(Shutdown)

Spec == Init /\ [][Next]_vars /\ Fairness

----------------------------------------------------------------------------
(***************************************************************************)
(* What the agent promises.                                                *)
(***************************************************************************)
\* "Nothing of the agent outlives this call": when shutdown() has returned, every thread that any
\* run ever had is joined, whatever start was under way when it began.
NoneOutlives == shut = "returned" => \A r \in Runs : pc[r] \in {"none", "created", "joined"}

\* A conversation that asks changes nothing that a person did not say yes to: that very item of
\* that very run, however late the answer comes.  After a stop nothing is decided to be done any
\* more; what was decided before it is done (StopIsHeard).
ActsApproved ==
    [][\A r \in Runs :
         /\ Write(r) /\ Asks(r) => <<r, item[r], TRUE>> \in said
         /\ At(r, "check") /\ pc'[r] = "act" => ~stop[r]]_vars

\* An answer to a card that is shown is refused only when the run was stopped or another answer came first.
CardAnswered ==
    [][\A w \in Workers : NotWaiting(w) =>
         stop[on[w]] \/ \E yes \in BOOLEAN : <<on[w], answer[w].item, yes>> \in said]_vars

\* shutdown() returns, whatever the runs wait for, unless a start got no thread for its run.
NeverStarted(r) == At(r, "registered") /\ \A w \in Callers : on[w] # r
ShutdownReturns == shut # "no" ~> shut = "returned" \/ \E r \in Runs : NeverStarted(r)

(***************************************************************************)
(* What is inductive: of the approvals, and of the threads.                *)
(***************************************************************************)
\* A run that asks has an item to ask for.
ItemThere == \A r \in Runs : pc[r] \in {"slot", "shown", "check", "sleep", "asleep"} => item[r] \in Items

\* A run that ends a task is one of a task, and a call that goes on with a run, or an item, has one.
TaskThere == \A r \in Runs : pc[r] \in {"erased", "task", "taskPut"} => OfTask(r)
RunThere == \A w \in Callers : at[w] \in {"create", "reap", "spawn", "approve", "stop", "notify"} => on[w] \in Runs
AnswerThere == \A w \in Callers : InCall(w, "approve") => answer[w].item \in Items

TypeInv == TypeOK /\ ItemThere /\ TaskThere /\ RunThere /\ AnswerThere

\* A slot says yes only where a person did.
YesIsSaid == \A r \in Runs, i \in Items : slot[r][i] = "yes" => <<r, i, TRUE>> \in said

\* What is about to be done was agreed to.
ActIsSaid == \A r \in Runs : At(r, "act") /\ Asks(r) => <<r, item[r], TRUE>> \in said

\* A card's slot waits, until a stop or an answer.
Open(r, i) == slot[r][i] = "waiting" \/ stop[r] \/ \E yes \in BOOLEAN : <<r, i, yes>> \in said
CardsOpen == \A r \in Runs : (\A i \in card[r] : Open(r, i)) /\ (At(r, "shown") => Open(r, item[r]))

\* Answers are for cards.
AnswersCards == \A w \in Workers : InCall(w, "approve") => on[w] \in Runs /\ answer[w].item \in card[on[w]]

ApprovalInv == TypeInv /\ YesIsSaid /\ ActIsSaid /\ CardsOpen /\ AnswersCards

\* The runs whose thread is to come, or there and not counted out.
ActivePlaces == {"registered", "rounds", "asking", "tool", "slot", "shown", "check", "sleep", "asleep", "act",
                 "ending", "erased", "task", "taskPut", "last"}
Working == {r \in Runs : pc[r] \in ActivePlaces}
CountExact == active = Cardinality(Working)

\* A start has its run to itself until the thread is there.
Starting(w) == at[w] \in {"reap", "spawn"}
Creating(w) == InCall(w, "create") \/ (InCall(w, "register") /\ to[w] \in Tasks)
StartsOwn ==
    /\ \A w \in Callers : Starting(w) => on[w] \in Runs /\ At(on[w], "registered")
    /\ \A v, w \in Callers : Starting(v) /\ Starting(w) /\ on[v] = on[w] => v = w
    /\ \A w \in Callers : Creating(w) => on[w] \in Runs /\ At(on[w], "created")
    /\ \A v, w \in Callers : Creating(v) /\ Creating(w) /\ on[v] = on[w] => v = w

\* A thread that was counted out has somebody to join it.
Accounted == \A r \in Runs : pc[r] \in {"counted", "exited"} =>
    \/ r \in finished
    \/ shut = "join" /\ r \in told
    \/ \E w \in Callers : InCall(w, "reap") /\ r \in reap[w]

Closing == shut \in {"join", "returned"} => Working = {} /\ finished = {}

BooksInv == TypeInv /\ CountExact /\ StartsOwn /\ Accounted /\ Closing

(***************************************************************************)
(* What the code does not keep (run by hand).                              *)
(***************************************************************************)
\* What an approved change writes is the change its card showed.
ApprovedIsApplied == [][\A r \in Runs : Write(r) /\ Asks(r) => r \notin outdated]_vars

\* Nothing is changed after a stop.
StopIsHeard == [][\A r \in Runs : Write(r) => ~stop[r]]_vars

\* A message is cut, and a conversation removed, only while no run works on it.
EditSpares == [][\A w \in Workers : Cut(w) \/ Remove(w) => RunOf(to[w]) = {}]_vars

\* When nothing goes on any more, a task's last run is the last one it had.
LastRunKept ==
    (runningTasks = {} /\ \A r \in Runs : pc[r] \in {"none", "counted", "exited", "joined"})
        => \A t \in Tasks, r \in Runs : conv[r] = t => lastRun[t].r >= r
=============================================================================
