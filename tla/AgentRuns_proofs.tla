--------------------------- MODULE AgentRuns_proofs ---------------------------
(* Proofs about AgentRuns, for any conversations, tasks, workers and bounds. *)
EXTENDS AgentRuns, FiniteSetTheorems, TLAPS

(***************************************************************************)
(* Types.                                                                  *)
(***************************************************************************)
\* The initial states are typed.
LEMMA InitType == Init => TypeOK
  BY AgentRunsAssumption
  DEF Init, TypeOK, AllConvs, LastRuns, NeverRan, NoAnswer, RunPlaces, CallPlaces, Runs, Items

\* A thread that moves on is in a place of its own.
LEMMA GotoTyped ==
  ASSUME TypeOK, NEW r \in Runs, NEW p \in RunPlaces, Goto(r, p)
  PROVE  pc' \in [Runs -> RunPlaces]
  BY DEF TypeOK, Goto

\* A call that goes on is in a place of calls.
LEMMA GoOnTyped ==
  ASSUME TypeOK, NEW w \in Callers, NEW p \in CallPlaces, GoOn(w, p)
  PROVE  at' \in [Callers -> CallPlaces]
  BY DEF TypeOK, GoOn

\* A run that is woken is in a place of runs.
LEMMA WakeTyped ==
  ASSUME TypeOK, NEW r \in Runs, Wake(r)
  PROVE  pc' \in [Runs -> RunPlaces]
  BY DEF TypeOK, Wake, RunPlaces

\* So are the runs whose threads are joined.
LEMMA JoinedTyped ==
  ASSUME TypeOK, NEW rs, Joined(rs)
  PROVE  pc' \in [Runs -> RunPlaces]
  BY DEF TypeOK, Joined, RunPlaces

RequestTyped ==
    /\ to' \in [Callers -> AllConvs] /\ on' \in [Callers -> 0..MaxRuns]
    /\ answer' \in [Callers -> [item : 0..MaxItems, yes : BOOLEAN]] /\ reap' \in [Callers -> SUBSET Runs]
    /\ calls' \in Nat

\* A call that returns leaves its request as it found it.
LEMMA BackTyped ==
  ASSUME TypeOK, NEW w \in Callers, Back(w)
  PROVE  at' \in [Callers -> CallPlaces] /\ RequestTyped
<1>1. at' \in [Callers -> CallPlaces]
  BY DEF TypeOK, Back, GoOn, CallPlaces
<1>2. to' \in [Callers -> AllConvs]
  BY DEF TypeOK, Back, AllConvs
<1>3. on' \in [Callers -> 0..MaxRuns]
  BY AgentRunsAssumption DEF TypeOK, Back
<1>4. NoAnswer \in [item : 0..MaxItems, yes : BOOLEAN]
  BY AgentRunsAssumption DEF NoAnswer
<1>5. answer' \in [Callers -> [item : 0..MaxItems, yes : BOOLEAN]]
  BY <1>4 DEF TypeOK, Back
<1>6. reap' \in [Callers -> SUBSET Runs] /\ calls' \in Nat
  BY DEF TypeOK, Back
<1> QED
  BY <1>1, <1>2, <1>3, <1>5, <1>6 DEF RequestTyped

\* A request that stays as it was keeps its types.
LEMMA RequestKept == TypeOK /\ UNCHANGED request => RequestTyped
  BY DEF TypeOK, RequestTyped, request

\* A call that gets a conversation keeps the types of its request.
LEMMA CallTyped ==
  ASSUME TypeOK, NEW w \in Callers, NEW c \in AllConvs, NEW p \in CallPlaces,
         GoOn(w, p), to' = [to EXCEPT ![w] = c], UNCHANGED <<on, answer, reap>>, calls' \in Nat
  PROVE  at' \in [Callers -> CallPlaces] /\ RequestTyped
  BY GoOnTyped DEF TypeOK, RequestTyped

\* One slot of one run changes.
LEMMA SlotTyped ==
  ASSUME TypeOK, NEW r \in Runs, NEW i, NEW d \in {"none", "waiting", "yes", "no"},
         slot' = [slot EXCEPT ![r][i] = d]
  PROVE  slot' \in [Runs -> [Items -> {"none", "waiting", "yes", "no"}]]
<1>1. slot[r] \in [Items -> {"none", "waiting", "yes", "no"}]
  BY DEF TypeOK
<1>2. [slot[r] EXCEPT ![i] = d] \in [Items -> {"none", "waiting", "yes", "no"}]
  BY <1>1
<1>3. slot' = [slot EXCEPT ![r] = [slot[r] EXCEPT ![i] = d]]
  BY <1>1 DEF TypeOK
<1> QED
  BY <1>2, <1>3 DEF TypeOK

\* Every step of a run's thread keeps the types.
LEMMA RunTypes == ASSUME TypeInv, NEW r \in Runs, RunStep(r) PROVE TypeOK'
<1> USE AgentRunsAssumption DEF TypeInv
<1>1. CASE RoundTop(r) \/ Answered(r) \/ RoundOver(r) \/ Sleep(r) \/ WriteFails(r) \/ Exit(r)
  <2>1. pc' \in [Runs -> RunPlaces]
    BY <1>1, GotoTyped DEF RoundTop, Answered, RoundOver, Sleep, WriteFails, Exit, RunPlaces
  <2>2. UNCHANGED <<record, approval, books, tasks, exists, at, request, ending, said>>
    BY <1>1 DEF RoundTop, Answered, RoundOver, Sleep, WriteFails, Exit, RunOnly, record
  <2> QED
    BY <2>1, <2>2 DEF TypeOK, record, approval, books, tasks, request, ending
<1>2. CASE Plan(r)
  <2>1. pc' \in [Runs -> RunPlaces]
    BY <1>2, GotoTyped DEF Plan, RunPlaces
  <2>2. item' \in [Runs -> 0..MaxItems] /\ outdated' \subseteq Runs
    BY <1>2 DEF Plan, TypeOK
  <2>3. UNCHANGED <<conv, stop, read, slot, card, books, tasks, exists, at, request, ending, said>>
    BY <1>2 DEF Plan, RunOnly
  <2> QED
    BY <2>1, <2>2, <2>3 DEF TypeOK, books, tasks, request, ending
<1>3. CASE Ask(r) \/ Decide(r)
  <2>1. pc' \in [Runs -> RunPlaces]
    BY <1>3, GotoTyped DEF Ask, Decide, RunPlaces
  <2>2. slot' \in [Runs -> [Items -> {"none", "waiting", "yes", "no"}]]
    <3>1. CASE slot' = slot
      BY <3>1 DEF TypeOK
    <3>2. CASE \E d \in {"none", "waiting"} : slot' = [slot EXCEPT ![r][item[r]] = d]
      BY <3>2, SlotTyped
    <3> QED
      BY <1>3, <3>1, <3>2 DEF Ask, Decide, OpenSlot
  <2>3. card' \in [Runs -> SUBSET Items]
    <3>1. CASE card' = card
      BY <3>1 DEF TypeOK
    <3>2. CASE ShowCard(r) /\ At(r, "shown")
      BY <3>2 DEF ShowCard, ItemThere, At, TypeOK
    <3> QED
      BY <1>3, <3>1, <3>2 DEF Ask, Decide
  <2>4. UNCHANGED <<record, outdated, books, tasks, exists, at, request, ending, said>>
    BY <1>3 DEF Ask, Decide, RunOnly, record
  <2> QED
    BY <2>1, <2>2, <2>3, <2>4 DEF TypeOK, record, books, tasks, request, ending
<1>4. CASE Write(r)
  <2>1. pc' \in [Runs -> RunPlaces]
    BY <1>4, GotoTyped DEF Write, RunPlaces
  <2>2. outdated' \subseteq Runs
    BY <1>4 DEF Write
  <2>3. UNCHANGED <<record, slot, card, books, tasks, exists, at, request, ending, said>>
    BY <1>4 DEF Write, RunOnly, record
  <2> QED
    BY <2>1, <2>2, <2>3 DEF TypeOK, record, books, tasks, request, ending
<1>5. CASE Erase(r) \/ Counted(r)
  <2>1. pc' \in [Runs -> RunPlaces]
    BY <1>5, GotoTyped DEF Erase, Counted, RunPlaces
  <2>2. live' \subseteq Runs /\ active' \in Int /\ finished' \subseteq Runs
    BY <1>5 DEF Erase, Counted, TypeOK
  <2>3. UNCHANGED <<record, approval, tasks, exists, at, request, ending, said>>
    BY <1>5 DEF Erase, Counted
  <2> QED
    BY <2>1, <2>2, <2>3 DEF TypeOK, record, approval, tasks, request, ending
<1>6. CASE TaskOver(r)
  <2>1. pc' \in [Runs -> RunPlaces]
    BY <1>6, GotoTyped DEF TaskOver, RunPlaces
  <2>2. runningTasks' \subseteq Tasks
    BY <1>6 DEF TaskOver, TypeOK
  <2>3. UNCHANGED <<record, approval, books, lastRun, exists, at, request, ending, said>>
    BY <1>6 DEF TaskOver
  <2> QED
    BY <2>1, <2>2, <2>3 DEF TypeOK, record, approval, books, request, ending
<1>7. CASE TaskRead(r)
  <2>1. pc' \in [Runs -> RunPlaces]
    BY <1>7, GotoTyped DEF TaskRead, RunPlaces
  <2>2. lastRun[conv[r]] \in LastRuns
    BY <1>7 DEF TaskRead, TaskThere, At, OfTask, TypeOK
  <2>3. read' \in [Runs -> LastRuns]
    BY <1>7, <2>2 DEF TaskRead, TypeOK
  <2>4. UNCHANGED <<conv, item, stop, approval, books, tasks, exists, at, request, ending, said>>
    BY <1>7 DEF TaskRead, RunOnly
  <2> QED
    BY <2>1, <2>3, <2>4 DEF TypeOK, approval, books, tasks, request, ending
<1>8. CASE TaskPut(r)
  <2>1. pc' \in [Runs -> RunPlaces]
    BY <1>8, GotoTyped DEF TaskPut, RunPlaces
  <2>2. NeverRan \in LastRuns
    BY DEF NeverRan, LastRuns
  <2>3. read' \in [Runs -> LastRuns]
    BY <1>8, <2>2 DEF TaskPut, TypeOK
  <2>4. /\ [r |-> read[r].r, outcome |-> "over"] \in LastRuns
        /\ [r |-> read[r].r, outcome |-> read[r].outcome] \in LastRuns
    BY DEF TypeOK, LastRuns
  <2>5. lastRun' \in [Tasks -> LastRuns]
    BY <1>8, <2>4 DEF TaskPut, TypeOK
  <2>6. UNCHANGED <<conv, item, stop, approval, books, runningTasks, exists, at, request, ending, said>>
    BY <1>8 DEF TaskPut
  <2> QED
    BY <2>1, <2>3, <2>5, <2>6 DEF TypeOK, approval, books, request, ending
<1> QED
  BY <1>1, <1>2, <1>3, <1>4, <1>5, <1>6, <1>7, <1>8 DEF RunStep

\* Every step of a caller keeps the types.
LEMMA StartTypes == ASSUME TypeInv, NEW w \in Callers, StartStep(w) PROVE TypeOK'
<1> USE AgentRunsAssumption DEF TypeInv
<1>1. CASE Register(w)
  <2>1. PICK r \in Runs :
          /\ Goto(r, "registered") /\ conv' = [conv EXCEPT ![r] = to[w]]
          /\ GoOn(w, "reap") /\ on' = [on EXCEPT ![w] = r] /\ reap' = [reap EXCEPT ![w] = finished]
          /\ live' = live \cup {r} /\ finished' = {} /\ active' = active + 1
    BY <1>1 DEF Register
  <2>2. pc' \in [Runs -> RunPlaces]
    BY <2>1, GotoTyped DEF RunPlaces
  <2>3. at' \in [Callers -> CallPlaces]
    BY <2>1, GoOnTyped DEF CallPlaces
  <2>4. conv' \in [Runs -> AllConvs]
    BY <2>1 DEF TypeOK
  <2>5. on' \in [Callers -> 0..MaxRuns]
    BY <2>1 DEF TypeOK, Runs
  <2>6. reap' \in [Callers -> SUBSET Runs]
    BY <2>1 DEF TypeOK
  <2>7. live' \subseteq Runs /\ finished' \subseteq Runs /\ active' \in Int
    BY <2>1 DEF TypeOK
  <2>8. UNCHANGED <<item, stop, read, approval, tasks, exists, to, answer, calls, ending, said>>
    BY <1>1 DEF Register
  <2> QED
    BY <2>2, <2>3, <2>4, <2>5, <2>6, <2>7, <2>8 DEF TypeOK, approval, tasks, ending
<1>2. CASE Refuse(w)
  <2>1. at' \in [Callers -> CallPlaces] /\ RequestTyped
    BY <1>2, GoOnTyped, BackTyped, RequestKept DEF Refuse, CallPlaces
  <2>2. UNCHANGED <<pc, record, approval, books, tasks, exists, ending, said>>
    BY <1>2 DEF Refuse, CallOnly
  <2> QED
    BY <2>1, <2>2 DEF TypeOK, RequestTyped, record, approval, books, tasks, ending
<1>3. CASE Reap(w)
  <2>1. pc' \in [Runs -> RunPlaces]
    BY <1>3, JoinedTyped DEF Reap
  <2>2. at' \in [Callers -> CallPlaces]
    BY <1>3, GoOnTyped DEF Reap, CallPlaces
  <2>3. reap' \in [Callers -> SUBSET Runs]
    BY <1>3 DEF Reap, TypeOK
  <2>4. UNCHANGED <<record, approval, books, tasks, exists, ending, said, to, on, answer, calls>>
    BY <1>3 DEF Reap, CallOnly
  <2> QED
    BY <2>1, <2>2, <2>3, <2>4 DEF TypeOK, record, approval, books, tasks, ending
<1>4. CASE Spawn(w)
  <2>1. on[w] \in Runs
    BY <1>4 DEF Spawn, RunThere, InCall
  <2>2. pc' \in [Runs -> RunPlaces]
    BY <1>4, <2>1, GotoTyped DEF Spawn, RunPlaces
  <2>3. at' \in [Callers -> CallPlaces] /\ RequestTyped
    BY <1>4, BackTyped DEF Spawn
  <2>4. UNCHANGED <<record, approval, books, tasks, exists, ending, said>>
    BY <1>4 DEF Spawn, CallOnly
  <2> QED
    BY <2>2, <2>3, <2>4 DEF TypeOK, RequestTyped, record, approval, books, tasks, ending
<1>5. CASE SpawnFails(w)
  <2>1. at' \in [Callers -> CallPlaces] /\ RequestTyped
    BY <1>5, BackTyped DEF SpawnFails
  <2>2. UNCHANGED <<pc, record, approval, books, tasks, exists, ending, said>>
    BY <1>5 DEF SpawnFails, CallOnly
  <2> QED
    BY <2>1, <2>2 DEF TypeOK, RequestTyped, record, approval, books, tasks, ending
<1> QED
  BY <1>1, <1>2, <1>3, <1>4, <1>5 DEF StartStep

\* Every step of run_task keeps the types.
LEMMA TaskTypes ==
  ASSUME TypeInv, NEW w \in Callers, TaskStep(w) \/ \E t \in Tasks : TaskBegins(w, t)
  PROVE  TypeOK'
<1> USE AgentRunsAssumption DEF TypeInv
<1>1. ASSUME NEW t \in Tasks, TaskBegins(w, t) PROVE TypeOK'
  <2>1. PICK r \in Runs : Goto(r, "created") /\ on' = [on EXCEPT ![w] = r]
    BY <1>1 DEF TaskBegins
  <2>2. pc' \in [Runs -> RunPlaces]
    BY <2>1, GotoTyped DEF RunPlaces
  <2>3. at' \in [Callers -> CallPlaces]
    BY <1>1, GoOnTyped DEF TaskBegins, CallPlaces
  <2>4. on' \in [Callers -> 0..MaxRuns]
    BY <2>1 DEF TypeOK, Runs
  <2>5. to' \in [Callers -> AllConvs]
    BY <1>1 DEF TaskBegins, TypeOK, AllConvs
  <2>6. runningTasks' \subseteq Tasks /\ calls' \in Nat
    BY <1>1 DEF TaskBegins, TypeOK
  <2>7. UNCHANGED <<record, approval, books, lastRun, exists, answer, reap, ending, said>>
    BY <1>1 DEF TaskBegins
  <2> QED
    BY <2>2, <2>3, <2>4, <2>5, <2>6, <2>7 DEF TypeOK, record, approval, books, ending
<1>2. CASE TaskCreates(w) \/ TaskPutError(w)
  <2>1. at' \in [Callers -> CallPlaces] /\ RequestTyped
    BY <1>2, GoOnTyped, BackTyped, RequestKept DEF TaskCreates, TaskPutError, CallPlaces
  <2>2. on[w] \in 0..MaxRuns
    BY DEF TypeOK
  <2>3. \A o \in {"running", "error"} : [r |-> on[w], outcome |-> o] \in LastRuns
    BY <2>2 DEF LastRuns
  <2>4. lastRun' \in [Tasks -> LastRuns]
    BY <1>2, <2>3 DEF TaskCreates, TaskPutError, TypeOK
  <2>5. UNCHANGED <<pc, record, approval, books, runningTasks, exists, ending, said>>
    BY <1>2 DEF TaskCreates, TaskPutError
  <2> QED
    BY <2>1, <2>4, <2>5 DEF TypeOK, RequestTyped, record, approval, books, ending
<1>3. CASE TaskRefused(w)
  <2>1. at' \in [Callers -> CallPlaces] /\ RequestTyped
    BY <1>3, GoOnTyped, RequestKept DEF TaskRefused, CallPlaces
  <2>2. runningTasks' \subseteq Tasks
    BY <1>3 DEF TaskRefused, TypeOK
  <2>3. UNCHANGED <<pc, record, approval, books, lastRun, exists, ending, said>>
    BY <1>3 DEF TaskRefused
  <2> QED
    BY <2>1, <2>2, <2>3 DEF TypeOK, RequestTyped, record, approval, books, ending
<1> QED
  BY <1>1, <1>2, <1>3 DEF TaskStep

\* Every step of a worker's other calls keeps the types.
LEMMA WorkerTypes ==
  ASSUME TypeInv, NEW w \in Workers,
         WorkerStep(w) \/ Approve(w) \/ Stop(w) \/ \E c \in Convs : Send(w, c) \/ Look(w, c)
  PROVE  TypeOK'
<1> USE AgentRunsAssumption DEF TypeInv
<1>0. w \in Callers
  BY DEF Callers
<1>1. ASSUME NEW c \in Convs, Send(w, c) \/ Look(w, c) PROVE TypeOK'
  <2>1. c \in AllConvs /\ calls' \in Nat
    BY <1>1 DEF AllConvs, Send, Look, Begins, TypeOK
  <2>2. PICK p \in CallPlaces : GoOn(w, p)
    BY <1>1 DEF Send, Look, CallPlaces
  <2>3. at' \in [Callers -> CallPlaces] /\ RequestTyped
    BY <1>0, <1>1, <2>1, <2>2, CallTyped DEF Send, Look
  <2>4. UNCHANGED <<pc, record, approval, books, tasks, exists, ending, said>>
    BY <1>1 DEF Send, Look, CallOnly
  <2> QED
    BY <2>3, <2>4 DEF TypeOK, RequestTyped, record, approval, books, tasks, ending
<1>2. CASE Approve(w)
  <2>1. PICK r \in live, yes \in BOOLEAN : \E i \in card[r] :
          on' = [on EXCEPT ![w] = r] /\ answer' = [answer EXCEPT ![w] = [item |-> i, yes |-> yes]]
    BY <1>2 DEF Approve
  <2>2. PICK i \in card[r] :
          on' = [on EXCEPT ![w] = r] /\ answer' = [answer EXCEPT ![w] = [item |-> i, yes |-> yes]]
    BY <2>1
  <2>3. r \in Runs /\ i \in Items
    BY DEF TypeOK
  <2>4. on' \in [Callers -> 0..MaxRuns]
    BY <1>0, <2>2, <2>3 DEF TypeOK, Runs
  <2>5. [item |-> i, yes |-> yes] \in [item : 0..MaxItems, yes : BOOLEAN]
    BY <2>3 DEF Items
  <2>6. answer' \in [Callers -> [item : 0..MaxItems, yes : BOOLEAN]]
    BY <2>2, <2>5 DEF TypeOK
  <2>7. at' \in [Callers -> CallPlaces]
    BY <1>0, <1>2, GoOnTyped DEF Approve, CallPlaces
  <2>8. UNCHANGED <<pc, record, approval, books, tasks, exists, ending, said, to, reap>> /\ calls' \in Nat
    BY <1>2 DEF Approve, CallOnly, Begins, TypeOK
  <2> QED
    BY <2>4, <2>6, <2>7, <2>8 DEF TypeOK, record, approval, books, tasks, ending
<1>3. CASE Stop(w)
  <2>1. on' \in [Callers -> 0..MaxRuns]
    BY <1>0, <1>3 DEF Stop, TypeOK, Runs
  <2>2. at' \in [Callers -> CallPlaces]
    BY <1>0, <1>3, GoOnTyped DEF Stop, CallPlaces
  <2>3. UNCHANGED <<pc, record, approval, books, tasks, exists, ending, said, to, answer, reap>> /\ calls' \in Nat
    BY <1>3 DEF Stop, CallOnly, Begins, TypeOK
  <2> QED
    BY <2>1, <2>2, <2>3 DEF TypeOK, record, approval, books, tasks, ending
<1>4. CASE Cut(w) \/ NotWaiting(w) \/ Remove(w)
  <2>1. at' \in [Callers -> CallPlaces] /\ RequestTyped
    BY <1>0, <1>4, GoOnTyped, BackTyped, RequestKept DEF Cut, NotWaiting, Remove, CallPlaces
  <2>2. exists' \subseteq Convs
    BY <1>4 DEF Cut, NotWaiting, Remove, CallOnly, TypeOK
  <2>3. UNCHANGED <<pc, record, approval, books, tasks, ending, said>>
    BY <1>4 DEF Cut, NotWaiting, Remove, CallOnly
  <2> QED
    BY <2>1, <2>2, <2>3 DEF TypeOK, RequestTyped, record, approval, books, tasks, ending
<1>5. CASE Give(w)
  <2>1. on[w] \in Runs
    BY <1>0, <1>5 DEF Give, RunThere, InCall
  <2>2. slot' \in [Runs -> [Items -> {"none", "waiting", "yes", "no"}]]
    <3>1. PICK d \in {"yes", "no"} : slot' = [slot EXCEPT ![on[w]][Addressed(w)] = d]
      BY <1>5 DEF Give
    <3> QED
      BY <2>1, <3>1, SlotTyped
  <2>3. pc' \in [Runs -> RunPlaces]
    BY <1>5, <2>1, WakeTyped DEF Give
  <2>4. at' \in [Callers -> CallPlaces] /\ RequestTyped
    BY <1>0, <1>5, BackTyped DEF Give
  <2>5. UNCHANGED <<record, card, outdated, books, tasks, exists, ending>>
    BY <1>5 DEF Give
  <2>6. answer[w].item \in Items /\ answer[w].yes \in BOOLEAN
    BY <1>0, <1>5 DEF Give, AnswerThere, InCall, TypeOK
  <2>7. said' \subseteq Runs \X Items \X BOOLEAN
    BY <1>5, <2>1, <2>6 DEF Give, TypeOK
  <2> QED
    BY <2>2, <2>3, <2>4, <2>5, <2>7 DEF TypeOK, RequestTyped, record, books, tasks, ending
<1>6. CASE StopSet(w)
  <2>1. at' \in [Callers -> CallPlaces] /\ RequestTyped
    BY <1>0, <1>6, GoOnTyped, RequestKept DEF StopSet, CallPlaces
  <2>2. stop' \in [Runs -> BOOLEAN]
    BY <1>6 DEF StopSet, TypeOK
  <2>3. UNCHANGED <<pc, conv, item, read, approval, books, tasks, exists, ending, said>>
    BY <1>6 DEF StopSet
  <2> QED
    BY <2>1, <2>2, <2>3 DEF TypeOK, RequestTyped, approval, books, tasks, ending
<1>7. CASE StopNotify(w)
  <2>1. on[w] \in Runs
    BY <1>0, <1>7 DEF StopNotify, RunThere, InCall
  <2>2. pc' \in [Runs -> RunPlaces]
    BY <1>7, <2>1, WakeTyped DEF StopNotify
  <2>3. at' \in [Callers -> CallPlaces] /\ RequestTyped
    BY <1>0, <1>7, BackTyped DEF StopNotify
  <2>4. UNCHANGED <<record, approval, books, tasks, exists, ending, said>>
    BY <1>7 DEF StopNotify, CallOnly
  <2> QED
    BY <2>2, <2>3, <2>4 DEF TypeOK, RequestTyped, record, approval, books, tasks, ending
<1> QED
  BY <1>1, <1>2, <1>3, <1>4, <1>5, <1>6, <1>7 DEF WorkerStep

\* Every step of the shutdown, and the scheduler's last one, keep the types.
LEMMA EndTypes ==
  ASSUME TypeInv, SchedulerLeaves \/ ShutBegins \/ Shutdown \/ \E r \in Runs : TellRun(r)
  PROVE  TypeOK'
<1> USE AgentRunsAssumption DEF TypeInv
<1>1. CASE SchedulerLeaves
  <2>1. at' \in [Callers -> CallPlaces]
    BY <1>1, GoOnTyped DEF SchedulerLeaves, CallPlaces, Callers
  <2>2. UNCHANGED <<pc, record, approval, books, tasks, exists, request, ending, said>>
    BY <1>1 DEF SchedulerLeaves, CallOnly
  <2> QED
    BY <2>1, <2>2 DEF TypeOK, record, approval, books, tasks, request, ending
<1>2. CASE ShutBegins \/ Shutdown
  <2>1. pc' \in [Runs -> RunPlaces]
    BY <1>2, JoinedTyped DEF ShutBegins, Shutdown, SchedulerJoined, AllTold, NoneActive, JoinAll, TypeOK
  <2>2. /\ shut' \in {"no", "scheduler", "runs", "wait", "join", "returned"}
        /\ told' \subseteq Runs /\ finished' \subseteq Runs /\ stop' = stop
    BY <1>2 DEF ShutBegins, Shutdown, SchedulerJoined, AllTold, NoneActive, JoinAll, TypeOK
  <2>3. ShutOnly
    BY <1>2 DEF ShutBegins, Shutdown, SchedulerJoined, AllTold, NoneActive, JoinAll
  <2> QED
    BY <2>1, <2>2, <2>3 DEF ShutOnly, TypeOK, approval, tasks, request
<1>3. ASSUME NEW r \in Runs, TellRun(r) PROVE TypeOK'
  <2>1. pc' \in [Runs -> RunPlaces]
    BY <1>3, WakeTyped DEF TellRun, TellStop, TellNotify, TypeOK
  <2>2. stop' \in [Runs -> BOOLEAN] /\ told' \subseteq Runs
    BY <1>3 DEF TellRun, TellStop, TellNotify, TypeOK
  <2>3. ShutOnly /\ UNCHANGED <<finished, shut>>
    BY <1>3 DEF TellRun, TellStop, TellNotify
  <2> QED
    BY <2>1, <2>2, <2>3 DEF ShutOnly, TypeOK, approval, tasks, request
<1> QED
  BY <1>1, <1>2, <1>3

(***************************************************************************)
(* Who moves what.                                                         *)
(***************************************************************************)
Asking == {"slot", "shown", "check", "sleep", "asleep"}
EndsTask == {"erased", "task", "taskPut"}

CallStep(w) ==
    \/ StartStep(w) \/ TaskStep(w) \/ \E t \in Tasks : TaskBegins(w, t)
    \/ w \in Workers /\ (WorkerStep(w) \/ Approve(w) \/ Stop(w) \/ \E c \in Convs : Send(w, c) \/ Look(w, c))
    \/ w = Scheduler /\ SchedulerLeaves
EndStep == ShutBegins \/ Shutdown \/ \E r \in Runs : TellRun(r)

\* A step is one of a run, of a caller or of the shutdown.
LEMMA NextCases ==
  ASSUME Next
  PROVE  (\E r \in Runs : RunStep(r)) \/ (\E w \in Callers : CallStep(w)) \/ EndStep
  BY DEF Next, CallStep, EndStep, Callers

\* A run moves by itself, or is started, woken or joined.
Moved(x) ==
    \/ pc'[x] = pc[x] /\ conv'[x] = conv[x]
    \/ pc'[x] \in {"created", "registered", "rounds", "joined"}
    \/ pc[x] = "asleep" /\ pc'[x] = "check" /\ conv'[x] = conv[x]

\* A step of a caller starts, wakes or joins runs, and moves them nowhere else.
LEMMA CallMoves ==
  ASSUME TypeInv, NEW w \in Callers, CallStep(w)
  PROVE  item' = item /\ \A x \in Runs : Moved(x)
<1> USE DEF TypeInv, TypeOK, record
<1>1. CASE UNCHANGED <<pc, conv, item>>
  BY <1>1 DEF Moved
<1>2. CASE Register(w)
  <2>1. PICK r \in Runs : Goto(r, "registered") /\ conv' = [conv EXCEPT ![r] = to[w]]
    BY <1>2 DEF Register
  <2>2. item' = item
    BY <1>2 DEF Register
  <2> QED
    BY <2>1, <2>2 DEF Goto, Moved
<1>3. CASE Reap(w)
  BY <1>3 DEF Reap, Joined, CallOnly, Moved
<1>4. CASE Spawn(w)
  BY <1>4 DEF Spawn, Goto, CallOnly, Moved
<1>5. ASSUME NEW t \in Tasks, TaskBegins(w, t) PROVE item' = item /\ \A x \in Runs : Moved(x)
  <2>1. PICK r \in Runs : Goto(r, "created")
    BY <1>5 DEF TaskBegins
  <2>2. item' = item /\ conv' = conv
    BY <1>5 DEF TaskBegins
  <2> QED
    BY <2>1, <2>2 DEF Goto, Moved
<1>6. CASE Give(w) \/ StopNotify(w)
  <2>1. Wake(on[w]) /\ item' = item /\ conv' = conv
    BY <1>6 DEF Give, StopNotify, CallOnly
  <2> QED
    BY <2>1 DEF Wake, Moved
<1> QED
  BY <1>1, <1>2, <1>3, <1>4, <1>5, <1>6
  DEF CallStep, StartStep, TaskStep, WorkerStep, Refuse, TaskCreates, TaskRefused, TaskPutError, Cut, Remove, NotWaiting,
      StopSet, Approve, Stop, Send, Look, SchedulerLeaves, CallOnly, SpawnFails

\* So does a step of the shutdown, which touches no call.
LEMMA EndMoves ==
  ASSUME TypeInv, EndStep
  PROVE  item' = item /\ UNCHANGED <<at, request>> /\ \A x \in Runs : Moved(x)
<1> USE DEF TypeInv, TypeOK
<1>1. item' = item /\ conv' = conv /\ UNCHANGED <<at, request>>
  BY DEF EndStep, ShutBegins, Shutdown, SchedulerJoined, AllTold, NoneActive, JoinAll, TellRun, TellStop, TellNotify,
     ShutOnly
<1>2. pc' = pc \/ Joined(told) \/ \E r \in Runs : Wake(r)
  BY DEF EndStep, ShutBegins, Shutdown, SchedulerJoined, AllTold, NoneActive, JoinAll, TellRun, TellStop, TellNotify
<1> QED
  BY <1>1, <1>2 DEF Joined, Wake, Moved

\* What a run's step does to the run.
LEMMA RunMoves ==
  ASSUME TypeInv, NEW r \in Runs, RunStep(r)
  PROVE  /\ UNCHANGED <<conv, at, request>>
         /\ \A x \in Runs \ {r} : pc'[x] = pc[x] /\ item'[x] = item[x]
         /\ pc'[r] \in Asking => item'[r] \in Items
         /\ pc'[r] \in EndsTask => OfTask(r)
<1> USE AgentRunsAssumption DEF TypeInv, TypeOK
<1>1. UNCHANGED <<conv, at, request>>
  BY DEF RunStep, RoundTop, Answered, RoundOver, Plan, Ask, Decide, Sleep, Write,
     WriteFails, Erase, TaskOver, TaskRead, TaskPut, Counted, Exit, RunOnly, record
<1>2. \E p : Goto(r, p)
  BY DEF RunStep, RoundTop, Answered, RoundOver, Plan, Ask, Decide, Sleep, Write,
     WriteFails, Erase, TaskOver, TaskRead, TaskPut, Counted, Exit
<1>3. CASE Plan(r)
  <2>1. item[r] + 1 \in Items /\ item' = [item EXCEPT ![r] = item[r] + 1]
    BY <1>3 DEF Plan, Items
  <2>2. pc'[r] \in {"act", "slot"}
    BY <1>3 DEF Plan, Goto
  <2> QED
    BY <1>1, <1>2, <2>1, <2>2 DEF Goto, EndsTask
<1>4. CASE ~Plan(r)
  <2>1. item' = item
    BY <1>4 DEF RunStep, RoundTop, Answered, RoundOver, Ask, Decide, Sleep, Write,
       WriteFails, Erase, TaskOver, TaskRead, TaskPut, Counted, Exit, RunOnly, record
  <2>2. pc'[r] \in Asking => pc[r] \in Asking
    BY <1>4 DEF RunStep, RoundTop, Answered, RoundOver, Ask, Decide, Sleep, Write,
       WriteFails, Erase, TaskOver, TaskRead, TaskPut, Counted, Exit, Goto, At, Asking
  <2>3. pc'[r] \in EndsTask => pc[r] \in EndsTask \/ OfTask(r)
    BY <1>4 DEF RunStep, RoundTop, Answered, RoundOver, Ask, Decide, Sleep, Write,
       WriteFails, Erase, TaskOver, TaskRead, TaskPut, Counted, Exit, Goto, At, EndsTask
  <2> QED
    BY <1>1, <1>2, <2>1, <2>2, <2>3 DEF Goto, ItemThere, TaskThere, Asking, EndsTask
<1> QED
  BY <1>3, <1>4

\* The places of calls that have a run.
HasRun == {"create", "reap", "spawn", "approve", "stop", "notify"}

\* A caller's step leaves the other calls alone, and its own run and card are there.
LEMMA CallGoesOn ==
  ASSUME TypeInv, NEW w \in Callers, CallStep(w)
  PROVE  /\ \A v \in Callers \ {w} : at'[v] = at[v] /\ to'[v] = to[v] /\ on'[v] = on[v] /\ answer'[v] = answer[v]
         /\ at'[w] \in HasRun => on'[w] \in Runs
         /\ at'[w] = "approve" => answer'[w].item \in card[on'[w]]
<1> USE DEF TypeInv, TypeOK, InCall
<1>1. CASE \E p \in {"cut", "remove", "register"} : GoOn(w, p) /\ (\E c : to' = [to EXCEPT ![w] = c]) /\ UNCHANGED <<on, answer>>
  BY <1>1 DEF GoOn, HasRun
<1>2. CASE Back(w)
  BY <1>2 DEF Back, GoOn, HasRun
<1>3. CASE (\E p \in {"register", "refused", "putError", "gone"} : GoOn(w, p)) /\ UNCHANGED request
  BY <1>3 DEF GoOn, HasRun, request
<1>4. CASE Register(w) \/ \E t \in Tasks : TaskBegins(w, t)
  <2>1. PICK r \in Runs : on' = [on EXCEPT ![w] = r]
    BY <1>4 DEF Register, TaskBegins
  <2>2. \E p \in {"reap", "create"} : GoOn(w, p)
    BY <1>4 DEF Register, TaskBegins
  <2>3. answer' = answer /\ (to' = to \/ \E t : to' = [to EXCEPT ![w] = t])
    BY <1>4 DEF Register, TaskBegins
  <2> QED
    BY <2>1, <2>2, <2>3 DEF GoOn, HasRun
<1>5. CASE Reap(w) \/ StopSet(w)
  <2>1. UNCHANGED <<to, on, answer>> /\ on[w] \in Runs
    BY <1>5 DEF Reap, StopSet, request, RunThere
  <2>2. \E p \in {"spawn", "notify"} : GoOn(w, p)
    BY <1>5 DEF Reap, StopSet
  <2> QED
    BY <2>1, <2>2 DEF GoOn, HasRun
<1>6. CASE Approve(w)
  <2>1. PICK r \in live, yes \in BOOLEAN : \E i \in card[r] :
          on' = [on EXCEPT ![w] = r] /\ answer' = [answer EXCEPT ![w] = [item |-> i, yes |-> yes]]
    BY <1>6 DEF Approve
  <2>2. PICK i \in card[r] :
          on' = [on EXCEPT ![w] = r] /\ answer' = [answer EXCEPT ![w] = [item |-> i, yes |-> yes]]
    BY <2>1
  <2>3. r \in Runs /\ i \in Items
    OBVIOUS
  <2>4. GoOn(w, "approve") /\ to' = to
    BY <1>6 DEF Approve
  <2> QED
    BY <2>2, <2>3, <2>4 DEF GoOn
<1>7. CASE Stop(w)
  <2>1. PICK r \in live : on' = [on EXCEPT ![w] = r]
    BY <1>7 DEF Stop
  <2>2. GoOn(w, "stop") /\ to' = to /\ answer' = answer
    BY <1>7 DEF Stop
  <2> QED
    BY <2>1, <2>2 DEF GoOn
<1> QED
  BY <1>1, <1>2, <1>3, <1>4, <1>5, <1>6, <1>7
  DEF CallStep, StartStep, TaskStep, WorkerStep, Refuse, Spawn, SpawnFails, TaskCreates, TaskRefused, TaskPutError, Cut, Remove,
      NotWaiting, Give, StopNotify, Send, Look, SchedulerLeaves

\* Every step keeps the types, and what they rest on.
LEMMA TypeStep == TypeInv /\ [Next]_vars => TypeInv'
<1> SUFFICES ASSUME TypeInv, [Next]_vars PROVE TypeInv'
  OBVIOUS
<1>1. CASE UNCHANGED vars
  BY <1>1 DEF vars, record, approval, books, tasks, request, ending, TypeInv, TypeOK, ItemThere, TaskThere, RunThere,
     AnswerThere, OfTask, InCall
<1>2. ASSUME NEW r \in Runs, RunStep(r) PROVE TypeInv'
  <2>1. TypeOK'
    BY <1>2, RunTypes
  <2>2. ItemThere' /\ TaskThere'
    BY <1>2, RunMoves DEF TypeInv, ItemThere, TaskThere, OfTask, Asking, EndsTask
  <2>3. UNCHANGED <<at, request>>
    BY <1>2, RunMoves
  <2>4. RunThere' /\ AnswerThere'
    BY <2>3 DEF TypeInv, RunThere, AnswerThere, request, InCall
  <2> QED
    BY <2>1, <2>2, <2>4 DEF TypeInv
<1>3. ASSUME NEW w \in Callers, CallStep(w) PROVE TypeInv'
  <2>1. TypeOK'
    BY <1>3, StartTypes, TaskTypes, WorkerTypes, EndTypes DEF CallStep
  <2>2. ItemThere' /\ TaskThere'
    BY <1>3, CallMoves DEF TypeInv, ItemThere, TaskThere, OfTask, Moved
  <2>3. \A v \in Callers : at'[v] = "approve" => answer'[v].item \in Items
    BY <1>3, CallGoesOn DEF TypeInv, TypeOK, AnswerThere, InCall, HasRun
  <2>4. RunThere' /\ AnswerThere'
    BY <1>3, <2>3, CallGoesOn DEF TypeInv, RunThere, AnswerThere, InCall, HasRun
  <2> QED
    BY <2>1, <2>2, <2>4 DEF TypeInv
<1>4. CASE EndStep
  <2>1. TypeOK'
    BY <1>4, EndTypes DEF EndStep
  <2>2. ItemThere' /\ TaskThere'
    BY <1>4, EndMoves DEF TypeInv, ItemThere, TaskThere, OfTask, Moved
  <2>3. UNCHANGED <<at, request>>
    BY <1>4, EndMoves
  <2>4. RunThere' /\ AnswerThere'
    BY <2>3 DEF TypeInv, RunThere, AnswerThere, request, InCall
  <2> QED
    BY <2>1, <2>2, <2>4 DEF TypeInv
<1> QED
  BY <1>1, <1>2, <1>3, <1>4, NextCases

\* They hold at the start.
LEMMA TypeInit == Init => TypeInv
  BY InitType DEF Init, TypeInv, ItemThere, TaskThere, RunThere, AnswerThere, InCall

\* The types hold, whatever runs, calls and closes at a time.
THEOREM TypeCorrect == Spec => []TypeOK
<1>1. Init => TypeInv
  BY TypeInit
<1>2. TypeInv /\ [Next]_vars => TypeInv'
  BY TypeStep
<1>3. TypeInv => TypeOK
  BY DEF TypeInv
<1> QED
  BY <1>1, <1>2, <1>3, PTL DEF Spec

(***************************************************************************)
(* The approvals.                                                          *)
(***************************************************************************)
\* What a run's step does to its decision slots and cards.
LEMMA RunApprovals ==
  ASSUME TypeInv, NEW r \in Runs, RunStep(r)
  PROVE  /\ UNCHANGED <<stop, said>>
         /\ \/ UNCHANGED <<slot, card>> /\ pc'[r] # "shown"
            \/ At(r, "slot") /\ OpenSlot(r) /\ UNCHANGED <<item, card>> /\ pc'[r] = "shown"
            \/ At(r, "shown") /\ ShowCard(r) /\ UNCHANGED <<item, slot>> /\ pc'[r] # "shown"
            \/ /\ slot[r][item[r]] # "waiting" \/ stop[r]
               /\ slot' = [slot EXCEPT ![r][item[r]] = "none"] /\ UNCHANGED <<item, card>> /\ pc'[r] # "shown"
<1> USE DEF TypeInv, TypeOK
<1>1. UNCHANGED <<stop, said>>
  BY DEF RunStep, RoundTop, Answered, RoundOver, Plan, Ask, Decide, Sleep, Write,
     WriteFails, Erase, TaskOver, TaskRead, TaskPut, Counted, Exit, RunOnly, record
<1>2. CASE Ask(r)
  BY <1>1, <1>2 DEF Ask, Goto
<1>3. CASE Decide(r)
  BY <1>1, <1>3 DEF Decide, Goto
<1> QED
  BY <1>1, <1>2, <1>3
  DEF RunStep, RoundTop, Answered, RoundOver, Plan, Sleep, Write,
      WriteFails, Erase, TaskOver, TaskRead, TaskPut, Counted, Exit, Goto, approval

\* A step of a caller or of the shutdown touches a slot only to give an answer; it stops, and never starts again.
LEMMA OthersApprovals ==
  ASSUME TypeInv, (\E w \in Callers : CallStep(w) /\ ~Give(w)) \/ EndStep
  PROVE  UNCHANGED <<slot, card, said>> /\ \A x \in Runs : stop[x] => stop'[x]
<1> USE DEF TypeInv, TypeOK
<1>1. ASSUME NEW w \in Callers, CallStep(w), ~Give(w)
      PROVE  UNCHANGED <<slot, card, said>> /\ \A x \in Runs : stop[x] => stop'[x]
  <2>1. UNCHANGED <<slot, card, said>>
    BY <1>1 DEF CallStep, StartStep, TaskStep, TaskBegins, WorkerStep, Register, Refuse, Reap, Spawn, SpawnFails, TaskCreates,
       TaskRefused, TaskPutError, Cut, Remove, NotWaiting, StopSet, StopNotify, Approve, Stop, Send, Look, SchedulerLeaves,
       CallOnly, approval
  <2>2. stop' = stop \/ stop' = [stop EXCEPT ![on[w]] = TRUE]
    BY <1>1 DEF CallStep, StartStep, TaskStep, TaskBegins, WorkerStep, Register, Refuse, Reap, Spawn, SpawnFails, TaskCreates,
       TaskRefused, TaskPutError, Cut, Remove, NotWaiting, StopSet, StopNotify, Approve, Stop, Send, Look, SchedulerLeaves,
       CallOnly, record
  <2> QED
    BY <2>1, <2>2
<1>2. CASE EndStep
  <2>1. UNCHANGED <<slot, card, said>>
    BY <1>2 DEF EndStep, ShutBegins, Shutdown, SchedulerJoined, AllTold, NoneActive, JoinAll, TellRun, TellStop, TellNotify,
       ShutOnly, approval
  <2>2. stop' = stop \/ \E r \in Runs : stop' = [stop EXCEPT ![r] = TRUE]
    BY <1>2 DEF EndStep, ShutBegins, Shutdown, SchedulerJoined, AllTold, NoneActive, JoinAll, TellRun, TellStop, TellNotify
  <2> QED
    BY <2>1, <2>2
<1> QED
  BY <1>1, <1>2

\* A step into a change is the run's own, from its decision or from a plan that asks nobody.
LEMMA IntoAct ==
  ASSUME TypeInv, [Next]_vars, NEW r \in Runs, ~At(r, "act"), pc'[r] = "act"
  PROVE  (Decide(r) \/ (Plan(r) /\ ~Asks(r))) /\ conv'[r] = conv[r]
<1>1. ~UNCHANGED vars
  BY DEF vars, At
<1>2. RunStep(r)
  <2>1. ASSUME NEW x \in Runs, RunStep(x), x # r PROVE FALSE
    BY <2>1, RunMoves DEF At
  <2>2. ASSUME NEW w \in Callers, CallStep(w) PROVE FALSE
    BY <2>2, CallMoves DEF At, Moved
  <2>3. CASE EndStep
    BY <2>3, EndMoves DEF At, Moved
  <2> QED
    BY <1>1, <2>1, <2>2, <2>3, NextCases
<1>3. Decide(r) \/ Plan(r)
  BY <1>2 DEF RunStep, RoundTop, Answered, RoundOver, Ask, Sleep, Write, WriteFails, Erase, TaskOver, TaskRead,
     TaskPut, Counted, Exit, Goto, At, TypeInv, TypeOK
<1>4. Plan(r) => ~Asks(r)
  BY DEF Plan, Goto, TypeInv, TypeOK
<1> QED
  BY <1>2, <1>3, <1>4, RunMoves

\* A run stays at its change with its item and its conversation, and an answer given stays given.
LEMMA ActStays ==
  ASSUME TypeInv, [Next]_vars, NEW r \in Runs, At(r, "act"), pc'[r] = "act"
  PROVE  item'[r] = item[r] /\ conv'[r] = conv[r]
<1>1. CASE UNCHANGED vars
  BY <1>1 DEF vars, record
<1>2. ASSUME RunStep(r) PROVE FALSE
  BY <1>2 DEF RunStep, RoundTop, Answered, RoundOver, Plan, Ask, Decide, Sleep, Write, WriteFails, Erase, TaskOver, TaskRead,
     TaskPut, Counted, Exit, Goto, At, TypeInv, TypeOK
<1>3. ASSUME NEW x \in Runs, RunStep(x), x # r PROVE item'[r] = item[r] /\ conv'[r] = conv[r]
  BY <1>3, RunMoves
<1>4. ASSUME NEW w \in Callers, CallStep(w) PROVE item'[r] = item[r] /\ conv'[r] = conv[r]
  BY <1>4, CallMoves DEF At, Moved
<1>5. CASE EndStep
  BY <1>5, EndMoves DEF At, Moved
<1> QED
  BY <1>1, <1>2, <1>3, <1>4, <1>5, NextCases

\* What was said stays said.
LEMMA SaidGrows == ASSUME TypeInv, [Next]_vars PROVE said \subseteq said'
<1>1. CASE UNCHANGED vars
  BY <1>1 DEF vars
<1>2. ASSUME NEW r \in Runs, RunStep(r) PROVE said' = said
  BY <1>2, RunApprovals
<1>3. ASSUME NEW w \in Callers, CallStep(w) PROVE said \subseteq said'
  <2>1. CASE Give(w)
    BY <2>1 DEF Give
  <2>2. CASE ~Give(w)
    BY <1>3, <2>2, OthersApprovals
  <2> QED
    BY <2>1, <2>2
<1>4. CASE EndStep
  BY <1>4, OthersApprovals
<1> QED
  BY <1>1, <1>2, <1>3, <1>4, NextCases

\* A decision to act is taken on a yes, with no stop.
LEMMA DecidesOnYes ==
  ASSUME ApprovalInv, NEW r \in Runs, Decide(r), pc'[r] = "act"
  PROVE  <<r, item[r], TRUE>> \in said /\ item'[r] = item[r] /\ ~stop[r]
<1>1. slot[r][item[r]] = "yes" /\ ~stop[r] /\ item' = item
  BY DEF Decide, Goto, ApprovalInv, TypeInv, TypeOK
<1>2. item[r] \in Items
  BY DEF Decide, At, ApprovalInv, TypeInv, ItemThere
<1> QED
  BY <1>1, <1>2 DEF ApprovalInv, YesIsSaid

\* Every step keeps that what is about to be done was agreed to.
LEMMA ActStep == ApprovalInv /\ [Next]_vars => ActIsSaid'
<1> SUFFICES ASSUME ApprovalInv, [Next]_vars, NEW r \in Runs, pc'[r] = "act", ~(conv'[r] \in Full)
             PROVE  <<r, item'[r], TRUE>> \in said'
  BY DEF ActIsSaid, At, Asks
<1>0. TypeInv /\ said \subseteq said'
  BY SaidGrows DEF ApprovalInv
<1>1. CASE At(r, "act")
  BY <1>0, <1>1, ActStays DEF ApprovalInv, ActIsSaid, Asks
<1>2. CASE ~At(r, "act")
  <2>1. Decide(r)
    BY <1>0, <1>2, IntoAct DEF Asks
  <2> QED
    BY <1>0, <2>1, DecidesOnYes
<1> QED
  BY <1>1, <1>2

\* Every step keeps what the approvals rest on.
LEMMA ApprovalStep == ApprovalInv /\ [Next]_vars => ApprovalInv'
<1> SUFFICES ASSUME ApprovalInv, [Next]_vars PROVE (YesIsSaid /\ CardsOpen /\ AnswersCards)'
  BY TypeStep, ActStep DEF ApprovalInv
<1> USE DEF ApprovalInv
<1>0. TypeInv' /\ Workers \subseteq Callers
  BY TypeStep DEF Callers
<1>1. CASE UNCHANGED vars
  BY <1>1 DEF vars, record, approval, request, YesIsSaid, CardsOpen, Open, AnswersCards, At, InCall
<1>2. ASSUME NEW r \in Runs, RunStep(r) PROVE (YesIsSaid /\ CardsOpen /\ AnswersCards)'
  <2>1. UNCHANGED <<stop, said, at, request>> /\ \A x \in Runs \ {r} : pc'[x] = pc[x] /\ item'[x] = item[x]
    BY <1>2, RunMoves, RunApprovals
  <2>2. CASE UNCHANGED <<slot, card>> /\ pc'[r] # "shown"
    BY <2>1, <2>2 DEF YesIsSaid, CardsOpen, Open, AnswersCards, At, InCall, request
  <2>3. CASE At(r, "slot") /\ OpenSlot(r) /\ UNCHANGED <<item, card>>
    <3>1. item[r] \in Items
      BY <2>3 DEF At, TypeInv, ItemThere
    <3>2. /\ \A x \in Runs, i \in Items : slot'[x][i] = IF x = r /\ i = item[r] THEN "waiting" ELSE slot[x][i]
      BY <2>3, <3>1 DEF OpenSlot, TypeInv, TypeOK
    <3>3. YesIsSaid'
      BY <2>1, <3>2 DEF YesIsSaid
    <3>4. CardsOpen'
      <4>1. ASSUME NEW x \in Runs, NEW i \in Items, Open(x, i) \/ (x = r /\ i = item[r]) PROVE Open(x, i)'
        BY <2>1, <3>2, <4>1 DEF Open
      <4>2. \A x \in Runs : card[x] \subseteq Items /\ (At(x, "shown") => item[x] \in Items)
        BY DEF TypeInv, TypeOK, ItemThere, At
      <4>3. ASSUME NEW x \in Runs, NEW i \in card'[x] PROVE Open(x, i)'
        BY <2>3, <4>1, <4>2 DEF CardsOpen
      <4>4. ASSUME NEW x \in Runs, At(x, "shown")' PROVE Open(x, item[x])'
        BY <2>1, <2>3, <3>1, <4>1, <4>2, <4>4 DEF CardsOpen, At
      <4> QED
        BY <2>3, <4>3, <4>4 DEF CardsOpen
    <3>5. AnswersCards'
      BY <2>1, <2>3 DEF AnswersCards, request, InCall
    <3> QED
      BY <3>3, <3>4, <3>5
  <2>4. CASE At(r, "shown") /\ ShowCard(r) /\ UNCHANGED <<item, slot>> /\ pc'[r] # "shown"
    <3>1. \A x \in Runs : card'[x] = IF x = r THEN card[r] \cup {item[r]} ELSE card[x]
      BY <2>4 DEF ShowCard, TypeInv, TypeOK
    <3>2. YesIsSaid'
      BY <2>1, <2>4 DEF YesIsSaid
    <3>3. CardsOpen'
      BY <2>1, <2>4, <3>1 DEF CardsOpen, Open, At
    <3>4. AnswersCards'
      BY <2>1, <3>1 DEF AnswersCards, request, InCall
    <3> QED
      BY <3>2, <3>3, <3>4
  <2>5. CASE /\ slot[r][item[r]] # "waiting" \/ stop[r]
             /\ slot' = [slot EXCEPT ![r][item[r]] = "none"] /\ UNCHANGED <<item, card>> /\ pc'[r] # "shown"
    <3>1. \A x \in Runs, i \in Items : slot'[x][i] = IF x = r /\ i = item[r] THEN "none" ELSE slot[x][i]
      BY <2>5 DEF TypeInv, TypeOK
    <3>2. YesIsSaid'
      BY <2>1, <3>1 DEF YesIsSaid
    <3>3. CardsOpen'
      <4>1. ASSUME NEW x \in Runs, NEW i \in Items, Open(x, i) PROVE Open(x, i)'
        BY <2>1, <2>5, <3>1, <4>1 DEF Open
      <4>2. \A x \in Runs : card[x] \subseteq Items /\ (At(x, "shown") => item[x] \in Items)
        BY DEF TypeInv, TypeOK, ItemThere, At
      <4>3. ASSUME NEW x \in Runs, NEW i \in card'[x] PROVE Open(x, i)'
        BY <2>5, <4>1, <4>2 DEF CardsOpen
      <4>4. ASSUME NEW x \in Runs, At(x, "shown")' PROVE Open(x, item[x])'
        BY <2>1, <2>5, <4>1, <4>2, <4>4 DEF CardsOpen, At
      <4> QED
        BY <2>5, <4>3, <4>4 DEF CardsOpen
    <3>4. AnswersCards'
      BY <2>1, <2>5 DEF AnswersCards, request, InCall
    <3> QED
      BY <3>2, <3>3, <3>4
  <2> QED
    BY <1>2, <2>2, <2>3, <2>4, <2>5, RunApprovals
<1>3. ASSUME NEW w \in Callers, CallStep(w) PROVE (YesIsSaid /\ CardsOpen /\ AnswersCards)'
  <2>1. item' = item /\ \A x \in Runs : pc'[x] = "shown" => pc[x] = "shown"
    BY <1>3, CallMoves DEF Moved
  <2>2. CASE ~Give(w)
    <3>1. UNCHANGED <<slot, card, said>> /\ \A x \in Runs : stop[x] => stop'[x]
      BY <1>3, <2>2, OthersApprovals
    <3>2. YesIsSaid' /\ CardsOpen'
      BY <2>1, <3>1 DEF YesIsSaid, CardsOpen, Open, At
    <3>3. AnswersCards'
      BY <1>0, <1>3, <3>1, CallGoesOn DEF AnswersCards, InCall, HasRun
    <3> QED
      BY <3>2, <3>3
  <2>3. CASE Give(w)
    <3>1. on[w] \in Runs /\ answer[w].item \in Items /\ answer[w].yes \in BOOLEAN
      BY <2>3 DEF Give, InCall, TypeInv, TypeOK, RunThere, AnswerThere
    <3>2. /\ \A x \in Runs, i \in Items :
               slot'[x][i] = IF x = on[w] /\ i = answer[w].item THEN IF answer[w].yes THEN "yes" ELSE "no" ELSE slot[x][i]
      BY <2>3, <3>1 DEF Give, Addressed, TypeInv, TypeOK
    <3>3. UNCHANGED <<card, stop>> /\ said' = said \cup {<<on[w], answer[w].item, answer[w].yes>>}
      BY <2>3 DEF Give, record
    <3>4. YesIsSaid'
      BY <3>1, <3>2, <3>3 DEF YesIsSaid
    <3>5. CardsOpen'
      <4>1. ASSUME NEW x \in Runs, NEW i \in Items, Open(x, i) PROVE Open(x, i)'
        <5>1. CASE x = on[w] /\ i = answer[w].item
          BY <3>1, <3>3, <5>1 DEF Open
        <5>2. CASE ~(x = on[w] /\ i = answer[w].item)
          BY <3>2, <3>3, <4>1, <5>2 DEF Open
        <5> QED
          BY <5>1, <5>2
      <4>2. ASSUME NEW x \in Runs, At(x, "shown") PROVE item[x] \in Items
        BY <4>2 DEF At, TypeInv, ItemThere
      <4>3. \A x \in Runs : card[x] \subseteq Items
        BY DEF TypeInv, TypeOK
      <4>4. ASSUME NEW x \in Runs, NEW i \in card'[x] PROVE Open(x, i)'
        BY <3>3, <4>1, <4>3 DEF CardsOpen
      <4>5. ASSUME NEW x \in Runs, At(x, "shown")' PROVE Open(x, item[x])'
        <5>1. At(x, "shown")
          BY <2>1, <4>5 DEF At
        <5> QED
          BY <5>1, <4>1, <4>2, <2>1 DEF CardsOpen
      <4> QED
        BY <2>1, <4>4, <4>5 DEF CardsOpen
    <3>6. AnswersCards'
      BY <1>0, <1>3, <3>3, CallGoesOn DEF AnswersCards, InCall, HasRun
    <3> QED
      BY <3>4, <3>5, <3>6
  <2> QED
    BY <2>2, <2>3
<1>4. CASE EndStep
  <2>1. item' = item /\ UNCHANGED <<at, request>> /\ \A x \in Runs : pc'[x] = "shown" => pc[x] = "shown"
    BY <1>4, EndMoves DEF Moved
  <2>2. UNCHANGED <<slot, card, said>> /\ \A x \in Runs : stop[x] => stop'[x]
    BY <1>4, OthersApprovals
  <2> QED
    BY <2>1, <2>2 DEF YesIsSaid, CardsOpen, Open, AnswersCards, At, InCall, request
<1> QED
  BY <1>1, <1>2, <1>3, <1>4, NextCases

\* They hold at the start.
LEMMA ApprovalInit == Init => ApprovalInv
<1> SUFFICES ASSUME Init PROVE YesIsSaid /\ ActIsSaid /\ CardsOpen /\ AnswersCards
  BY TypeInit DEF ApprovalInv
<1>1. \A r \in Runs, i \in Items : slot[r][i] = "none"
  BY DEF Init
<1>2. \A r \in Runs : card[r] = {} /\ pc[r] = "none"
  BY DEF Init
<1>3. \A w \in Workers : at[w] = "idle"
  BY DEF Init, Callers
<1> QED
  BY <1>1, <1>2, <1>3 DEF YesIsSaid, ActIsSaid, CardsOpen, AnswersCards, At, InCall

\* A change of a conversation that asks is made on a yes to that very item, and no such change is decided
\* on after a stop.
THEOREM ApprovedOnly == Spec => ActsApproved
<1>1. ASSUME ApprovalInv, NEW r \in Runs, Write(r), Asks(r) PROVE <<r, item[r], TRUE>> \in said
  BY <1>1 DEF Write, ApprovalInv, ActIsSaid
<1>2. ASSUME ApprovalInv, [Next]_vars, NEW r \in Runs, At(r, "check"), pc'[r] = "act" PROVE ~stop[r]
  <2>1. Decide(r)
    BY <1>2, IntoAct DEF ApprovalInv, At, Plan
  <2> QED
    BY <1>2, <2>1, DecidesOnYes
<1>3. ApprovalInv /\ [Next]_vars =>
        [\A r \in Runs : /\ Write(r) /\ Asks(r) => <<r, item[r], TRUE>> \in said
                         /\ At(r, "check") /\ pc'[r] = "act" => ~stop[r]]_vars
  BY <1>1, <1>2
<1> QED
  BY <1>3, ApprovalInit, ApprovalStep, PTL DEF Spec, ActsApproved

\* An answer to a card is refused only after a stop or another answer.
THEOREM CardsAnswered == Spec => CardAnswered
<1>1. ASSUME ApprovalInv, NEW w \in Workers, NotWaiting(w)
      PROVE  stop[on[w]] \/ \E yes \in BOOLEAN : <<on[w], answer[w].item, yes>> \in said
  BY <1>1 DEF NotWaiting, Addressed, ApprovalInv, AnswersCards, CardsOpen, Open
<1>2. ApprovalInv /\ [Next]_vars =>
        [\A w \in Workers : NotWaiting(w) =>
           stop[on[w]] \/ \E yes \in BOOLEAN : <<on[w], answer[w].item, yes>> \in said]_vars
  BY <1>1
<1> QED
  BY <1>2, ApprovalInit, ApprovalStep, PTL DEF Spec, CardAnswered

(***************************************************************************)
(* The threads.                                                            *)
(***************************************************************************)
\* The threads to wait for are finitely many.
LEMMA WorkingFinite == IsFiniteSet(Working) /\ Cardinality(Working) \in Nat
<1>1. IsFiniteSet(Runs)
  BY FS_Interval, AgentRunsAssumption DEF Runs
<1>2. Working \subseteq Runs
  BY DEF Working
<1> QED
  BY <1>1, <1>2, FS_Subset, FS_CardinalityType

\* The count stays with the set.
LEMMA CountKept == ASSUME CountExact, Working' = Working, active' = active PROVE CountExact'
  BY DEF CountExact

\* The count goes up with a run that comes.
LEMMA CountUp ==
  ASSUME CountExact, NEW r, r \notin Working, Working' = Working \cup {r}, active' = active + 1
  PROVE  CountExact'
  BY WorkingFinite, FS_AddElement DEF CountExact

\* The count goes down with a run that goes.
LEMMA CountDown ==
  ASSUME CountExact, NEW r \in Working, Working' = Working \ {r}, active' = active - 1
  PROVE  CountExact'
  BY WorkingFinite, FS_RemoveElement DEF CountExact

\* What a run's step does to the books.
LEMMA RunBooks ==
  ASSUME TypeInv, NEW r \in Runs, RunStep(r)
  PROVE  /\ UNCHANGED <<at, request, ending>> /\ \A x \in Runs \ {r} : pc'[x] = pc[x]
         /\ \/ /\ pc[r] \in ActivePlaces \ {"registered"} /\ pc'[r] \in ActivePlaces \ {"registered"}
               /\ UNCHANGED <<active, finished>>
            \/ /\ pc[r] = "last" /\ pc'[r] = "counted"
               /\ active' = active - 1 /\ finished' = finished \cup {r}
            \/ pc[r] = "counted" /\ pc'[r] = "exited" /\ UNCHANGED <<active, finished>>
<1> USE DEF TypeInv, TypeOK
<1>1. UNCHANGED <<at, request, ending>> /\ \A x \in Runs \ {r} : pc'[x] = pc[x]
  <2>1. UNCHANGED ending
    BY DEF RunStep, RoundTop, Answered, RoundOver, Plan, Ask, Decide, Sleep, Write,
       WriteFails, Erase, TaskOver, TaskRead, TaskPut, Counted, Exit, RunOnly
  <2> QED
    BY <2>1, RunMoves
<1>2. CASE Counted(r)
  BY <1>1, <1>2 DEF Counted, Goto, At
<1>3. CASE Exit(r)
  BY <1>1, <1>3 DEF Exit, Goto, At, RunOnly, books
<1>4. CASE ~Counted(r) /\ ~Exit(r)
  <2>1. UNCHANGED <<active, finished>>
    BY <1>4 DEF RunStep, RoundTop, Answered, RoundOver, Plan, Ask, Decide, Sleep, Write,
       WriteFails, Erase, TaskOver, TaskRead, TaskPut, RunOnly, books
  <2>2. pc[r] \in ActivePlaces \ {"registered"}
    BY <1>4 DEF RunStep, RoundTop, Answered, RoundOver, Plan, Ask, Decide, Sleep, Write,
       WriteFails, Erase, TaskOver, TaskRead, TaskPut, At, ActivePlaces
  <2>3. pc'[r] \in ActivePlaces \ {"registered"}
    BY <1>4 DEF RunStep, RoundTop, Answered, RoundOver, Plan, Ask, Decide, Sleep, Write,
       WriteFails, Erase, TaskOver, TaskRead, TaskPut, Goto, ActivePlaces
  <2> QED
    BY <1>1, <2>1, <2>2, <2>3
<1> QED
  BY <1>2, <1>3, <1>4

\* A step that starts no thread and ends none, but may wake one.
Steady == \A x \in Runs : pc'[x] = pc[x] \/ (pc[x] = "asleep" /\ pc'[x] = "check")

\* Such a step changes nothing that is counted.
LEMMA SteadyWorking == ASSUME Steady PROVE Working' = Working
  BY DEF Steady, Working, ActivePlaces

\* A step of a caller that leaves the books alone.
LeavesBooks(w) ==
    /\ Steady /\ UNCHANGED <<active, finished, reap>>
    /\ at[w] \notin {"reap", "spawn"} /\ at'[w] \notin {"reap", "spawn"}
    /\ Creating(w)' => Creating(w) /\ on'[w] = on[w]

\* A caller starts a thread, takes some that returned, begins a task, or leaves the books alone.
LEMMA CallBooks ==
  ASSUME TypeInv, NEW w \in Callers, CallStep(w)
  PROVE  /\ UNCHANGED ending
         /\ \/ Register(w) \/ Spawn(w) \/ SpawnFails(w) \/ Reap(w) \/ \E t \in Tasks : TaskBegins(w, t)
            \/ LeavesBooks(w)
<1> USE AgentRunsAssumption DEF TypeInv, TypeOK
<1>1. UNCHANGED ending
  BY DEF CallStep, StartStep, TaskStep, TaskBegins, WorkerStep, Register, Refuse, Reap, Spawn, SpawnFails, TaskCreates,
     TaskRefused, TaskPutError, Cut, Remove, Give, NotWaiting, StopSet, StopNotify, Approve, Stop, Send, Look,
     SchedulerLeaves, CallOnly
<1>2. ASSUME Refuse(w) PROVE LeavesBooks(w)
  BY <1>1, <1>2 DEF Refuse, CallOnly, books, request, LeavesBooks, Steady, InCall, GoOn, Back, Creating
<1>3. ASSUME TaskCreates(w) \/ TaskRefused(w) \/ TaskPutError(w) \/ (SchedulerLeaves /\ w = Scheduler) PROVE LeavesBooks(w)
  BY <1>1, <1>3 DEF TaskCreates, TaskRefused, TaskPutError, SchedulerLeaves, CallOnly, books, request, LeavesBooks, Steady, InCall, GoOn,
     Back, Creating
<1>4. ASSUME Cut(w) PROVE LeavesBooks(w)
  <2>1. to[w] \in exists => to[w] \notin Tasks
    OBVIOUS
  <2> QED
    BY <1>1, <1>4, <2>1 DEF Cut, CallOnly, books, request, LeavesBooks, Steady, InCall, GoOn, Back, Creating
<1>5. ASSUME Remove(w) \/ NotWaiting(w) \/ Give(w) \/ StopNotify(w) PROVE LeavesBooks(w)
  <2>1. Back(w) /\ UNCHANGED books
    BY <1>5 DEF Remove, NotWaiting, Give, StopNotify, CallOnly
  <2>2. Steady
    BY <1>5 DEF Remove, NotWaiting, Give, StopNotify, LeavesBooks, Steady, Wake
  <2>3. at[w] \notin {"reap", "spawn"}
    BY <1>5 DEF Remove, NotWaiting, Give, StopNotify, InCall
  <2> QED
    BY <1>1, <2>1, <2>2, <2>3 DEF LeavesBooks, Back, GoOn, Creating, InCall, books
<1>6. ASSUME StopSet(w) \/ Approve(w) \/ Stop(w) PROVE LeavesBooks(w)
  <2>1. UNCHANGED <<pc, books, reap>> /\ at[w] \in {"stop", "idle"}
    BY <1>6 DEF StopSet, Approve, Stop, InCall, Begins, CallOnly, request
  <2>2. at'[w] \in {"notify", "approve", "stop"}
    BY <1>6 DEF StopSet, Approve, Stop, GoOn
  <2> QED
    BY <1>1, <2>1, <2>2 DEF LeavesBooks, Steady, Creating, InCall, books
<1>7. ASSUME NEW c \in Convs, Send(w, c) \/ Look(w, c)
      PROVE  LeavesBooks(w)
  <2>1. UNCHANGED <<pc, books, reap>> /\ at[w] = "idle"
    BY <1>7 DEF Send, Look, InCall, Begins, CallOnly
  <2>2. at'[w] \in {"register", "cut", "remove"} /\ to'[w] = c
    BY <1>7 DEF Send, Look, GoOn
  <2>3. c \notin Tasks
    OBVIOUS
  <2> QED
    BY <2>1, <2>2, <2>3 DEF LeavesBooks, Steady, Creating, InCall, books
<1>8. \/ Register(w) \/ Spawn(w) \/ SpawnFails(w) \/ Reap(w) \/ (\E t \in Tasks : TaskBegins(w, t))
      \/ Refuse(w) \/ TaskCreates(w) \/ TaskRefused(w) \/ TaskPutError(w) \/ (SchedulerLeaves /\ w = Scheduler)
      \/ Cut(w) \/ Remove(w) \/ NotWaiting(w) \/ Give(w) \/ StopNotify(w) \/ StopSet(w) \/ Approve(w) \/ Stop(w)
      \/ \E c \in Convs : Send(w, c) \/ Look(w, c)
  BY DEF CallStep, StartStep, TaskStep, WorkerStep
<1> HIDE DEF TypeInv, TypeOK
<1> QED
  BY <1>1, <1>2, <1>3, <1>4, <1>5, <1>6, <1>7, <1>8

\* A step of the shutdown closes the books, joins what they hold, or leaves them alone.
LEMMA EndBooks ==
  ASSUME TypeInv, EndStep
  PROVE  /\ UNCHANGED <<at, request, active>>
         /\ \/ NoneActive \/ JoinAll
            \/ /\ Steady /\ finished' = finished
               /\ shut \notin {"join", "returned"} /\ shut' \notin {"join", "returned"}
<1> USE DEF TypeInv, TypeOK
<1>1. UNCHANGED <<at, request, active>>
  BY DEF EndStep, ShutBegins, Shutdown, SchedulerJoined, AllTold, NoneActive, JoinAll, TellRun, TellStop, TellNotify,
     ShutOnly
<1>2. CASE ShutBegins \/ SchedulerJoined \/ AllTold
  BY <1>1, <1>2 DEF ShutBegins, SchedulerJoined, AllTold, Steady
<1>3. ASSUME NEW r \in Runs, TellRun(r)
      PROVE  Steady /\ finished' = finished /\ shut \notin {"join", "returned"} /\ shut' \notin {"join", "returned"}
  BY <1>3 DEF TellRun, TellStop, TellNotify, Wake, Steady
<1> QED
  BY <1>1, <1>2, <1>3 DEF EndStep, Shutdown

\* Every step keeps what the books rest on.
LEMMA BooksStep == BooksInv /\ [Next]_vars => BooksInv'
<1> SUFFICES ASSUME BooksInv, [Next]_vars PROVE (CountExact /\ StartsOwn /\ Accounted /\ Closing)'
  BY TypeStep DEF BooksInv
<1> USE DEF BooksInv
<1>0. TypeInv /\ TypeInv'
  BY TypeStep
<1>1. CASE UNCHANGED vars
  BY <1>1 DEF vars, books, request, ending, CountExact, Working, StartsOwn, Starting, Creating, At, InCall, Accounted, Closing
<1>2. ASSUME NEW r \in Runs, RunStep(r) PROVE (CountExact /\ StartsOwn /\ Accounted /\ Closing)'
  <2>1. UNCHANGED <<at, request, ending>> /\ \A x \in Runs \ {r} : pc'[x] = pc[x]
    BY <1>0, <1>2, RunBooks
  <2>2. CASE /\ pc[r] \in ActivePlaces \ {"registered"} /\ pc'[r] \in ActivePlaces \ {"registered"}
             /\ UNCHANGED <<active, finished>>
    <3>1. Working' = Working
      BY <2>1, <2>2 DEF Working
    <3>2. CountExact'
      BY <2>2, <3>1, CountKept
    <3>3. StartsOwn'
      BY <2>1, <2>2 DEF StartsOwn, Starting, Creating, InCall, At, request, ActivePlaces
    <3>4. Accounted'
      BY <2>1, <2>2 DEF Accounted, InCall, request, ending, ActivePlaces
    <3>5. Closing'
      BY <2>1, <2>2, <3>1 DEF Closing, ending
    <3> QED
      BY <3>2, <3>3, <3>4, <3>5
  <2>3. CASE /\ pc[r] = "last" /\ pc'[r] = "counted"
             /\ active' = active - 1 /\ finished' = finished \cup {r}
    <3>1. r \in Working /\ Working' = Working \ {r}
      BY <2>1, <2>3 DEF Working, ActivePlaces
    <3>2. CountExact'
      BY <2>3, <3>1, CountDown
    <3>3. StartsOwn'
      BY <2>1, <2>3 DEF StartsOwn, Starting, Creating, InCall, At, request
    <3>4. Accounted'
      BY <2>1, <2>3 DEF Accounted, InCall, request, ending
    <3>5. Closing'
      BY <2>1, <3>1 DEF Closing, ending
    <3> QED
      BY <3>2, <3>3, <3>4, <3>5
  <2>4. CASE pc[r] = "counted" /\ pc'[r] = "exited" /\ UNCHANGED <<active, finished>>
    <3>1. Working' = Working
      BY <2>1, <2>4 DEF Working, ActivePlaces
    <3>2. CountExact'
      BY <2>4, <3>1, CountKept
    <3>3. StartsOwn'
      BY <2>1, <2>4 DEF StartsOwn, Starting, Creating, InCall, At, request
    <3>4. Accounted'
      BY <2>1, <2>4 DEF Accounted, InCall, request, ending
    <3>5. Closing'
      BY <2>1, <2>4, <3>1 DEF Closing, ending
    <3> QED
      BY <3>2, <3>3, <3>4, <3>5
  <2> QED
    BY <1>0, <1>2, <2>2, <2>3, <2>4, RunBooks
<1>3. ASSUME NEW w \in Callers, CallStep(w) PROVE (CountExact /\ StartsOwn /\ Accounted /\ Closing)'
  <2>0. /\ UNCHANGED ending
        /\ \A v \in Callers \ {w} : at'[v] = at[v] /\ to'[v] = to[v] /\ on'[v] = on[v]
    BY <1>0, <1>3, CallBooks, CallGoesOn
  <2>1. CASE Register(w)
    <3>1. PICK r \in Runs :
            /\ IF to[w] \in Tasks THEN r = on[w] ELSE IsNext(r)
            /\ Goto(r, "registered") /\ GoOn(w, "reap")
            /\ on' = [on EXCEPT ![w] = r] /\ reap' = [reap EXCEPT ![w] = finished]
            /\ finished' = {} /\ active' = active + 1
      BY <2>1 DEF Register
    <3>2. at[w] = "register" /\ shut = "no" /\ to' = to
      BY <2>1 DEF Register, Refused, InCall
    <3>3. IF to[w] \in Tasks THEN pc[r] = "created" /\ on[w] = r ELSE pc[r] = "none"
      BY <3>1, <3>2 DEF StartsOwn, Creating, InCall, At, IsNext
    <3>4. \A x \in Runs : pc'[x] = IF x = r THEN "registered" ELSE pc[x]
      BY <1>0, <3>1 DEF Goto, TypeInv, TypeOK
    <3>5. at'[w] = "reap" /\ on'[w] = r /\ reap'[w] = finished /\ \A v \in Callers \ {w} : reap'[v] = reap[v]
      BY <1>0, <3>1 DEF GoOn, TypeInv, TypeOK
    <3>6. CountExact'
      <4>1. r \notin Working /\ Working' = Working \cup {r}
        BY <3>3, <3>4 DEF Working, ActivePlaces
      <4> QED
        BY <3>1, <4>1, CountUp
    <3>7. StartsOwn'
      <4>1. \A v \in Callers \ {w} : (Starting(v) => on[v] # r) /\ (Creating(v) => on[v] # r)
        BY <3>2, <3>3 DEF StartsOwn, Starting, Creating, InCall, At
      <4>2. \A v \in Callers \ {w} : Starting(v)' = Starting(v) /\ Creating(v)' = Creating(v)
        BY <2>0 DEF Starting, Creating, InCall
      <4>3. Starting(w)' /\ ~Creating(w)'
        BY <3>5 DEF Starting, Creating, InCall
      <4> QED
        BY <2>0, <3>4, <3>5, <4>1, <4>2, <4>3 DEF StartsOwn, At
    <3>8. Accounted'
      BY <2>0, <3>2, <3>4, <3>5 DEF Accounted, InCall
    <3>9. Closing'
      BY <2>0, <3>2 DEF Closing, ending
    <3> QED
      BY <3>6, <3>7, <3>8, <3>9
  <2>2. CASE Spawn(w)
    <3>1. at[w] = "spawn" /\ Goto(on[w], "rounds") /\ Back(w) /\ UNCHANGED <<active, finished>>
      BY <2>2 DEF Spawn, InCall, CallOnly, books
    <3>2. on[w] \in Runs /\ pc[on[w]] = "registered"
      BY <3>1 DEF StartsOwn, Starting, At
    <3>3. \A x \in Runs : pc'[x] = IF x = on[w] THEN "rounds" ELSE pc[x]
      BY <1>0, <3>1 DEF Goto, TypeInv, TypeOK
    <3>4. at'[w] = "idle" /\ reap' = reap
      BY <1>0, <3>1 DEF Back, GoOn, TypeInv, TypeOK
    <3>5. Working' = Working
      BY <3>2, <3>3 DEF Working, ActivePlaces
    <3>6. CountExact'
      BY <3>1, <3>5, CountKept
    <3>7. StartsOwn'
      <4>1. \A v \in Callers \ {w} : (Starting(v) => on[v] # on[w]) /\ (Creating(v) => on[v] # on[w])
        BY <3>1, <3>2 DEF StartsOwn, Starting, At
      <4>2. \A v \in Callers \ {w} : Starting(v)' = Starting(v) /\ Creating(v)' = Creating(v)
        BY <2>0 DEF Starting, Creating, InCall
      <4>3. ~Starting(w)' /\ ~Creating(w)'
        BY <3>4 DEF Starting, Creating, InCall
      <4> QED
        BY <2>0, <3>3, <4>1, <4>2, <4>3 DEF StartsOwn, At
    <3>8. Accounted'
      BY <2>0, <3>1, <3>3, <3>4 DEF Accounted, InCall, ending
    <3>9. Closing'
      BY <2>0, <3>1, <3>5 DEF Closing, ending
    <3> QED
      BY <3>6, <3>7, <3>8, <3>9
  <2>3. CASE Reap(w)
    <3>1. /\ at[w] = "reap" /\ \A r \in reap[w] : pc[r] = "exited"
          /\ at'[w] = "spawn" /\ UNCHANGED <<to, on, active, finished>>
      BY <1>0, <2>3 DEF Reap, InCall, At, GoOn, CallOnly, books, TypeInv, TypeOK
    <3>2. reap[w] \subseteq Runs /\ \A v \in Callers \ {w} : reap'[v] = reap[v]
      BY <1>0, <2>3 DEF Reap, TypeInv, TypeOK
    <3>3. \A x \in Runs : pc'[x] = IF x \in reap[w] THEN "joined" ELSE pc[x]
      BY <2>3 DEF Reap, Joined
    <3>4. Working' = Working
      BY <3>1, <3>3 DEF Working, ActivePlaces
    <3>5. CountExact'
      BY <3>1, <3>4, CountKept
    <3>6. StartsOwn'
      <4>1. \A v \in Callers : Starting(v)' = Starting(v) /\ Creating(v)' = Creating(v) /\ on'[v] = on[v]
        BY <2>0, <3>1 DEF Starting, Creating, InCall
      <4>2. \A x \in Runs : pc[x] \in {"registered", "created"} => pc'[x] = pc[x]
        BY <3>1, <3>3
      <4> QED
        BY <4>1, <4>2 DEF StartsOwn, At
    <3>7. Accounted'
      BY <2>0, <3>1, <3>2, <3>3 DEF Accounted, InCall, ending
    <3>8. Closing'
      BY <2>0, <3>1, <3>4 DEF Closing, ending
    <3> QED
      BY <3>5, <3>6, <3>7, <3>8
  <2>4. ASSUME NEW t \in Tasks, TaskBegins(w, t) PROVE (CountExact /\ StartsOwn /\ Accounted /\ Closing)'
    <3>1. PICK r \in Runs : IsNext(r) /\ Goto(r, "created") /\ on' = [on EXCEPT ![w] = r]
      BY <2>4 DEF TaskBegins
    <3>2. \A x \in Runs : pc'[x] = IF x = r THEN "created" ELSE pc[x]
      BY <1>0, <3>1 DEF Goto, TypeInv, TypeOK
    <3>3. pc[r] = "none" /\ on'[w] = r /\ at[w] = "idle" /\ at'[w] = "create" /\ UNCHANGED <<active, finished, reap>>
      BY <1>0, <2>4, <3>1 DEF TaskBegins, IsNext, At, InCall, GoOn, books, TypeInv, TypeOK
    <3>4. Working' = Working
      BY <3>2, <3>3 DEF Working, ActivePlaces
    <3>5. CountExact'
      BY <3>3, <3>4, CountKept
    <3>6. StartsOwn'
      <4>1. \A v \in Callers \ {w} : (Starting(v) => on[v] # r) /\ (Creating(v) => on[v] # r)
        BY <3>3 DEF StartsOwn, At
      <4>2. \A v \in Callers \ {w} : Starting(v)' = Starting(v) /\ Creating(v)' = Creating(v)
        BY <2>0 DEF Starting, Creating, InCall
      <4>3. ~Starting(w)'
        BY <3>3 DEF Starting
      <4> QED
        BY <2>0, <3>2, <3>3, <4>1, <4>2, <4>3 DEF StartsOwn, At
    <3>7. Accounted'
      BY <2>0, <3>2, <3>3 DEF Accounted, InCall, ending
    <3>8. Closing'
      BY <2>0, <3>3, <3>4 DEF Closing, ending
    <3> QED
      BY <3>5, <3>6, <3>7, <3>8
  <2>5. CASE LeavesBooks(w)
    <3>1. Working' = Working
      BY <2>5, SteadyWorking DEF LeavesBooks
    <3>2. CountExact'
      BY <2>5, <3>1, CountKept DEF LeavesBooks
    <3>3. StartsOwn'
      <4>1. \A v \in Callers : (Starting(v)' => Starting(v) /\ on'[v] = on[v]) /\ (Creating(v)' => Creating(v) /\ on'[v] = on[v])
        BY <2>0, <2>5 DEF LeavesBooks, Starting, Creating, InCall
      <4>2. \A x \in Runs : pc[x] \in {"registered", "created"} => pc'[x] = pc[x]
        BY <2>5 DEF LeavesBooks, Steady
      <4> QED
        BY <4>1, <4>2 DEF StartsOwn, At
    <3>4. Accounted'
      BY <2>0, <2>5 DEF LeavesBooks, Steady, Accounted, InCall, ending
    <3>5. Closing'
      BY <2>0, <2>5, <3>1 DEF LeavesBooks, Closing, ending
    <3> QED
      BY <3>2, <3>3, <3>4, <3>5
  <2>6. CASE SpawnFails(w)
    <3>1. at'[w] = "idle" /\ UNCHANGED <<pc, active, finished, reap>>
      BY <1>0, <2>6 DEF SpawnFails, CallOnly, books, Back, GoOn, TypeInv, TypeOK
    <3>2. Working' = Working
      BY <3>1 DEF Working
    <3>3. CountExact'
      BY <3>1, <3>2, CountKept
    <3>4. StartsOwn'
      <4>1. \A v \in Callers \ {w} : Starting(v)' = Starting(v) /\ Creating(v)' = Creating(v)
        BY <2>0 DEF Starting, Creating, InCall
      <4>2. ~Starting(w)' /\ ~Creating(w)'
        BY <3>1 DEF Starting, Creating, InCall
      <4> QED
        BY <2>0, <3>1, <4>1, <4>2 DEF StartsOwn, At
    <3>5. Accounted'
      <4>1. at[w] = "spawn"
        BY <2>6 DEF SpawnFails, InCall
      <4> QED
        BY <2>0, <3>1, <4>1 DEF Accounted, InCall, ending
    <3>6. Closing'
      BY <2>0, <3>1, <3>2 DEF Closing, ending
    <3> QED
      BY <3>3, <3>4, <3>5, <3>6
  <2> QED
    BY <1>0, <1>3, <2>1, <2>2, <2>3, <2>4, <2>5, <2>6, CallBooks
<1>4. CASE EndStep
  <2>0. UNCHANGED <<at, request, active>>
    BY <1>0, <1>4, EndBooks
  <2>1. CASE NoneActive
    <3>1. shut' = "join" /\ told' = finished /\ finished' = {} /\ active = 0 /\ pc' = pc /\ shut = "wait"
      BY <2>1 DEF NoneActive
    <3>2. Working = {} /\ Working' = Working
      BY <3>1, WorkingFinite, FS_EmptySet DEF CountExact, Working
    <3> QED
      BY <2>0, <3>1, <3>2, CountKept DEF StartsOwn, Starting, Creating, At, InCall, request, Accounted, Closing
  <2>2. CASE JoinAll
    <3>1. /\ shut = "join" /\ shut' = "returned" /\ finished' = finished /\ \A r \in told : pc[r] = "exited"
          /\ Joined(told)
      BY <2>2 DEF JoinAll, At
    <3>2. told \subseteq Runs
      BY <1>0 DEF TypeInv, TypeOK
    <3>3. \A x \in Runs : pc'[x] = IF x \in told THEN "joined" ELSE pc[x]
      BY <3>1 DEF Joined
    <3>4. Working' = Working
      BY <3>1, <3>3 DEF Working, ActivePlaces
    <3>5. CountExact'
      BY <2>0, <3>4, CountKept
    <3>6. StartsOwn'
      BY <2>0, <3>1, <3>3 DEF StartsOwn, Starting, Creating, At, InCall, request
    <3>7. Accounted'
      BY <2>0, <3>1, <3>3 DEF Accounted, InCall, request
    <3>8. Closing'
      BY <3>1, <3>4 DEF Closing
    <3> QED
      BY <3>5, <3>6, <3>7, <3>8
  <2>3. CASE Steady /\ finished' = finished /\ shut \notin {"join", "returned"} /\ shut' \notin {"join", "returned"}
    <3>1. CountExact'
      BY <2>0, <2>3, SteadyWorking, CountKept
    <3>2. StartsOwn'
      BY <2>0, <2>3 DEF Steady, StartsOwn, Starting, Creating, At, InCall, request
    <3>3. Accounted'
      BY <2>0, <2>3 DEF Steady, Accounted, InCall, request
    <3>4. Closing'
      BY <2>3 DEF Closing
    <3> QED
      BY <3>1, <3>2, <3>3, <3>4
  <2> QED
    BY <1>0, <1>4, <2>1, <2>2, <2>3, EndBooks
<1> QED
  BY <1>1, <1>2, <1>3, <1>4, NextCases

\* They hold at the start.
LEMMA BooksInit == Init => BooksInv
<1> SUFFICES ASSUME Init PROVE CountExact /\ StartsOwn /\ Accounted /\ Closing
  BY TypeInit DEF BooksInv
<1>1. Working = {}
  BY DEF Init, Working, ActivePlaces
<1>2. \A r \in Runs : pc[r] = "none"
  BY DEF Init
<1>3. \A w \in Callers : at[w] = "idle"
  BY DEF Init
<1>4. active = 0 /\ shut = "no"
  BY DEF Init
<1> QED
  BY <1>1, <1>2, <1>3, <1>4, FS_EmptySet DEF CountExact, StartsOwn, Starting, Creating, InCall, Accounted, Closing

\* When shutdown() has returned every thread is joined, whatever start was under way when it began.
THEOREM NothingOutlives == Spec => []NoneOutlives
<1>1. BooksInv => NoneOutlives
  <2> SUFFICES ASSUME BooksInv, shut = "returned", NEW r \in Runs PROVE pc[r] \in {"none", "created", "joined"}
    BY DEF NoneOutlives
  <2>1. Working = {} /\ finished = {}
    BY DEF BooksInv, Closing
  <2>2. pc[r] \notin ActivePlaces
    BY <2>1 DEF Working
  <2>3. pc[r] \notin {"counted", "exited"}
    BY <2>1 DEF BooksInv, Accounted, StartsOwn, Starting, InCall, Working, At, ActivePlaces
  <2> QED
    BY <2>2, <2>3 DEF BooksInv, TypeInv, TypeOK, RunPlaces, ActivePlaces
<1> QED
  BY <1>1, BooksInit, BooksStep, PTL DEF Spec
=============================================================================
