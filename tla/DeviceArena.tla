---------------------------- MODULE DeviceArena ----------------------------
(***************************************************************************)
(* The weights of a prefill on a device (core/src/moe/device_arena.cpp)    *)
(* and who places them there (core/src/engine/prefill_path.cpp).  One or   *)
(* two slots hold the experts of a layer, two more its other weights;      *)
(* loader threads fill them while the device computes, and the graph waits *)
(* for them at nodes it reports as it passes: barrier() where a layer      *)
(* routes, dense_barrier() where it ends.                                  *)
(*                                                                         *)
(* One hold of mu_ is one action.  The device computes between two nodes:  *)
(* `at` is "attn" before a layer's routing (or all of it, when it has no   *)
(* experts) and "experts" after it.  The layouts of two layers in one slot *)
(* overlap anyhow, so an upload spoils what another layer left there.      *)
(***************************************************************************)
EXTENDS Integers, FiniteSets

CONSTANTS Layers,    \* the layers of the graph are 0 .. Layers-1
          MoE,       \* those with experts; order_ numbers them from 0
          Experts,   \* n_expert_
          Projs,     \* n_proj_
          Weights,   \* Weights[il]: how many tensors of il go through the dense slots
          NSlots,    \* n_slots_: one or two
          Lanes,     \* the loader threads
          Routed,    \* routed_: read what is predicted and what is routed
          Full,      \* more experts routed than this: the next layer is read whole
          OnDemand,  \* on_demand_: the slots are held during a prefill only
          Cache, Need,  \* the expert cache's budget, and what the slots take
          Misses,    \* layers whose last node a graph may not pass
          Faulty     \* the tasks whose read may fail

Layer == 0..(Layers - 1)
K == 0..(Cardinality(MoE) - 1)
Expert == 0..(Experts - 1)
Proj == 0..(Projs - 1)

\* One upload: an expert's projection, or one tensor of a layer's others.
Uploads(k) == [dense : {FALSE}, k : {k}, p : Proj, e : Expert]
DenseUploads(l) == [dense : {TRUE}, k : {l}, p : 0..(Weights[l] - 1), e : {0}]
Task == (UNION {Uploads(k) : k \in K}) \cup (UNION {DenseUploads(l) : l \in Layer})

ASSUME ArenaAssumption ==
    /\ Layers \in Nat \ {0} /\ Experts \in Nat \ {0} /\ Projs \in Nat \ {0}
    /\ MoE \subseteq Layer /\ IsFiniteSet(MoE) /\ IsFiniteSet(Lanes)
    /\ Weights \in [Layer -> Nat]
    /\ NSlots \in {1, 2}
    /\ Routed \in BOOLEAN /\ OnDemand \in BOOLEAN
    /\ Full \in Nat
    /\ Cache \in Nat \ {0} /\ Need \in Nat
    /\ Misses \subseteq Layer
    /\ Faulty \subseteq Task

None == [dense |-> FALSE, k |-> Layers, p |-> 0, e |-> 0]
\* k_of_layer_: the number of layer il among those with experts.
Number(l) == Cardinality({x \in MoE : x < l})
HasDense == \E l \in Layer : Weights[l] > 0
\* A missed end is noticed at the routing node of the next layer.  This says that where
\* there is something to miss there is such a node, which nothing in the code ensures:
\* it is what the answers rest on, and nothing else does.
MissesNoticed == \A l \in Misses : l + 1 \in Layer /\ Weights[l + 1] > 0 => l + 1 \in MoE

\* The uploads of layer number k of the experts in es.
Of(k, es) == {t \in Uploads(k) : t.e \in es}
\* Two uploads go to one place, one slot's region of a projection or one dense slot.
SamePlace(t, u) ==
    /\ t.dense = u.dense
    /\ IF t.dense THEN t.k % 2 = u.k % 2 ELSE t.k % NSlots = u.k % NSlots /\ t.p = u.p

VARIABLES
    \* The graph, on the session's thread.
    at, il,       \* where it is, and in which layer
    used,         \* the experts the layer being computed routed
    answer,       \* what decode() returned last: 0 is success
    \* The arena, under mu_.
    queue, remaining, dense_remaining, in_flight,
    sched, dense_scheduled, dense_waited, prev, failed,
    \* The loaders: the upload each holds, and whether it is done but for the counts.
    held, done,
    placed,       \* the uploads whose bytes are in their slot
    \* The placement.
    on_device, slots_held, budget, yielded,
    base,         \* the cache's budget, leaving the slots aside
    wrong         \* in this graph the device has computed on bytes not in place

graph == <<at, il, used, answer>>
counts == <<remaining, dense_remaining, in_flight>>
marks == <<sched, dense_scheduled, dense_waited, prev>>
loaders == <<held, done>>
placement == <<on_device, slots_held, budget, yielded, base>>
vars == <<graph, queue, counts, marks, failed, loaders, placed, placement, wrong>>

TypeOK ==
    /\ at \in {"host", "device", "begin", "attn", "route", "experts", "end", "stopped",
              "draining"}
    /\ il \in Layer /\ used \subseteq Expert /\ answer \in {"none", "ok", "failed"}
    /\ queue \subseteq Task /\ remaining \in [K -> Int] /\ dense_remaining \in [Layer -> Int]
    /\ in_flight \in Int
    /\ sched \in [K -> SUBSET Expert] /\ prev \in [K -> SUBSET Expert]
    /\ dense_scheduled \subseteq Layer /\ dense_waited \subseteq Layer /\ failed \in BOOLEAN
    /\ held \in [Lanes -> Task \cup {None}] /\ done \in [Lanes -> BOOLEAN]
    /\ placed \subseteq Task
    /\ on_device \in BOOLEAN /\ slots_held \in BOOLEAN /\ wrong \in BOOLEAN
    /\ budget \in Nat /\ yielded \in Nat /\ base \in Nat

Init ==
    /\ at = "host" /\ il = 0 /\ used = {} /\ answer = "none"
    /\ queue = {} /\ remaining = [k \in K |-> 0] /\ dense_remaining = [l \in Layer |-> 0]
    /\ in_flight = 0
    /\ sched = [k \in K |-> {}] /\ prev = [k \in K |-> {}]
    /\ dense_scheduled = {} /\ dense_waited = {} /\ failed = FALSE
    /\ held = [w \in Lanes |-> None] /\ done = [w \in Lanes |-> FALSE]
    /\ placed = {}
    /\ on_device = FALSE /\ slots_held = ~OnDemand
    /\ budget = Cache /\ yielded = 0 /\ base = Cache
    /\ wrong = FALSE

----------------------------------------------------------------------------
(***************************************************************************)
(* The queue.  Several schedule() calls may share one hold of mu_, so they *)
(* are written as functions of the queue and what counts it.               *)
(***************************************************************************)
State == [q |-> queue, rem |-> remaining, dense |-> dense_remaining, fl |-> in_flight,
          s |-> sched, ds |-> dense_scheduled]

\* schedule(k, want): the experts of `want' this graph has not asked for yet.
Schedule(st, k, want) ==
    IF k \notin K THEN st
    ELSE LET add == Of(k, want \ st.s[k])
         IN  [st EXCEPT !.q = @ \cup add, !.rem[k] = @ + Cardinality(add),
                        !.fl = @ + Cardinality(add), !.s[k] = @ \cup want]

\* MUTANT of ScheduleDense: dense_scheduled_ is not looked at.
ScheduleDenseAgain(st, l) ==
    IF ~HasDense \/ l \notin Layer THEN st
    ELSE [st EXCEPT !.q = @ \cup DenseUploads(l), !.dense[l] = Weights[l],
                    !.fl = @ + Weights[l], !.ds = @ \cup {l}]

\* schedule_dense(il): all of a layer's others, once a graph.
ScheduleDense(st, l) ==
    IF ~HasDense \/ l \notin Layer \/ l \in st.ds THEN st
    ELSE [st EXCEPT !.q = @ \cup DenseUploads(l), !.dense[l] = Weights[l],
                    !.fl = @ + Weights[l], !.ds = @ \cup {l}]

Store(st) ==
    /\ queue' = st.q /\ remaining' = st.rem /\ dense_remaining' = st.dense /\ in_flight' = st.fl
    /\ sched' = st.s /\ dense_scheduled' = st.ds

\* What is read of layer number k before it has routed.
Predicted(k) == IF Routed /\ prev[k] # {} THEN prev[k] ELSE Expert

\* The uploads of a graph that the computation at this point reads are in place.
InPlace ==
    /\ at = "attn" /\ HasDense => DenseUploads(il) \subseteq placed
    /\ at = "experts" => Of(Number(il), used) \subseteq placed
Observe == wrong' = (wrong \/ ~InPlace')

----------------------------------------------------------------------------
(***************************************************************************)
(* The placement, between two graphs (PrefillPath::place).                 *)
(***************************************************************************)
\* MUTANT of PlaceOnDevice: slots held through a draft's walk are yielded to again.
PlaceYieldsAgain ==
    /\ at = "host"
    /\ at' = "device" /\ on_device' = TRUE
    /\ slots_held' = TRUE /\ yielded' = budget
    /\ budget' = IF budget > Need THEN budget - Need ELSE 1
    /\ placed' = {t \in placed : t.dense}
    /\ UNCHANGED <<il, used, answer, queue, counts, marks, failed, loaders, base, wrong>>

\* A wide piece of a prompt: on demand, the cache gives up what the slots take.
\* Slots that are built anew hold nothing (build_slots clears them).  When there
\* is no room for them the budget is put back and the piece runs on the host,
\* which changes nothing here.
PlaceOnDevice ==
    /\ at = "host"
    /\ at' = "device" /\ on_device' = TRUE
    /\ IF slots_held THEN UNCHANGED <<slots_held, budget, yielded, placed>>
       ELSE /\ slots_held' = TRUE /\ yielded' = budget
            /\ budget' = IF budget > Need THEN budget - Need ELSE 1
            /\ placed' = {t \in placed : t.dense}
    /\ UNCHANGED <<il, used, answer, queue, counts, marks, failed, loaders, base, wrong>>

\* A narrow piece, a draft's walk (which holds the slots) or the end of the prompt.
PlaceOnHost(hold_slots) ==
    /\ at \in {"device", "host"}
    /\ at' = "host" /\ on_device' = FALSE
    /\ IF hold_slots \/ ~OnDemand \/ ~slots_held THEN UNCHANGED <<slots_held, budget, yielded>>
       ELSE /\ in_flight = 0
            /\ slots_held' = FALSE /\ budget' = yielded /\ yielded' = 0
    /\ UNCHANGED <<il, used, answer, queue, counts, marks, failed, loaders, placed,
                   base, wrong>>

\* The cache brake, between two decodes: the slots have been given back by then.
Brake ==
    /\ at = "host" /\ ~(OnDemand /\ slots_held)
    /\ \E b \in 1..(budget - 1) : budget' = b /\ base' = b
    /\ UNCHANGED <<graph, queue, counts, marks, failed, loaders, placed, on_device, slots_held,
                   yielded, wrong>>

----------------------------------------------------------------------------
(***************************************************************************)
(* A graph on the device (PrefillPath::decode, RouterHook::arena_eval).    *)
(***************************************************************************)
\* MUTANT of FirstLayers: one layer more than there are slots.
FirstLayersTooMany(st) ==
    LET one == Schedule(st, 0, Predicted(0))
    IN  Schedule(IF NSlots > 1 THEN Schedule(one, 1, Predicted(1)) ELSE one, NSlots, Expert)

FirstLayers(st) ==
    LET one == Schedule(st, 0, Predicted(0))
    IN  IF NSlots > 1 THEN Schedule(one, 1, Predicted(1)) ELSE one

BeginGraph ==
    /\ at = "device"
    /\ at' = "begin" /\ il' = 0 /\ used' = {} /\ answer' = "none"
    /\ failed' = FALSE /\ dense_waited' = {} /\ wrong' = FALSE
    /\ LET clear == [State EXCEPT !.s = [k \in K |-> {}], !.ds = {}]
       IN  Store(FirstLayers(ScheduleDense(ScheduleDense(clear, 0), 1)))
    /\ UNCHANGED <<prev, loaders, placed, placement>>

\* There is no node before layer 0 to wait at: begin_graph() waits itself.
Begun ==
    /\ at = "begin" /\ (HasDense => dense_remaining[0] = 0)
    /\ at' = "attn" /\ dense_waited' = IF HasDense THEN {0} ELSE {}
    /\ UNCHANGED <<il, used, answer, queue, counts, sched, dense_scheduled, prev,
                   failed, loaders, placed, placement>>
    /\ Observe

\* The next layer, where it has a slot of its own.
ReadAhead(st, k, whole) ==
    IF NSlots = 1 \/ k \notin K THEN st
    ELSE Schedule(st, k, IF whole THEN Expert ELSE Predicted(k))

\* barrier(), up to its wait: the routing `es' of this layer is known, and the
\* slot of the layer before last is free.  A type of ids it does not read: whole.
Barrier ==
    /\ at = "attn" /\ il \in MoE
    /\ at' = "route"
    /\ failed' = (failed \/ (HasDense /\ Weights[il] > 0 /\ il \notin dense_waited))
    /\ \E es \in SUBSET Expert \ {{}} :
         /\ used' = es
         /\ IF Routed
            THEN /\ Store(ReadAhead(Schedule(State, Number(il), es), Number(il) + 1,
                                   Cardinality(es) > Full))
                 /\ prev' = [prev EXCEPT ![Number(il)] = es]
            ELSE /\ Store(ReadAhead(Schedule(State, Number(il), Expert), Number(il) + 1, TRUE))
                 /\ UNCHANGED prev
    /\ UNCHANGED <<il, answer, dense_waited, loaders, placed, placement>>
    /\ Observe

BarrierReturns ==
    /\ at = "route" /\ remaining[Number(il)] = 0
    /\ at' = "experts"
    /\ UNCHANGED <<il, used, answer, queue, counts, marks, failed, loaders, placed, placement>>
    /\ Observe

Computed == at = (IF il \in MoE THEN "experts" ELSE "attn")

\* A layer's last node: its dense slot is free, the next layer's is waited for.
DenseBarrier ==
    /\ Computed /\ il + 1 \in Layer /\ HasDense
    /\ at' = "end"
    /\ Store(ScheduleDense(ScheduleDense(State, il + 1), il + 2))
    /\ UNCHANGED <<il, used, answer, dense_waited, prev, failed, loaders, placed, placement>>
    /\ Observe

DenseBarrierReturns ==
    /\ at = "end" /\ dense_remaining[il + 1] = 0
    /\ at' = "attn" /\ il' = il + 1 /\ dense_waited' = dense_waited \cup {il + 1}
    /\ UNCHANGED <<used, answer, queue, counts, sched, dense_scheduled, prev, failed,
                   loaders, placed, placement>>
    /\ Observe

\* No such node is reported: there are no dense slots, or the graph is built so
\* that the node known as the layer's last is not in it.
NextLayer ==
    /\ Computed /\ il + 1 \in Layer /\ (HasDense => il \in Misses)
    /\ at' = "attn" /\ il' = il + 1
    /\ UNCHANGED <<used, answer, queue, counts, marks, failed, loaders, placed, placement>>
    /\ Observe

\* llama_decode() returns: after the last layer, or earlier with an error.
Stop ==
    /\ at \in {"attn", "experts"}
    /\ at' = "stopped"
    /\ answer' \in {"failed"} \cup (IF Computed /\ il = Layers - 1 THEN {"ok"} ELSE {})
    /\ UNCHANGED <<il, used, queue, counts, marks, failed, loaders, placed, placement, wrong>>

\* MUTANT of EndGraph: the queue is dropped and the counts stay.
EndGraphKeepsCounts ==
    /\ at = "stopped" /\ at' = "draining" /\ queue' = {}
    /\ UNCHANGED <<il, used, answer, counts, marks, failed, loaders, placed, placement, wrong>>

\* end_graph(), up to its wait: what nobody will wait for leaves the queue and the counts.
EndGraph ==
    /\ at = "stopped"
    /\ at' = "draining"
    /\ queue' = {}
    /\ remaining' = [k \in K |-> remaining[k] - Cardinality({t \in queue : ~t.dense /\ t.k = k})]
    /\ dense_remaining' =
         [l \in Layer |-> dense_remaining[l] - Cardinality({t \in queue : t.dense /\ t.k = l})]
    /\ in_flight' = in_flight - Cardinality(queue)
    /\ UNCHANGED <<il, used, answer, marks, failed, loaders, placed, placement, wrong>>

\* MUTANT of Answer: end_graph() does not wait for the loaders.
AnswerAtOnce ==
    /\ at = "draining" /\ at' = "device"
    /\ answer' = IF failed THEN "failed" ELSE answer
    /\ UNCHANGED <<il, used, queue, counts, marks, failed, loaders, placed, placement, wrong>>

\* decode() answers, with an error of its own where a read failed or a node was missed.
Answer ==
    /\ at = "draining" /\ in_flight = 0
    /\ at' = "device"
    /\ answer' = IF failed THEN "failed" ELSE answer
    /\ UNCHANGED <<il, used, queue, counts, marks, failed, loaders, placed, placement, wrong>>

----------------------------------------------------------------------------
(***************************************************************************)
(* A loader (worker): taken under mu_, read and uploaded outside, counted  *)
(* under mu_.  Its order in the queue decides how long a barrier waits and *)
(* nothing else, so any queued upload may be the next.                     *)
(***************************************************************************)
Take(w) ==
    /\ held[w] = None
    /\ \E t \in queue : held' = [held EXCEPT ![w] = t] /\ queue' = queue \ {t}
    /\ UNCHANGED <<graph, counts, marks, failed, done, placed, placement, wrong>>

Upload(w) ==
    /\ held[w] # None /\ ~done[w]
    /\ done' = [done EXCEPT ![w] = TRUE]
    /\ placed' = {u \in placed : SamePlace(held[w], u) => u.k = held[w].k} \cup {held[w]}
    /\ UNCHANGED <<graph, queue, counts, marks, failed, held, placement>>
    /\ Observe

\* Only an expert is read from a file; the others are copied from the host's memory.
ReadFails(w) ==
    /\ held[w] \in Faulty /\ ~held[w].dense /\ ~done[w]
    /\ done' = [done EXCEPT ![w] = TRUE]
    /\ failed' = TRUE
    /\ UNCHANGED <<graph, queue, counts, marks, held, placed, placement, wrong>>

CountDown(w) ==
    /\ held[w] # None /\ done[w]
    /\ held' = [held EXCEPT ![w] = None] /\ done' = [done EXCEPT ![w] = FALSE]
    /\ IF held[w].dense
       THEN /\ dense_remaining' = [dense_remaining EXCEPT ![held[w].k] = @ - 1]
            /\ UNCHANGED remaining
       ELSE /\ remaining' = [remaining EXCEPT ![held[w].k] = @ - 1]
            /\ UNCHANGED dense_remaining
    /\ in_flight' = in_flight - 1
    /\ UNCHANGED <<graph, queue, marks, failed, placed, placement, wrong>>

Loader(w) == Take(w) \/ Upload(w) \/ ReadFails(w) \/ CountDown(w)

Session ==
    \/ PlaceOnDevice \/ Brake \/ \E hold \in BOOLEAN : PlaceOnHost(hold)
    \/ BeginGraph \/ Begun \/ Barrier \/ BarrierReturns
    \/ DenseBarrier \/ DenseBarrierReturns \/ NextLayer \/ Stop \/ EndGraph \/ Answer

Next == Session \/ \E w \in Lanes : Loader(w)

\* The loaders and the device go on; which pieces a prompt has is its own matter.
Spec == /\ Init /\ [][Next]_vars
        /\ \A w \in Lanes : WF_vars(Loader(w))
        /\ WF_vars(Begun) /\ WF_vars(BarrierReturns) /\ WF_vars(DenseBarrierReturns)
        /\ WF_vars(EndGraph) /\ WF_vars(Answer)

----------------------------------------------------------------------------
(***************************************************************************)
(* What the arena promises.                                                *)
(***************************************************************************)
Queued(S) == Cardinality(queue \cap S)
Held(S) == Cardinality({w \in Lanes : held[w] \in S})
Waits == {"begin", "route", "end", "draining"}

\* A decode on the device that answers success has computed every layer on its
\* own weights: attention on the layer's dense slot, the experts it routed on
\* theirs.  A read that failed or a node that never came is an error instead; the
\* latter where MissesNoticed holds.
RightOrRefused == at = "device" /\ answer = "ok" => ~wrong

\* The counts the barriers wait for are the uploads queued or in a loader's hands.
CountsExact ==
    /\ \A k \in K : remaining[k] = Queued(Uploads(k)) + Held(Uploads(k))
    /\ \A l \in Layer : dense_remaining[l] = Queued(DenseUploads(l)) + Held(DenseUploads(l))
    /\ in_flight = Cardinality(queue) + Held(Task)

\* Between two graphs, also after one that stopped early, nothing is queued and no
\* loader has anything to write: the slots may be freed.
SlotsFree == at \in {"host", "device"} => queue = {} /\ \A w \in Lanes : held[w] = None

\* The cache has its whole budget whenever the slots are not held, over any order
\* of pieces, draft walks and the brake.
BudgetBack == OnDemand /\ ~slots_held => budget = base

\* Every wait of the session's thread ends.
WaitsEnd == \A p \in Waits : at = p ~> at # p
=============================================================================
