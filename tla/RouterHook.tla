------------------------------ MODULE RouterHook ------------------------------
(***************************************************************************)
(* The router hook while a model streams (core/src/moe/router_hook.cpp):   *)
(* what the eval thread does at the nodes of a graph it stops at - the     *)
(* top-k of a layer, where the routing is known, and the nodes of its      *)
(* chain of weights - and the worker that ranks the experts of a later     *)
(* layer meanwhile.                                                        *)
(*                                                                         *)
(* With route-ahead the routing of a layer is replaced by the ranking made *)
(* Depth layers earlier, when there is one; with expert dropping a layer   *)
(* whose last weight node is known is loaded there and not at its top-k,   *)
(* without the experts it gives up.                                        *)
(*                                                                         *)
(* A ranking is its stamp: the number of the batch whose hidden state it   *)
(* was made from.  Whatever touches the worker's slots is one hold of      *)
(* pred_mtx_ and an action of its own.                                     *)
(***************************************************************************)
EXTENDS Integers, FiniteSets

CONSTANTS Layers,       \* n_layer_; the layers are 0 .. Layers-1
          Depth,        \* route_ahead_, how many layers early
          Placements,   \* the sets of layers whose router may run on the host
          Slots,        \* the slots of a routing: nu of them
          Chains,       \* the weight nodes a graph may offer, by their variants
          Drop,         \* drop_frac_ > 0
          DropPrefill,  \* drop_prefill_
          MayTrip,      \* may the watchdog find the barrier-less read untrue
          MayAbort,     \* may a graph be abandoned between two nodes
          MaxBatches    \* bound: how many graphs run

ASSUME HookAssumption ==
    /\ Layers \in Nat \ {0} /\ Depth \in Nat \ {0} /\ MaxBatches \in Nat
    /\ Placements \subseteq SUBSET (0..(Layers - 1)) /\ Placements # {}
    /\ IsFiniteSet(Slots) /\ Slots # {}
    /\ Chains \subseteq SUBSET Nat /\ \A c \in Chains : IsFiniteSet(c)
    /\ {Drop, DropPrefill, MayTrip, MayAbort} \subseteq BOOLEAN

Layer == 0..(Layers - 1)

VARIABLES
    \* The graph that runs.
    at,          \* what the eval thread does next
    layer,       \* at which layer
    batch,       \* how many graphs have begun
    phase,       \* batch_phase_: 0 for a prompt's chunk, 1 for a decode
    single,      \* does it decode one token, and not a draft behind it as well
    host,        \* the layers whose router runs on the host, the same for every graph
    chain,       \* the variants of the weight nodes this graph has
    ids,         \* the routing in the top-k node: by which ranking (0: the router's
                 \* own), and the slots that still name their own expert
    loaded,      \* the routing load_layer was given for this layer, if it was
    \* The drop policy.
    term,        \* term_variant_: the node that ends a layer's chain, -1 unknown
    drop_layer, deferred,  \* drop_.layer (-1: none), drop_.deferred
    chain_last,  \* chain_last_
    bare,        \* how often a layer's matmul ran unloaded since a load in time
    \* Route-ahead, on the eval thread.
    gates,       \* the layers whose gate_w_ is stashed
    pred,        \* ra_pred_: the stamp of the ranking kept for a layer, 0 for none
    early,       \* the layers whose reads were started ahead of their routing
    tripped,     \* ra_tripped_
    due,         \* the layers whose ranking was ready before the next top-k
    \* The worker's slots, under pred_mtx_, and the worker.
    pred_seq, job, pending, result, ready, stop,
    worker, doing

drop == <<term, drop_layer, deferred, chain_last, bare>>
ahead == <<gates, pred, early, tripped, due>>
graph == <<batch, phase, single, chain>>
slots == <<pred_seq, job, pending, result, ready>>
thread == <<stop, worker, doing>>
vars == <<host, at, layer, graph, ids, loaded, drop, ahead, slots, thread>>

Stamp == 0..MaxBatches
Routing == [by : Stamp, kept : SUBSET Slots]
Nothing == [by |-> 0, kept |-> {}]
Own == [by |-> 0, kept |-> Slots]
Job == [seq : Nat, nl : Layer, tok : Stamp]
Variant == UNION Chains

Places == {"between", "ask", "topk", "closed_drop", "collect", "submit", "load", "after",
           "chain", "after_drop", "matmul", "joining", "closed"}

TypeOK ==
    /\ at \in Places /\ layer \in Layer /\ batch \in Stamp /\ phase \in {0, 1}
    /\ single \in BOOLEAN /\ host \in Placements /\ chain \in Chains
    /\ ids \in Routing /\ loaded \in Routing
    /\ term \in [Layer -> Variant \union {-1}]
    /\ drop_layer \in Layer \union {-1} /\ deferred \in BOOLEAN
    /\ chain_last \in Variant \union {-1}
    /\ bare \in [Layer -> Nat]
    /\ gates \subseteq Layer /\ pred \in [Layer -> Stamp] /\ early \subseteq Layer
    /\ tripped \in BOOLEAN /\ due \subseteq Layer
    /\ pred_seq \in Nat /\ job \in Job /\ pending \in BOOLEAN
    /\ result \in Job /\ ready \in BOOLEAN /\ stop \in BOOLEAN
    /\ worker \in {"waiting", "ranking", "gone"} /\ doing \in Job

NoJob == [seq |-> 0, nl |-> 0, tok |-> 0]

Init ==
    /\ at = "between" /\ layer = 0 /\ batch = 0 /\ phase = 0 /\ single = TRUE
    /\ host \in Placements /\ chain \in Chains
    /\ ids = Own /\ loaded = Nothing
    /\ term = [l \in Layer |-> -1] /\ drop_layer = -1 /\ deferred = FALSE
    /\ chain_last = -1 /\ bare = [l \in Layer |-> 0]
    /\ gates = {} /\ pred = [l \in Layer |-> 0] /\ early = {}
    /\ tripped = FALSE /\ due = {}
    /\ pred_seq = 0 /\ job = NoJob /\ pending = FALSE
    /\ result = NoJob /\ ready = FALSE /\ stop = FALSE
    /\ worker = "waiting" /\ doing = NoJob

---------------------------------------------------------------------------
(* The frame of a graph.                                                   *)

\* A llama_decode begins: a chunk of a prompt, or one token with or without a
\* draft behind it, over a graph that has some of the weight nodes.
BeginBatch(ph, one, c) ==
    /\ at = "between" /\ batch < MaxBatches
    /\ at' = "ask" /\ layer' = 0
    /\ batch' = batch + 1 /\ phase' = ph /\ single' = one /\ chain' = c
    /\ due' = {}
    /\ UNCHANGED <<host, ids, loaded, drop, gates, pred, early, tripped, slots, thread>>

\* The graph reaches a layer: its gate matmul is asked about, and a decode
\* stashes the router's matrix where it lies in host memory.
Ask ==
    /\ at = "ask"
    /\ at' = "topk"
    /\ gates' = IF phase = 1 /\ layer \in host THEN gates \union {layer} ELSE gates
    /\ UNCHANGED <<host, layer, graph, ids, loaded, drop, pred, early, tripped, due, slots, thread>>

\* The graph is abandoned: a turn was cancelled, or a node failed.
Abort ==
    /\ MayAbort
    /\ at \in {"ask", "chain", "matmul"}
    /\ at' = "between"
    /\ UNCHANGED <<host, layer, graph, ids, loaded, drop, ahead, slots, thread>>

---------------------------------------------------------------------------
(* Route-ahead: the worker's result, and its next job.                     *)

\* The seeded bug of Latest: any finished ranking is taken.
AnyRanking == TRUE

\* A ranking the previous token never collected fails here, once a new job is out.
Latest == result.seq = pred_seq

Collectable == phase = 1 /\ ~tripped /\ ready /\ Latest

\* route_ahead_collect(il): a finished ranking is kept for its layer, and where
\* that is still ahead its reads are started.
Collect(il) ==
    IF Collectable
    THEN /\ pred' = [pred EXCEPT ![result.nl] = result.tok]
         /\ early' = IF result.nl > il THEN early \union {result.nl} ELSE early
         /\ ready' = FALSE
    ELSE UNCHANGED <<pred, early, ready>>

CollectAt(from, to, il) ==
    /\ at = from
    /\ at' = to
    /\ Collect(il)
    /\ UNCHANGED <<host, layer, graph, ids, loaded, gates, tripped, due,
                   pred_seq, job, pending, result, thread>>

\* close_drop_layer's collection, for the layer it closes.
CloseCollect ==
    /\ CollectAt("closed_drop", "collect", drop_layer)
    /\ drop_layer' = -1
    /\ UNCHANGED <<term, deferred, chain_last, bare>>

\* The seeded bug of TopkCollect: the ranking is left for the collection after
\* the load, when the next job has been submitted.
TopkCollectNot ==
    /\ at = "collect" /\ layer \in host
    /\ at' = "submit"
    /\ UNCHANGED <<host, layer, graph, ids, loaded, drop, ahead, slots, thread>>

\* on_topk collects before it submits.
TopkCollect ==
    /\ layer \in host
    /\ CollectAt("collect", "submit", layer)
    /\ UNCHANGED drop

\* A routing made on a device is copied, and left as it is.
TopkOffHost ==
    /\ layer \notin host
    /\ at = "collect"
    /\ at' = "submit"
    /\ UNCHANGED <<host, layer, graph, ids, loaded, drop, ahead, slots, thread>>

\* The collections after a load: at the top-k, and where a drop was applied.
LoadCollect == CollectAt("after", "chain", layer) /\ UNCHANGED drop
DropCollect == CollectAt("after_drop", "matmul", layer) /\ UNCHANGED drop

Target == layer + Depth

\* The seeded bug of Invalidated: the ranking kept for the target stays.
InvalidatedNot(p) == p

\* What is kept for the target layer is the previous token's.
Invalidated(p) == IF Target \in Layer THEN [p EXCEPT ![Target] = 0] ELSE p

\* route_ahead_submit: the watchdog's sample may disarm it; otherwise the ranking
\* of the target layer is asked for, where its gate is known.
SubmitJob(trips) ==
    LET submits == ~trips /\ Target \in gates
    IN  /\ pred_seq' = IF submits THEN pred_seq + 1 ELSE pred_seq
        /\ job' = IF submits THEN [seq |-> pred_seq + 1, nl |-> Target, tok |-> batch] ELSE job
        /\ pending' = (submits \/ pending)

\* apply_route_ahead: the ranking kept for this layer becomes its routing, in a
\* decode of one token.
Committed(p) == IF layer >= Depth /\ single THEN p[layer] ELSE 0

Armed == phase = 1 /\ ~tripped /\ layer \in host

\* The drop policy's on_topk: the load waits for the layer's last weight node.
DropArmed == Drop /\ (phase = 1 \/ DropPrefill)
OpenDrop ==
    /\ drop_layer' = layer
    /\ deferred' = (DropArmed /\ layer \in host /\ term[layer] # -1)
    /\ at' = IF deferred' THEN "chain" ELSE "load"
    /\ chain_last' = -1
    /\ UNCHANGED <<term, bare>>

\* The middle of on_topk: submit, commit, gather, open the layer for the drop.
SubmitCommit(trips) ==
    /\ at = "submit"
    /\ trips => MayTrip /\ Armed
    /\ IF Armed
       THEN /\ tripped' = trips
            /\ SubmitJob(trips)
            /\ IF trips
               THEN pred' = Invalidated(pred) /\ ids' = Own
               ELSE /\ pred' = [Invalidated(pred) EXCEPT ![layer] =
                                   IF layer >= Depth THEN 0 ELSE @]
                    /\ ids' = [Own EXCEPT !.by = Committed(pred)]
       ELSE /\ ids' = Own
            /\ UNCHANGED <<tripped, pred_seq, job, pending, pred>>
    /\ early' = early \ {layer}
    /\ loaded' = Nothing
    /\ OpenDrop
    /\ UNCHANGED <<host, layer, graph, gates, due, result, ready, thread>>

---------------------------------------------------------------------------
(* The load, and the drop policy.                                          *)

\* load_layer at the top-k.
Load ==
    /\ at = "load"
    /\ at' = "after"
    /\ loaded' = ids
    /\ bare' = [bare EXCEPT ![layer] = 0]
    /\ UNCHANGED <<host, layer, graph, ids, term, drop_layer, deferred, chain_last, ahead,
                   slots, thread>>

\* The weight nodes of this layer the hook stops at: all while it learns which is
\* the last, that one alone afterwards, none when nothing wants the weights.
Offered ==
    IF ~DropArmed \/ layer \notin host THEN {}
    ELSE IF term[layer] = -1 THEN chain
    ELSE chain \intersect {term[layer]}

Decides == deferred /\ term[layer] \in Offered

\* The chain goes by, and the last node offered is remembered.
PassChain ==
    /\ at = "chain" /\ ~Decides
    /\ at' = "matmul"
    /\ IF Offered = {} THEN UNCHANGED chain_last
       ELSE \E v \in Offered : (\A w \in Offered : w <= v) /\ chain_last' = v
    /\ UNCHANGED <<host, layer, graph, ids, loaded, term, drop_layer, deferred, bare, ahead,
                   slots, thread>>

\* The seeded bug of Repointed: the slot of a dropped expert keeps its id.
RepointedNot(gone) == ids

\* A dropped slot names the top expert, which is never dropped.
Repointed(gone) == [ids EXCEPT !.kept = @ \ gone]

\* apply_drop: any misses but the top expert may be given up; the rest is loaded.
ApplyDrop(gone) ==
    /\ at = "chain" /\ Decides
    /\ gone # Slots
    /\ at' = "after_drop"
    /\ chain_last' = term[layer]
    /\ ids' = Repointed(gone)
    /\ loaded' = [ids EXCEPT !.kept = @ \ gone]
    /\ deferred' = FALSE
    /\ bare' = [bare EXCEPT ![layer] = 0]
    /\ UNCHANGED <<host, layer, graph, term, drop_layer, ahead, slots, thread>>

\* The seeded bug of Relearned: the terminal that never came is believed.
RelearnedNot ==
    IF drop_layer # -1 /\ term[drop_layer] = -1
    THEN [term EXCEPT ![drop_layer] = chain_last] ELSE term

\* The last node of the chain is learned; one that did not come is forgotten.
Relearned ==
    IF drop_layer = -1 THEN term
    ELSE IF deferred THEN [term EXCEPT ![drop_layer] = -1]
    ELSE IF term[drop_layer] = -1 THEN [term EXCEPT ![drop_layer] = chain_last]
    ELSE term

\* close_drop_layer, at the next top-k: a load that was left waiting is done now.
CloseDrop ==
    /\ at = "topk"
    /\ term' = Relearned
    /\ deferred' = FALSE
    /\ IF deferred THEN at' = "closed_drop" /\ UNCHANGED drop_layer
                   ELSE at' = "collect" /\ drop_layer' = -1
    /\ UNCHANGED <<host, layer, graph, ids, loaded, chain_last, bare, ahead, slots, thread>>

\* Is every expert the routing names one that was asked for?
Loaded == loaded.kept # {} /\ ids.by = loaded.by /\ ids.kept \subseteq loaded.kept

\* The expert matmul runs, and the graph goes on.
Matmul ==
    /\ at = "matmul"
    /\ bare' = [bare EXCEPT ![layer] = IF Loaded THEN @ ELSE @ + 1]
    /\ IF layer = Layers - 1 THEN at' = "between" /\ UNCHANGED layer
                             ELSE at' = "ask" /\ layer' = layer + 1
    /\ UNCHANGED <<host, graph, ids, loaded, term, drop_layer, deferred, chain_last, ahead,
                   slots, thread>>

---------------------------------------------------------------------------
(* The worker, and its end.                                                *)

\* The worker takes the job; one that was not taken yet has been written over.
Take ==
    /\ worker = "waiting" /\ pending /\ ~stop
    /\ worker' = "ranking" /\ doing' = job
    /\ pending' = FALSE
    /\ UNCHANGED <<host, at, layer, graph, ids, loaded, drop, ahead, pred_seq, job, result, ready, stop>>

\* Has the top-k after the one that submitted for layer nl not begun?
Punctual(nl) ==
    \/ layer = nl - Depth
    \/ layer = nl - Depth + 1 /\ at \in {"ask", "topk", "closed_drop", "collect"}

\* The ranking is put in the result's slot, over whatever is there.
Deliver ==
    /\ worker = "ranking"
    /\ worker' = "waiting"
    /\ result' = doing /\ ready' = TRUE
    /\ due' = IF doing.tok = batch /\ Punctual(doing.nl) THEN due \union {doing.nl} ELSE due
    /\ UNCHANGED <<host, at, layer, graph, ids, loaded, drop, gates, pred, early, tripped,
                   pred_seq, job, pending, stop, doing>>

\* Neither kernel could score the row.
Unscored ==
    /\ worker = "ranking"
    /\ worker' = "waiting"
    /\ UNCHANGED <<host, at, layer, graph, ids, loaded, drop, ahead, slots, stop, doing>>

\* pred_stop_ is looked at before the job.
Leave ==
    /\ worker = "waiting" /\ stop
    /\ worker' = "gone"
    /\ UNCHANGED <<host, at, layer, graph, ids, loaded, drop, ahead, slots, stop, doing>>

\* predict_worker_stop, by the teardown of the session.
StopWorker ==
    /\ at = "between"
    /\ at' = "joining" /\ stop' = TRUE
    /\ UNCHANGED <<host, layer, graph, ids, loaded, drop, ahead, slots, worker, doing>>

JoinWorker ==
    /\ at = "joining" /\ worker = "gone"
    /\ at' = "closed" /\ stop' = FALSE
    /\ UNCHANGED <<host, layer, graph, ids, loaded, drop, ahead, slots, worker, doing>>

Closed == at = "closed" /\ UNCHANGED vars

WorkerStep == Take \/ Deliver \/ Unscored \/ Leave

Eval ==
    \/ Ask \/ CloseDrop \/ CloseCollect \/ TopkCollect \/ TopkOffHost
    \/ \E trips \in BOOLEAN : SubmitCommit(trips)
    \/ Load \/ LoadCollect
    \/ PassChain \/ \E gone \in SUBSET Slots : ApplyDrop(gone)
    \/ DropCollect \/ Matmul
    \/ JoinWorker

Next ==
    \/ \E ph \in {0, 1}, one \in BOOLEAN, c \in Chains : BeginBatch(ph, one, c)
    \/ Abort \/ StopWorker
    \/ Eval \/ WorkerStep
    \/ Closed

Spec == Init /\ [][Next]_vars

---------------------------------------------------------------------------
(* Correctness.                                                            *)

\* Where the routing of the layer is decided.
Routed == {"load", "after", "chain", "after_drop", "matmul"}

\* A token is never routed by a ranking made from another token's hidden state
\* (route_ahead_submit's comment; route-ahead.md: never a stale one).
CommitsOwnToken == at \in Routed => ids.by \in {0, batch}

\* A ranking that was ready before the next layer's top-k began is the routing of
\* its layer: the collection comes before the submission that would outdate it.
PunctualIsCommitted ==
    (at \in Routed /\ layer \in due /\ single /\ ~tripped)
        => ids.by = batch

\* The matmul of a layer names no expert that was not loaded, unless the graph
\* lacks the node the load was put off to.
MatmulLoaded ==
    at = "matmul" => Loaded \/ (deferred /\ term[layer] \notin chain)

\* A graph that moved costs one layer of one token: the load is not put off to a
\* node that did not come a second time (close_drop_layer's comment).
NoStandingBet == \A l \in Layer : bare[l] <= 1

\* Reads that were started early are of a routing that will be committed
\* (docs/settings.md: they can never be wasted).
EarlyIsKept == \A l \in early : pred[l] # 0
=============================================================================
