-------------------------- MODULE RouterHook_proofs --------------------------
(* Proofs about RouterHook, for any number of layers, slots, batches and depths. *)
EXTENDS RouterHook, TLAPS

(***************************************************************************)
(* Types.                                                                  *)
(***************************************************************************)
\* The initial states are typed.
LEMMA InitType == Init => TypeOK
<1> SUFFICES ASSUME Init PROVE TypeOK
  OBVIOUS
<1>1. 0 \in Layer /\ 0 \in Stamp
  BY HookAssumption DEF Layer, Stamp
<1>2. Own \in Routing /\ Nothing \in Routing
  BY <1>1 DEF Own, Nothing, Routing
<1>3. NoJob \in Job
  BY <1>1 DEF NoJob, Job
<1> QED
  BY <1>1, <1>2, <1>3 DEF Init, TypeOK, Places

\* Every step keeps the types.
LEMMA StepType == TypeOK /\ [Next]_vars => TypeOK'
<1> SUFFICES ASSUME TypeOK, [Next]_vars PROVE TypeOK'
  OBVIOUS
<1> USE DEF TypeOK
<1>1. CASE \E ph \in {0, 1}, one \in BOOLEAN, c \in Chains : BeginBatch(ph, one, c)
  BY <1>1, HookAssumption DEF Places, Layer, Stamp, BeginBatch, graph, drop, ahead, slots,
     thread, vars
<1>2. CASE Ask
  BY <1>2 DEF Places, Ask, graph, drop, ahead, slots, thread, vars
<1>3. CASE CloseDrop
  BY <1>3 DEF Places, CloseDrop, Relearned, graph, drop, ahead, slots, thread, vars
<1>4. CASE CloseCollect
  BY <1>4 DEF Places, Job, CloseCollect, CollectAt, Collect, Collectable, Latest, graph,
     drop, ahead, slots, thread, vars
<1>5. CASE TopkCollect
  BY <1>5 DEF Places, Job, TopkCollect, CollectAt, Collect, Collectable, Latest, graph,
     drop, ahead, slots, thread, vars
<1>6. CASE TopkOffHost
  BY <1>6 DEF Places, TopkOffHost, graph, drop, ahead, slots, thread, vars
<1>7. CASE \E trips \in BOOLEAN : SubmitCommit(trips)
  <2>1. PICK trips \in BOOLEAN : SubmitCommit(trips)
    BY <1>7
  <2>2. 0 \in Stamp /\ Own \in Routing /\ Nothing \in Routing
    BY HookAssumption DEF Stamp, Own, Nothing, Routing
  <2>3. Invalidated(pred) \in [Layer -> Stamp]
    BY <2>2 DEF Invalidated
  <2>4. pred' \in [Layer -> Stamp]
    BY <2>1, <2>2, <2>3 DEF SubmitCommit
  <2>5. ids' \in Routing
    <3>1. Committed(pred) \in Stamp
      BY <2>2 DEF Committed
    <3>2. [Own EXCEPT !.by = Committed(pred)] \in Routing
      BY <2>2, <3>1 DEF Routing
    <3> QED
      BY <2>1, <2>2, <3>2 DEF SubmitCommit
  <2>6. pred_seq' \in Nat /\ job' \in Job /\ pending' \in BOOLEAN /\ tripped' \in BOOLEAN
    <3>1. CASE SubmitJob(trips) /\ tripped' = trips
      <4>1. Target \in gates => [seq |-> pred_seq + 1, nl |-> Target, tok |-> batch] \in Job
        BY DEF Job
      <4>2. pred_seq' \in Nat /\ job' \in Job
        BY <3>1, <4>1 DEF SubmitJob
      <4>3. pending' = ((~trips /\ Target \in gates) \/ pending)
        BY <3>1 DEF SubmitJob
      <4> QED
        BY <2>1, <3>1, <4>2, <4>3
    <3>2. CASE UNCHANGED <<tripped, pred_seq, job, pending>>
      BY <3>2
    <3> QED
      BY <2>1, <3>1, <3>2 DEF SubmitCommit
  <2>7. /\ at' \in Places /\ drop_layer' \in Layer \union {-1} /\ deferred' \in BOOLEAN
        /\ chain_last' \in Variant \union {-1} /\ UNCHANGED <<term, bare>>
    BY <2>1 DEF SubmitCommit, OpenDrop, Places
  <2>8. early' \subseteq Layer /\ loaded' \in Routing
    BY <2>1, <2>2 DEF SubmitCommit
  <2> QED
    BY <2>1, <2>4, <2>5, <2>6, <2>7, <2>8 DEF SubmitCommit, graph, thread
<1>8. CASE Load
  BY <1>8 DEF Places, Load, graph, drop, ahead, slots, thread, vars
<1>9. CASE LoadCollect
  BY <1>9 DEF Places, Job, LoadCollect, CollectAt, Collect, Collectable, Latest, graph,
     drop, ahead, slots, thread, vars
<1>10. CASE PassChain
  BY <1>10 DEF Places, Variant, PassChain, Offered, graph, drop, ahead, slots, thread, vars
<1>11. CASE \E gone \in SUBSET Slots : ApplyDrop(gone)
  <2>1. PICK gone \in SUBSET Slots : ApplyDrop(gone)
    BY <1>11
  <2>2. [ids EXCEPT !.kept = @ \ gone] \in Routing
    BY DEF Routing
  <2>3. ids' \in Routing /\ loaded' \in Routing
    BY <2>1, <2>2 DEF ApplyDrop, Repointed
  <2>4. chain_last' \in Variant \union {-1} /\ at' \in Places /\ deferred' \in BOOLEAN
    BY <2>1 DEF ApplyDrop, Places
  <2>5. bare' \in [Layer -> Nat]
    BY <2>1 DEF ApplyDrop
  <2> QED
    BY <2>1, <2>3, <2>4, <2>5 DEF ApplyDrop, graph, drop, ahead, slots, thread
<1>12. CASE DropCollect
  BY <1>12 DEF Places, Job, DropCollect, CollectAt, Collect, Collectable, Latest, graph,
     drop, ahead, slots, thread, vars
<1>13. CASE Matmul
  BY <1>13, HookAssumption DEF Places, Layer, Matmul, graph, drop, ahead, slots, thread,
     vars
<1>14. CASE JoinWorker
  BY <1>14 DEF Places, JoinWorker, graph, drop, ahead, slots, thread, vars
<1>15. CASE Abort
  BY <1>15 DEF Places, Abort, graph, drop, ahead, slots, thread, vars
<1>16. CASE StopWorker
  BY <1>16 DEF Places, StopWorker, graph, drop, ahead, slots, thread, vars
<1>17. CASE Take
  BY <1>17 DEF Take, graph, drop, ahead, slots, thread, vars
<1>18. CASE Deliver
  BY <1>18 DEF Job, Deliver, graph, drop, ahead, slots, thread, vars
<1>19. CASE Unscored
  BY <1>19 DEF Unscored, graph, drop, ahead, slots, thread, vars
<1>20. CASE Leave
  BY <1>20 DEF Leave, graph, drop, ahead, slots, thread, vars
<1>21. CASE Closed
  BY <1>21 DEF Closed, vars, graph, drop, ahead, slots, thread
<1>22. CASE UNCHANGED vars
  BY <1>22 DEF vars, graph, drop, ahead, slots, thread
<1> QED
  BY <1>1, <1>2, <1>3, <1>4, <1>5, <1>6, <1>7, <1>8, <1>9, <1>10, <1>11, <1>12, <1>13,
     <1>14, <1>15, <1>16, <1>17, <1>18, <1>19, <1>20, <1>21, <1>22 DEF Next, Eval,
     WorkerStep

(***************************************************************************)
(* A token is routed by its own rankings.                                  *)
(***************************************************************************)
\* The layers whose top-k this graph has passed.
Passed(l) == l < layer \/ (l = layer /\ at \in Routed)

\* May a ranking become a routing?
Live == phase = 1 /\ ~tripped

\* What a job or a result says: it was asked for by no later graph, Depth layers
\* before its layer, of which the gate is known.
Named(x) ==
    /\ x.seq <= pred_seq /\ x.tok <= batch
    /\ x.seq > 0 => x.nl >= Depth /\ x.nl - Depth \in host /\ x.nl \in gates

\* Once this graph has passed the place where it would be asked for, the latest one
\* is this graph's.
Current(x) ==
    (Live /\ x.seq > 0 /\ x.seq = pred_seq /\ Passed(x.nl - Depth)) => x.tok = batch

ItemsInv == \A x \in {job, doing, result} : Named(x) /\ Current(x)

\* Nothing is taken, worked on or collected that was not asked for.
FlagsInv ==
    /\ pending => job.seq > 0
    /\ worker = "ranking" => doing.seq > 0
    /\ ready => result.seq > 0

\* So is the ranking kept for a layer.
PredInv ==
    \A t \in Layer :
        /\ pred[t] # 0 => t >= Depth /\ t - Depth \in host
        /\ (Live /\ t >= Depth /\ Passed(t - Depth)) => pred[t] \in {0, batch}

TokenInv == TypeOK /\ ItemsInv /\ FlagsInv /\ PredInv /\ CommitsOwnToken

\* The numbers are numbers.
LEMMA Numbers ==
  ASSUME TypeOK
  PROVE  /\ layer \in Nat /\ batch \in Nat /\ pred_seq \in Nat /\ Depth \in Nat \ {0}
         /\ Layer \subseteq Nat /\ gates \subseteq Layer /\ host \subseteq Layer
         /\ \A t \in Layer : pred[t] \in Nat
         /\ \A x \in {job, doing, result} : x.seq \in Nat /\ x.nl \in Layer /\ x.tok \in Nat
<1>1. Layer \subseteq Nat /\ Stamp \subseteq Nat /\ Depth \in Nat \ {0}
  BY HookAssumption DEF Layer, Stamp
<1>2. layer \in Nat /\ batch \in Nat /\ pred_seq \in Nat
  BY <1>1 DEF TypeOK
<1>3. gates \subseteq Layer /\ host \subseteq Layer
  BY HookAssumption DEF TypeOK, Layer
<1>4. \A t \in Layer : pred[t] \in Nat
  BY <1>1 DEF TypeOK
<1>5. \A x \in {job, doing, result} : x.seq \in Nat /\ x.nl \in Layer /\ x.tok \in Nat
  BY <1>1 DEF TypeOK, Job
<1> QED
  BY <1>1, <1>2, <1>3, <1>4, <1>5

\* The steps that begin no graph, commit no routing, and neither take a job nor
\* deliver a ranking.
Elsewhere ==
    \/ Ask \/ CloseDrop \/ CloseCollect \/ TopkCollect \/ TopkOffHost \/ Load \/ LoadCollect
    \/ PassChain \/ (\E gone \in SUBSET Slots : ApplyDrop(gone)) \/ DropCollect \/ Matmul
    \/ JoinWorker \/ Abort \/ StopWorker \/ Unscored \/ Leave \/ Closed \/ UNCHANGED vars

\* Every step is one of these, or one of the four.
LEMMA Steps ==
  [Next]_vars => \/ \E ph \in {0, 1}, one \in BOOLEAN, c \in Chains : BeginBatch(ph, one, c)
                 \/ \E trips \in BOOLEAN : SubmitCommit(trips)
                 \/ Take \/ Deliver \/ Elsewhere
  BY DEF Next, Eval, WorkerStep, Elsewhere

\* They leave the items and the graph as they are, and pass no layer.
LEMMA ElsewhereKeeps ==
  ASSUME TypeOK, Elsewhere
  PROVE  /\ UNCHANGED <<job, doing, result, pred_seq, pending>>
         /\ UNCHANGED <<batch, phase, single, host, tripped, due>>
         /\ gates \subseteq gates' /\ gates' \subseteq gates \union host /\ ids.by = ids'.by
         /\ at' \in Routed => at \in Routed /\ layer' = layer
         /\ \A l \in Nat : Passed(l)' => Passed(l)
<1> USE Numbers DEF Passed, Routed
<1>1. CASE Ask
  BY <1>1 DEF Ask, graph, ahead, slots, thread, vars
<1>2. CASE CloseDrop
  BY <1>2 DEF CloseDrop, graph, ahead, slots, thread, vars
<1>3. CASE CloseCollect
  BY <1>3 DEF CloseCollect, CollectAt, graph, ahead, slots, thread, vars
<1>4. CASE TopkCollect
  BY <1>4 DEF TopkCollect, CollectAt, graph, ahead, slots, thread, vars
<1>5. CASE TopkOffHost
  BY <1>5 DEF TopkOffHost, graph, ahead, slots, thread, vars
<1>6. CASE Load
  BY <1>6 DEF Load, graph, ahead, slots, thread, vars
<1>7. CASE LoadCollect
  BY <1>7 DEF LoadCollect, CollectAt, graph, ahead, slots, thread, vars
<1>8. CASE PassChain
  BY <1>8 DEF PassChain, graph, ahead, slots, thread, vars
<1>9. CASE \E gone \in SUBSET Slots : ApplyDrop(gone)
  BY <1>9 DEF ApplyDrop, Repointed, graph, ahead, slots, thread, vars
<1>10. CASE DropCollect
  BY <1>10 DEF DropCollect, CollectAt, graph, ahead, slots, thread, vars
<1>11. CASE Matmul
  BY <1>11 DEF Matmul, graph, ahead, slots, thread, vars
<1>12. CASE JoinWorker
  BY <1>12 DEF JoinWorker, graph, ahead, slots, thread, vars
<1>13. CASE Abort
  BY <1>13 DEF Abort, graph, ahead, slots, thread, vars
<1>14. CASE StopWorker
  BY <1>14 DEF StopWorker, graph, ahead, slots, thread, vars
<1>15. CASE Unscored
  BY <1>15 DEF Unscored, graph, ahead, slots, thread, vars
<1>16. CASE Leave
  BY <1>16 DEF Leave, graph, ahead, slots, thread, vars
<1>17. CASE Closed
  BY <1>17 DEF Closed, vars, graph, ahead, slots, thread
<1>18. CASE UNCHANGED vars
  BY <1>18 DEF vars, graph, ahead, slots, thread
<1> QED
  BY <1>1, <1>2, <1>3, <1>4, <1>5, <1>6, <1>7, <1>8, <1>9, <1>10, <1>11, <1>12, <1>13,
     <1>14, <1>15, <1>16, <1>17, <1>18 DEF Elsewhere

\* They start no ranking and deliver none; a result is collected or left.
LEMMA ElsewhereWorks ==
  ASSUME Elsewhere
  PROVE  /\ (ready' => ready) /\ (worker' = "ranking" => worker = "ranking")
         /\ (\E il : Collect(il)) \/ UNCHANGED <<pred, ready>>
<1>1. CASE CloseCollect \/ TopkCollect \/ LoadCollect \/ DropCollect
  BY <1>1 DEF CloseCollect, TopkCollect, LoadCollect, DropCollect, CollectAt, Collect, thread
<1>2. CASE Ask \/ CloseDrop \/ TopkOffHost \/ Load \/ PassChain \/ Matmul \/ JoinWorker
  BY <1>2 DEF Ask, CloseDrop, TopkOffHost, Load, PassChain, Matmul, JoinWorker, ahead, slots, thread
<1>3. CASE (\E gone \in SUBSET Slots : ApplyDrop(gone)) \/ Abort \/ StopWorker
  BY <1>3 DEF ApplyDrop, Abort, StopWorker, ahead, slots, thread
<1>4. CASE Unscored \/ Leave \/ Closed \/ UNCHANGED vars
  BY <1>4 DEF Unscored, Leave, Closed, vars, ahead, slots, thread
<1> QED
  BY <1>1, <1>2, <1>3, <1>4 DEF Elsewhere

\* What the eval thread does elsewhere leaves the items as they were.
LEMMA ItemsKept ==
  ASSUME TokenInv, UNCHANGED <<job, doing, result, pred_seq, batch, host, phase, tripped>>,
         gates \subseteq gates', \A l \in Nat : Passed(l)' => Passed(l)
  PROVE  ItemsInv'
<1> USE Numbers DEF TokenInv
<1> SUFFICES ASSUME NEW x \in {job, doing, result} PROVE Named(x)' /\ Current(x)'
  BY DEF ItemsInv
<1>1. Named(x) /\ Current(x)
  BY DEF ItemsInv
<1>2. Named(x)'
  BY <1>1 DEF Named
<1>3. x.seq > 0 => x.nl - Depth \in Nat
  BY <1>1 DEF Named
<1> QED
  BY <1>1, <1>2, <1>3 DEF Current, Live

\* A new graph has passed no layer.
LEMMA NewGraph ==
  ASSUME TypeOK, NEW ph, NEW one, NEW c, BeginBatch(ph, one, c)
  PROVE  /\ batch' = batch + 1 /\ \A l \in Nat : ~Passed(l)'
         /\ UNCHANGED <<job, doing, result, pred_seq, pending, host, gates, pred, tripped>>
         /\ UNCHANGED <<ready, worker>> /\ at' \notin Routed
  BY Numbers DEF BeginBatch, Passed, Routed, graph, slots, thread

\* The commit at a top-k passes its layer, and no other; it may leave a job.
LEMMA CommitPasses ==
  ASSUME TypeOK, NEW trips \in BOOLEAN, SubmitCommit(trips), NEW l \in Nat
  PROVE  Passed(l)' <=> (Passed(l) \/ l = layer)
  BY Numbers DEF SubmitCommit, OpenDrop, Passed, Routed, graph

\* A commit that does not submit leaves the worker its items.
LEMMA CommitLeaves ==
  ASSUME TypeOK, NEW trips \in BOOLEAN, SubmitCommit(trips)
  PROVE  /\ at = "submit" /\ UNCHANGED <<layer, batch, phase, single, host, gates, due>>
         /\ UNCHANGED <<doing, result, ready, worker>>
         /\ Live' => Live /\ ~trips
         /\ \/ UNCHANGED <<job, pred_seq, pending>>
               /\ (Live' /\ layer \in host => Target \notin gates)
            \/ /\ Live /\ layer \in host /\ Target \in gates
               /\ job' = [seq |-> pred_seq + 1, nl |-> layer + Depth, tok |-> batch]
               /\ pred_seq' = pred_seq + 1 /\ pending'
<1>1. /\ at = "submit" /\ UNCHANGED <<layer, batch, phase, single, host, gates, due>>
      /\ UNCHANGED <<doing, result, ready, worker>>
  BY DEF SubmitCommit, graph, thread
<1>2. Live' => Live /\ ~trips
  BY <1>1 DEF SubmitCommit, Live, Armed
<1>3. CASE Armed /\ ~trips /\ Target \in gates
  BY <1>1, <1>2, <1>3 DEF SubmitCommit, SubmitJob, Armed, Live, Target
<1>4. CASE Armed /\ ~(~trips /\ Target \in gates)
  <2>1. UNCHANGED <<job, pred_seq>>
    BY <1>4 DEF SubmitCommit, SubmitJob
  <2>2. pending' = pending
    BY <1>4 DEF SubmitCommit, SubmitJob, TypeOK
  <2>3. Live' /\ layer \in host => Target \notin gates
    BY <1>2, <1>4
  <2> QED
    BY <1>1, <1>2, <2>1, <2>2, <2>3
<1>5. CASE ~Armed
  BY <1>1, <1>2, <1>5 DEF SubmitCommit, Armed, Live
<1> QED
  BY <1>1, <1>2, <1>3, <1>4, <1>5

\* The items say what they should after every step.
LEMMA ItemsStep == ASSUME TokenInv, [Next]_vars PROVE ItemsInv'
<1> USE Numbers DEF TokenInv
<1>1. ASSUME NEW x \in {job, doing, result} PROVE Named(x) /\ Current(x)
  BY DEF ItemsInv
<1>2. CASE \E ph \in {0, 1}, one \in BOOLEAN, c \in Chains : BeginBatch(ph, one, c)
  <2>1. /\ batch' = batch + 1 /\ \A l \in Nat : ~Passed(l)'
        /\ UNCHANGED <<job, doing, result, pred_seq, host, gates>>
    BY <1>2, NewGraph
  <2>2. ASSUME NEW x \in {job, doing, result} PROVE Named(x)' /\ Current(x)'
    BY <1>1, <2>1 DEF Named, Current
  <2> QED
    BY <2>1, <2>2 DEF ItemsInv
<1>3. CASE \E trips \in BOOLEAN : SubmitCommit(trips)
  <2>1. PICK trips \in BOOLEAN : SubmitCommit(trips)
    BY <1>3
  <2>2. UNCHANGED <<layer, batch, host, gates, doing, result>> /\ (Live' => Live)
    BY <2>1, CommitLeaves
  <2>3. \A l \in Nat : Passed(l)' <=> (Passed(l) \/ l = layer)
    BY <2>1, CommitPasses
  <2>4. CASE UNCHANGED <<job, pred_seq, pending>> /\ (Live' /\ layer \in host => Target \notin gates)
    <3>1. ASSUME NEW x \in {job, doing, result} PROVE Named(x)' /\ Current(x)'
      BY <1>1, <2>2, <2>3, <2>4 DEF Named, Current, Target
    <3> QED
      BY <2>2, <2>4, <3>1 DEF ItemsInv
  <2>5. CASE /\ Live /\ layer \in host /\ Target \in gates
             /\ job' = [seq |-> pred_seq + 1, nl |-> layer + Depth, tok |-> batch]
             /\ pred_seq' = pred_seq + 1 /\ pending'
    <3>1. Named(job)' /\ Current(job)'
      BY <2>2, <2>5 DEF Named, Current, Target
    <3>2. ASSUME NEW x \in {doing, result} PROVE Named(x)' /\ Current(x)'
      BY <1>1, <2>2, <2>5 DEF Named, Current
    <3> QED
      BY <2>2, <3>1, <3>2 DEF ItemsInv
  <2> QED
    BY <2>1, <2>4, <2>5, CommitLeaves
<1>4. CASE Take \/ Deliver
  <2>1. /\ UNCHANGED <<layer, at, batch, host, gates, job, pred_seq, phase, tripped>>
        /\ doing' \in {job, doing} /\ result' \in {doing, result}
    BY <1>4 DEF Take, Deliver, graph, ahead
  <2>2. ASSUME NEW x \in {job, doing, result} PROVE Named(x)' /\ Current(x)'
    BY <1>1, <2>1 DEF Named, Current, Passed, Live
  <2> QED
    BY <2>1, <2>2 DEF ItemsInv
<1>5. CASE Elsewhere
  BY <1>5, ElsewhereKeeps, ItemsKept
<1> QED
  BY <1>2, <1>3, <1>4, <1>5, Steps

\* Nothing is taken, worked on or collected that was not asked for.
LEMMA FlagsStep == ASSUME TokenInv, [Next]_vars PROVE FlagsInv'
<1> USE Numbers DEF TokenInv
<1>1. CASE \E ph \in {0, 1}, one \in BOOLEAN, c \in Chains : BeginBatch(ph, one, c)
  BY <1>1, NewGraph DEF FlagsInv
<1>2. CASE \E trips \in BOOLEAN : SubmitCommit(trips)
  <2>1. PICK trips \in BOOLEAN : SubmitCommit(trips)
    BY <1>2
  <2> QED
    BY <2>1, CommitLeaves DEF FlagsInv
<1>3. CASE Take \/ Deliver
  BY <1>3 DEF Take, Deliver, FlagsInv
<1>4. CASE Elsewhere
  <2>1. UNCHANGED <<job, doing, result, pending>>
    BY <1>4, ElsewhereKeeps
  <2>2. (ready' => ready) /\ (worker' = "ranking" => worker = "ranking")
    BY <1>4, ElsewhereWorks
  <2> QED
    BY <2>1, <2>2 DEF FlagsInv
<1> QED
  BY <1>1, <1>2, <1>3, <1>4, Steps

\* A collection keeps a ranking for the layer it names, and changes no other.
LEMMA CollectKeeps ==
  ASSUME TypeOK, NEW il, Collect(il)
  PROVE  \/ UNCHANGED pred
         \/ /\ Live /\ ready /\ result.seq = pred_seq
            /\ pred' = [pred EXCEPT ![result.nl] = result.tok]
  BY DEF Collect, Collectable, Latest, Live

\* The rankings kept say what they should after every step.
LEMMA PredStep == ASSUME TokenInv, [Next]_vars PROVE PredInv'
<1> USE Numbers DEF TokenInv
<1>1. CASE \E ph \in {0, 1}, one \in BOOLEAN, c \in Chains : BeginBatch(ph, one, c)
  <2>1. (\A l \in Nat : ~Passed(l)') /\ UNCHANGED <<pred, host>>
    BY <1>1, NewGraph
  <2> QED
    BY <2>1 DEF PredInv
<1>2. CASE \E trips \in BOOLEAN : SubmitCommit(trips)
  <2>1. PICK trips \in BOOLEAN : SubmitCommit(trips)
    BY <1>2
  <2>2. UNCHANGED <<layer, batch, host>> /\ (Live' => Live)
    BY <2>1, CommitLeaves
  <2>3. \A l \in Nat : Passed(l)' <=> (Passed(l) \/ l = layer)
    BY <2>1, CommitPasses
  <2>4. pred' \in [Layer -> Nat] /\ \A t \in Layer : pred'[t] \in {0, pred[t]}
    BY <2>1 DEF SubmitCommit, Invalidated, TypeOK, Stamp
  <2>5. Live' /\ layer \in host /\ Target \in Layer => pred'[Target] = 0
    BY <2>1, <2>2 DEF SubmitCommit, Invalidated, TypeOK, Live, Armed, Target
  <2> QED
    BY <2>2, <2>3, <2>4, <2>5 DEF PredInv, Target
<1>3. CASE Take \/ Deliver
  BY <1>3 DEF Take, Deliver, PredInv, Passed, Live, graph, ahead
<1>4. CASE Elsewhere
  <2>1. /\ UNCHANGED <<batch, phase, host, tripped>>
        /\ \A l \in Nat : Passed(l)' => Passed(l)
    BY <1>4, ElsewhereKeeps
  <2>2. CASE \E il : Collect(il)
    <3>1. PICK il : Collect(il)
      BY <2>2
    <3>2. CASE UNCHANGED pred
      BY <2>1, <3>2 DEF PredInv, Live
    <3>3. CASE /\ Live /\ ready /\ result.seq = pred_seq
               /\ pred' = [pred EXCEPT ![result.nl] = result.tok]
      <4>1. result.seq > 0 /\ Named(result) /\ Current(result)
        BY <3>3 DEF FlagsInv, ItemsInv
      <4>2. pred'[result.nl] = result.tok /\ \A t \in Layer \ {result.nl} : pred'[t] = pred[t]
        BY <3>3 DEF TypeOK
      <4> QED
        BY <2>1, <3>3, <4>1, <4>2 DEF PredInv, Named, Current, Live
    <3> QED
      BY <3>1, <3>2, <3>3, CollectKeeps
  <2>3. CASE UNCHANGED pred
    BY <2>1, <2>3 DEF PredInv, Live
  <2>4. (\E il : Collect(il)) \/ UNCHANGED pred
    BY <1>4, ElsewhereWorks
  <2> QED
    BY <2>2, <2>3, <2>4
<1> QED
  BY <1>1, <1>2, <1>3, <1>4, Steps

\* A routing that is committed is this token's.
LEMMA CommitStep == ASSUME TokenInv, [Next]_vars PROVE CommitsOwnToken'
<1> USE Numbers DEF TokenInv
<1>1. CASE \E ph \in {0, 1}, one \in BOOLEAN, c \in Chains : BeginBatch(ph, one, c)
  BY <1>1, NewGraph DEF CommitsOwnToken, Routed
<1>2. CASE \E trips \in BOOLEAN : SubmitCommit(trips)
  <2>1. PICK trips \in BOOLEAN : SubmitCommit(trips)
    BY <1>2
  <2>2. UNCHANGED batch /\ at = "submit"
    BY <2>1, CommitLeaves
  <2>3. ids'.by \in {0, Committed(pred)} /\ (ids'.by # 0 => Armed)
    BY <2>1 DEF SubmitCommit, Own
  <2>4. Armed => Committed(pred) \in {0, batch}
    <3>1. SUFFICES ASSUME Armed, layer >= Depth PROVE pred[layer] \in {0, batch}
      BY DEF Committed
    <3>2. Passed(layer - Depth)
      BY <3>1 DEF Passed
    <3> QED
      BY <3>1, <3>2 DEF PredInv, Live, Armed, TypeOK
  <2> QED
    BY <2>2, <2>3, <2>4 DEF CommitsOwnToken
<1>3. CASE Take \/ Deliver
  BY <1>3 DEF Take, Deliver, CommitsOwnToken, Routed, graph
<1>4. CASE Elsewhere
  <2>1. UNCHANGED batch /\ ids'.by = ids.by /\ \A l \in Nat : Passed(l)' => Passed(l)
    BY <1>4, ElsewhereKeeps
  <2>2. at' \in Routed => at \in Routed
    BY <1>4, ElsewhereKeeps
  <2> QED
    BY <2>1, <2>2 DEF CommitsOwnToken
<1> QED
  BY <1>1, <1>2, <1>3, <1>4, Steps

\* The invariant of a token's routing holds at first, and after every step.
LEMMA InitToken == ASSUME Init PROVE TokenInv
<1>1. TypeOK /\ CommitsOwnToken /\ FlagsInv
  BY InitType DEF Init, CommitsOwnToken, Routed, FlagsInv
<1>2. ItemsInv
  BY HookAssumption DEF Init, ItemsInv, Named, Current, NoJob
<1>3. PredInv
  BY DEF Init, PredInv
<1> QED
  BY <1>1, <1>2, <1>3 DEF TokenInv

\* ... and after every step.
LEMMA TokenStep == ASSUME TokenInv, [Next]_vars PROVE TokenInv'
<1>1. TypeOK'
  BY StepType DEF TokenInv
<1> QED
  BY <1>1, ItemsStep, FlagsStep, PredStep, CommitStep DEF TokenInv

\* A token is never routed by a ranking that was made from another token's hidden
\* state (RouterHook::route_ahead_submit, route_ahead_collect, apply_route_ahead).
THEOREM OwnTokenCommitted == Spec => []CommitsOwnToken
<1>1. Init => TokenInv
  BY InitToken
<1>2. TokenInv /\ [Next]_vars => TokenInv'
  BY TokenStep
<1>3. TokenInv => CommitsOwnToken
  BY DEF TokenInv
<1> QED
  BY <1>1, <1>2, <1>3, PTL DEF Spec

\* The variables of the hook keep their types.
THEOREM TypeCorrect == Spec => []TypeOK
  BY InitType, StepType, PTL DEF Spec

(***************************************************************************)
(* A ranking that is in time is committed.                                 *)
(***************************************************************************)
\* A graph is under way.
Running == at \notin {"between", "joining", "closed"}

\* Of this graph, an item that is not the latest was followed by another's submission.
Later(x) ==
    (Running /\ x.seq > 0 /\ x.tok = batch) =>
        /\ phase = 1 /\ Passed(x.nl - Depth)
        /\ x.seq < pred_seq => Passed(x.nl - Depth + 1)

LaterInv == \A x \in {job, doing, result} : Later(x)

\* The worker takes the latest job, and what it delivers is newer than what is there.
OrderInv ==
    /\ job.seq = pred_seq
    /\ pending => doing.seq < pred_seq /\ result.seq < pred_seq
    /\ worker = "ranking" => result.seq < doing.seq

\* Is a collection to come before the next submission?
Uncollected(nl) ==
    \/ layer = nl - Depth /\ at \in Routed
    \/ /\ layer = nl - Depth + 1
       /\ \/ at \in {"ask", "topk", "closed_drop", "collect"}
          \/ layer \notin host /\ at \in {"submit", "load", "after"}

Waiting(nl) ==
    /\ Uncollected(nl)
    /\ ready /\ result.nl = nl /\ result.seq = pred_seq /\ result.tok = batch

\* A layer that is due has its ranking, or one that will be collected in time.
Kept(nl) == Live /\ ~Passed(nl) => pred[nl] = batch \/ Waiting(nl)

Known(nl) == nl \in host /\ nl >= Depth /\ phase = 1 /\ Passed(nl - Depth)

DueInv == gates \subseteq host /\ (Running => \A nl \in due : Known(nl) /\ Kept(nl))

TimeInv == TokenInv /\ LaterInv /\ OrderInv /\ DueInv /\ PunctualIsCommitted

\* While a graph goes on it loses no layer it has passed.
LEMMA ElsewhereStays ==
  ASSUME TypeOK, Elsewhere, Running', NEW l \in Nat
  PROVE  Running /\ (Passed(l) <=> Passed(l)')
<1> USE Numbers DEF Passed, Routed, Running
<1>1. CASE CloseCollect \/ TopkCollect \/ LoadCollect \/ DropCollect
  BY <1>1 DEF CloseCollect, TopkCollect, LoadCollect, DropCollect, CollectAt
<1>2. CASE Ask \/ CloseDrop \/ TopkOffHost \/ Load \/ PassChain \/ Matmul \/ JoinWorker
  BY <1>2 DEF Ask, CloseDrop, TopkOffHost, Load, PassChain, Matmul, JoinWorker
<1>3. CASE (\E gone \in SUBSET Slots : ApplyDrop(gone)) \/ Abort \/ StopWorker
  BY <1>3 DEF ApplyDrop, Abort, StopWorker
<1>4. CASE Unscored \/ Leave \/ Closed \/ UNCHANGED vars
  BY <1>4 DEF Unscored, Leave, Closed, vars
<1> QED
  BY <1>1, <1>2, <1>3, <1>4 DEF Elsewhere

\* An item of this graph that is not the latest was followed by another's submission.
LEMMA LaterStep == ASSUME TokenInv, LaterInv, [Next]_vars PROVE LaterInv'
<1> USE Numbers DEF TokenInv
<1>1. ASSUME NEW x \in {job, doing, result} PROVE Named(x) /\ Later(x)
  BY DEF ItemsInv, LaterInv
<1>2. CASE \E ph \in {0, 1}, one \in BOOLEAN, c \in Chains : BeginBatch(ph, one, c)
  <2>1. batch' = batch + 1 /\ UNCHANGED <<job, doing, result>>
    BY <1>2, NewGraph
  <2>2. ASSUME NEW x \in {job, doing, result} PROVE Later(x)'
    BY <1>1, <2>1 DEF Named, Later
  <2> QED
    BY <2>1, <2>2 DEF LaterInv
<1>3. CASE \E trips \in BOOLEAN : SubmitCommit(trips)
  <2>1. PICK trips \in BOOLEAN : SubmitCommit(trips)
    BY <1>3
  <2>2. UNCHANGED <<layer, batch, phase, doing, result>> /\ at = "submit" /\ Running
    BY <2>1, CommitLeaves DEF Running
  <2>3. \A l \in Nat : Passed(l)' <=> (Passed(l) \/ l = layer)
    BY <2>1, CommitPasses
  <2>4. CASE UNCHANGED <<job, pred_seq, pending>>
    <3>1. ASSUME NEW x \in {job, doing, result} PROVE Later(x)'
      BY <1>1, <2>2, <2>3, <2>4 DEF Named, Later
    <3> QED
      BY <2>2, <2>4, <3>1 DEF LaterInv
  <2>5. CASE /\ Live /\ job' = [seq |-> pred_seq + 1, nl |-> layer + Depth, tok |-> batch]
             /\ pred_seq' = pred_seq + 1
    <3>1. Later(job)'
      BY <2>2, <2>3, <2>5 DEF Later, Live
    <3>2. ASSUME NEW x \in {doing, result} PROVE Later(x)'
      <4>1. SUFFICES ASSUME x.seq > 0, x.tok = batch PROVE Passed(x.nl - Depth)' /\ Passed(x.nl - Depth + 1)'
        BY <2>2, <2>5 DEF Later, Live
      <4>2. x.nl - Depth \in Nat /\ Passed(x.nl - Depth)
        BY <1>1, <2>2, <4>1 DEF Named, Later
      <4>3. x.nl - Depth < layer
        BY <2>2, <4>2 DEF Passed, Routed
      <4> QED
        BY <2>2, <2>3, <4>2, <4>3 DEF Passed
    <3> QED
      BY <2>2, <3>1, <3>2 DEF LaterInv
  <2> QED
    BY <2>1, <2>4, <2>5, CommitLeaves
<1>4. CASE Take \/ Deliver
  <2>1. /\ UNCHANGED <<layer, at, batch, job, pred_seq, phase>>
        /\ doing' \in {job, doing} /\ result' \in {doing, result}
    BY <1>4 DEF Take, Deliver, graph
  <2>2. ASSUME NEW x \in {job, doing, result} PROVE Later(x)'
    BY <1>1, <2>1 DEF Later, Passed, Running
  <2> QED
    BY <2>1, <2>2 DEF LaterInv
<1>5. CASE Elsewhere
  <2>1. UNCHANGED <<job, doing, result, pred_seq, batch, phase>>
    BY <1>5, ElsewhereKeeps
  <2>2. ASSUME NEW x \in {job, doing, result} PROVE Later(x)'
    <3>1. SUFFICES ASSUME Running', x.seq > 0, x.tok = batch
                   PROVE  /\ phase = 1 /\ Passed(x.nl - Depth)'
                          /\ x.seq < pred_seq => Passed(x.nl - Depth + 1)'
      BY <2>1 DEF Later
    <3>2. x.nl - Depth \in Nat /\ x.nl - Depth + 1 \in Nat
      BY <1>1, <3>1 DEF Named
    <3> QED
      BY <1>1, <1>5, <3>1, <3>2, ElsewhereStays DEF Later
  <2> QED
    BY <2>1, <2>2 DEF LaterInv
<1> QED
  BY <1>2, <1>3, <1>4, <1>5, Steps

\* Job, ranking and result stay in the order they were submitted in.
LEMMA OrderStep == ASSUME TokenInv, OrderInv, [Next]_vars PROVE OrderInv'
<1> USE Numbers DEF TokenInv
<1>1. CASE \E ph \in {0, 1}, one \in BOOLEAN, c \in Chains : BeginBatch(ph, one, c)
  BY <1>1, NewGraph DEF OrderInv
<1>2. CASE \E trips \in BOOLEAN : SubmitCommit(trips)
  <2>1. PICK trips \in BOOLEAN : SubmitCommit(trips)
    BY <1>2
  <2>2. doing.seq <= pred_seq /\ result.seq <= pred_seq
    BY DEF ItemsInv, Named
  <2> QED
    BY <2>1, <2>2, CommitLeaves DEF OrderInv
<1>3. CASE Take \/ Deliver
  BY <1>3 DEF Take, Deliver, OrderInv
<1>4. CASE Elsewhere
  <2>1. UNCHANGED <<job, doing, result, pred_seq, pending>>
    BY <1>4, ElsewhereKeeps
  <2>2. worker' = "ranking" => worker = "ranking"
    BY <1>4, ElsewhereWorks
  <2> QED
    BY <2>1, <2>2 DEF OrderInv
<1> QED
  BY <1>1, <1>2, <1>3, <1>4, Steps

\* A ranking that waits goes on waiting until it is collected.
LEMMA WaitGoesOn ==
  ASSUME TypeOK, Elsewhere, Running', NEW nl \in Layer, nl >= Depth, Uncollected(nl)
  PROVE  Uncollected(nl)' \/ \E il : Collect(il)
<1> USE Numbers DEF Uncollected, Routed, Running
<1>1. CASE CloseCollect \/ TopkCollect \/ LoadCollect \/ DropCollect
  BY <1>1 DEF CloseCollect, TopkCollect, LoadCollect, DropCollect, CollectAt
<1>2. CASE Ask \/ CloseDrop
  BY <1>2 DEF Ask, CloseDrop
<1>3. CASE TopkOffHost \/ Load \/ PassChain
  BY <1>3 DEF TopkOffHost, Load, PassChain
<1>4. CASE Matmul \/ JoinWorker \/ Abort \/ StopWorker
  BY <1>4 DEF Matmul, JoinWorker, Abort, StopWorker
<1>5. CASE \E gone \in SUBSET Slots : ApplyDrop(gone)
  BY <1>5 DEF ApplyDrop
<1>6. CASE Unscored \/ Leave \/ Closed \/ UNCHANGED vars
  BY <1>6 DEF Unscored, Leave, Closed, vars
<1> QED
  BY <1>1, <1>2, <1>3, <1>4, <1>5, <1>6 DEF Elsewhere

\* What a commit does to the ranking of another layer, and off the host.
LEMMA CommitSpares ==
  ASSUME TypeOK, NEW trips \in BOOLEAN, SubmitCommit(trips)
  PROVE  /\ \A t \in Layer \ {layer, Target} : pred'[t] = pred[t]
         /\ layer \notin host => UNCHANGED <<pred, pred_seq, tripped>> /\ at' = "load"
<1>1. \A t \in Layer \ {layer, Target} : pred'[t] = pred[t]
  BY DEF SubmitCommit, Invalidated, TypeOK
<1>2. layer \notin host => UNCHANGED <<pred, pred_seq, tripped>> /\ at' = "load"
  BY DEF SubmitCommit, OpenDrop, Armed
<1> QED
  BY <1>1, <1>2

\* A ranking delivered in time is the latest, and a collection is to come for it.
LEMMA InTime ==
  ASSUME TimeInv, Deliver, Running, doing.tok = batch, Punctual(doing.nl)
  PROVE  /\ Known(doing.nl) /\ Uncollected(doing.nl) /\ doing.seq = pred_seq
         /\ ~(at \in Routed /\ doing.nl = layer)
<1> USE Numbers DEF TimeInv, TokenInv
<1>1. doing.seq > 0
  BY DEF Deliver, FlagsInv
<1>2. Named(doing) /\ Later(doing)
  BY DEF ItemsInv, LaterInv
<1>3. doing.nl \in host /\ doing.nl >= Depth
  BY <1>1, <1>2 DEF Named, DueInv
<1>4. phase = 1 /\ Passed(doing.nl - Depth)
  BY <1>1, <1>2 DEF Later
<1>5. Uncollected(doing.nl)
  BY <1>3, <1>4 DEF Uncollected, Punctual, Passed, Routed
<1>6. ~Passed(doing.nl - Depth + 1)
  BY <1>3 DEF Punctual, Passed, Routed
<1>7. doing.seq = pred_seq
  BY <1>1, <1>2, <1>6 DEF Named, Later
<1>8. ~(at \in Routed /\ doing.nl = layer)
  BY <1>3 DEF Punctual, Routed
<1> QED
  BY <1>3, <1>4, <1>5, <1>7, <1>8 DEF Known

\* What was delivered in time is kept or waits, after every step.
LEMMA DueStep == ASSUME TimeInv, [Next]_vars PROVE DueInv'
<1> USE Numbers DEF TimeInv, TokenInv
<1>1. CASE \E ph \in {0, 1}, one \in BOOLEAN, c \in Chains : BeginBatch(ph, one, c)
  BY <1>1 DEF BeginBatch, DueInv
<1>2. CASE \E trips \in BOOLEAN : SubmitCommit(trips)
  <2>1. PICK trips \in BOOLEAN : SubmitCommit(trips)
    BY <1>2
  <2>2. /\ UNCHANGED <<layer, batch, phase, host, gates, due, result, ready>>
        /\ at = "submit" /\ (Live' => Live) /\ Running
    BY <2>1, CommitLeaves DEF Running
  <2>3. ASSUME NEW nl \in due PROVE Known(nl)' /\ Kept(nl)'
    <3>1. Known(nl) /\ Kept(nl) /\ nl \in Layer
      BY <2>2 DEF DueInv, TypeOK
    <3>2. Known(nl)'
      BY <2>1, <2>2, <3>1, CommitPasses DEF Known
    <3>3. SUFFICES ASSUME Live', ~Passed(nl)' PROVE pred'[nl] = batch \/ Waiting(nl)'
      BY <2>2, <3>2 DEF Kept
    <3>4. nl # layer /\ ~Passed(nl)
      BY <2>1, <3>1, <3>3, CommitPasses
    <3>5. nl - Depth < layer
      BY <2>2, <3>1 DEF Known, Passed, Routed
    <3>6. pred'[nl] = pred[nl]
      BY <2>1, <3>1, <3>4, <3>5, CommitSpares DEF Target
    <3>7. CASE Waiting(nl)
      <4>1. layer \notin host /\ layer = nl - Depth + 1
        BY <2>2, <3>5, <3>7 DEF Waiting, Uncollected
      <4> QED
        BY <2>1, <2>2, <3>7, <4>1, CommitSpares DEF Waiting, Uncollected
    <3> QED
      BY <2>2, <3>1, <3>3, <3>4, <3>6, <3>7 DEF Kept
  <2> QED
    BY <2>2, <2>3 DEF DueInv
<1>3. CASE Take
  <2>1. /\ UNCHANGED <<at, layer, batch, phase, tripped, host, gates>>
        /\ UNCHANGED <<due, pred, ready, result, pred_seq>>
    BY <1>3 DEF Take, graph, ahead
  <2> QED
    BY <2>1 DEF DueInv, Known, Kept, Waiting, Uncollected, Passed, Live, Running
<1>4. CASE Deliver
  <2>1. /\ UNCHANGED <<at, layer, batch, phase, tripped, host, gates, pred, pred_seq>>
        /\ ready' /\ result' = doing /\ result.seq < doing.seq
    BY <1>4 DEF Deliver, graph, OrderInv
  <2>2. ASSUME Running, NEW nl \in due PROVE Known(nl)' /\ Kept(nl)'
    <3>1. Known(nl) /\ Kept(nl)
      BY <2>2 DEF DueInv
    <3>2. ~Waiting(nl)
      BY <2>1 DEF Waiting, ItemsInv, Named
    <3> QED
      BY <2>1, <3>1, <3>2 DEF Known, Kept, Passed, Live
  <2>3. ASSUME Running, NEW nl, nl = doing.nl, doing.tok = batch, Punctual(doing.nl)
        PROVE  Known(nl)' /\ Kept(nl)'
    <3>1. Known(nl) /\ Uncollected(nl) /\ doing.seq = pred_seq
      BY <1>4, <2>3, InTime
    <3> QED
      BY <2>1, <2>3, <3>1 DEF Known, Kept, Waiting, Uncollected, Passed
  <2>4. due' = due \/ (due' = due \union {doing.nl} /\ doing.tok = batch /\ Punctual(doing.nl))
    BY <1>4 DEF Deliver
  <2>5. Running' => Running
    BY <2>1 DEF Running
  <2>6. Running' => \A nl \in due' : Known(nl)' /\ Kept(nl)'
    BY <2>2, <2>3, <2>4, <2>5
  <2> QED
    BY <2>1, <2>6 DEF DueInv
<1>5. CASE Elsewhere
  <2>1. /\ UNCHANGED <<result, pred_seq, batch, phase, host, tripped, due>>
        /\ gates' \subseteq gates \union host
    BY <1>5, ElsewhereKeeps
  <2>2. ASSUME Running', NEW nl \in due PROVE Known(nl)' /\ Kept(nl)'
    <3>1. Running /\ Known(nl) /\ Kept(nl) /\ nl \in Layer /\ nl >= Depth
      BY <1>5, <2>2, ElsewhereStays DEF DueInv, TypeOK, Known
    <3>2. (Passed(nl) <=> Passed(nl)') /\ (Passed(nl - Depth) <=> Passed(nl - Depth)')
      BY <1>5, <2>2, <3>1, ElsewhereStays
    <3>3. Known(nl)'
      BY <2>1, <3>1, <3>2 DEF Known
    <3>4. SUFFICES ASSUME Live, ~Passed(nl) PROVE pred'[nl] = batch \/ Waiting(nl)'
      BY <2>1, <3>2, <3>3 DEF Kept, Live
    <3>5. CASE \E il : Collect(il)
      <4>1. CASE Waiting(nl)
        BY <3>4, <3>5, <4>1 DEF Waiting, Collect, Collectable, Latest, Live, TypeOK
      <4>2. CASE pred[nl] = batch
        <5>1. CASE UNCHANGED pred
          BY <4>2, <5>1
        <5>2. CASE /\ ready /\ result.seq = pred_seq
                   /\ pred' = [pred EXCEPT ![result.nl] = result.tok]
          <6>1. result.nl = nl => result.tok = batch
            BY <3>1, <3>4, <5>2 DEF ItemsInv, Current, FlagsInv, Known
          <6> QED
            BY <4>2, <5>2, <6>1 DEF TypeOK
        <5> QED
          BY <3>5, <5>1, <5>2, CollectKeeps
      <4> QED
        BY <3>1, <3>4, <4>1, <4>2 DEF Kept
    <3>6. CASE ~\E il : Collect(il)
      <4>1. UNCHANGED <<pred, ready>>
        BY <1>5, <3>6, ElsewhereWorks
      <4>2. Uncollected(nl) => Uncollected(nl)'
        BY <1>5, <2>2, <3>1, <3>6, WaitGoesOn
      <4> QED
        BY <2>1, <3>1, <3>4, <4>1, <4>2 DEF Kept, Waiting
    <3> QED
      BY <3>5, <3>6
  <2> QED
    BY <2>1, <2>2 DEF DueInv
<1> QED
  BY <1>1, <1>2, <1>3, <1>4, <1>5, Steps

\* A ranking that was delivered in time is committed at its layer.
LEMMA PunctualStep == ASSUME TimeInv, [Next]_vars PROVE PunctualIsCommitted'
<1> USE Numbers DEF TimeInv, TokenInv
<1>1. CASE \E ph \in {0, 1}, one \in BOOLEAN, c \in Chains : BeginBatch(ph, one, c)
  BY <1>1, NewGraph DEF PunctualIsCommitted
<1>2. CASE \E trips \in BOOLEAN : SubmitCommit(trips)
  <2>1. PICK trips \in BOOLEAN : SubmitCommit(trips)
    BY <1>2
  <2>2. UNCHANGED <<layer, batch, phase, single, host, due>> /\ at = "submit" /\ Running
    BY <2>1, CommitLeaves DEF Running
  <2>3. SUFFICES ASSUME layer \in due, single, ~tripped' PROVE ids'.by = batch
    BY <2>2 DEF PunctualIsCommitted
  <2>4. Known(layer) /\ Kept(layer)
    BY <2>2, <2>3 DEF DueInv
  <2>5. Armed /\ ~trips
    BY <2>1, <2>3, <2>4 DEF SubmitCommit, Armed, Known
  <2>6. ~Passed(layer) /\ ~Waiting(layer)
    BY <2>2, <2>4 DEF Passed, Waiting, Uncollected, Known, Routed
  <2>7. pred[layer] = batch
    BY <2>4, <2>5, <2>6 DEF Kept, Live, Armed
  <2> QED
    BY <2>1, <2>3, <2>4, <2>5, <2>7 DEF SubmitCommit, Committed, Known, Own
<1>3. CASE Take
  <2>1. UNCHANGED <<at, layer, batch, single, tripped, due, ids>>
    BY <1>3 DEF Take, graph, ahead
  <2> QED
    BY <2>1 DEF PunctualIsCommitted
<1>4. CASE Deliver
  <2>1. UNCHANGED <<at, layer, batch, single, tripped, ids>>
    BY <1>4 DEF Deliver, graph
  <2>2. at \in Routed /\ layer \in due' => layer \in due
    BY <1>4, InTime DEF Deliver, Running, Routed
  <2> QED
    BY <2>1, <2>2 DEF PunctualIsCommitted
<1>5. CASE Elsewhere
  <2>1. UNCHANGED <<batch, single, tripped, due>> /\ ids'.by = ids.by
    BY <1>5, ElsewhereKeeps
  <2>2. at' \in Routed => at \in Routed /\ layer' = layer
    BY <1>5, ElsewhereKeeps
  <2> QED
    BY <2>1, <2>2 DEF PunctualIsCommitted
<1> QED
  BY <1>1, <1>2, <1>3, <1>4, <1>5, Steps

\* A ranking that was ready before the top-k after the one that asked for it is the
\* routing of its layer, in a decode of one token (RouterHook::on_topk).
THEOREM PunctualCommitted == Spec => []PunctualIsCommitted
<1>1. Init => TimeInv
  <2> SUFFICES ASSUME Init PROVE TimeInv
    OBVIOUS
  <2>1. TokenInv
    BY InitToken
  <2>2. LaterInv /\ OrderInv
    BY DEF Init, LaterInv, Later, OrderInv, NoJob, Running
  <2>3. DueInv /\ PunctualIsCommitted
    BY DEF Init, DueInv, PunctualIsCommitted, Running
  <2> QED
    BY <2>1, <2>2, <2>3 DEF TimeInv
<1>2. TimeInv /\ [Next]_vars => TimeInv'
  <2> SUFFICES ASSUME TimeInv, [Next]_vars PROVE TimeInv'
    OBVIOUS
  <2>1. TokenInv'
    BY TokenStep DEF TimeInv
  <2>2. LaterInv' /\ OrderInv'
    BY LaterStep, OrderStep DEF TimeInv
  <2> QED
    BY <2>1, <2>2, DueStep, PunctualStep DEF TimeInv
<1>3. TimeInv => PunctualIsCommitted
  BY DEF TimeInv
<1> QED
  BY <1>1, <1>2, <1>3, PTL DEF Spec

(***************************************************************************)
(* A layer is loaded before its matmul, and bets once.                     *)
(***************************************************************************)
\* What is loaded, and what is put off, at each place of a layer.
LoadInv ==
    /\ deferred => drop_layer \in Layer /\ term[drop_layer] # -1
    /\ at \in Routed => drop_layer = layer
    /\ at \in {"collect", "submit"} => drop_layer = -1 /\ ~deferred
    /\ at = "closed_drop" => drop_layer \in Layer /\ ~deferred /\ term[drop_layer] = -1
    /\ at = "load" => ~deferred /\ ids.kept = Slots
    /\ at \in {"after", "after_drop"} => ~deferred /\ Loaded
    /\ at = "chain" => \/ ~deferred /\ Loaded
                       \/ deferred /\ DropArmed /\ layer \in host /\ ids.kept = Slots

\* A layer that ran unloaded has its bet open, or does not know its last node.
BetInv ==
    \A l \in Layer :
        /\ bare[l] <= 1
        /\ at \in {"chain", "after", "after_drop", "matmul"} /\ l = layer => bare[l] = 0
        /\ bare[l] = 1 => \/ drop_layer = l /\ deferred
                          \/ term[l] = -1 /\ (drop_layer # l \/ at \in {"closed_drop", "load"})

DropInv == TypeOK /\ LoadInv /\ MatmulLoaded /\ BetInv

\* The invariant of the loads holds at first.
LEMMA InitDrop == ASSUME Init PROVE DropInv
<1>1. TypeOK
  BY InitType
<1> QED
  BY <1>1 DEF Init, DropInv, LoadInv, MatmulLoaded, BetInv, Routed, TypeOK

\* The invariant of the loads and its two consequences hold after every step.
LEMMA DropStep == ASSUME DropInv, [Next]_vars PROVE LoadInv' /\ MatmulLoaded' /\ BetInv'
<1> USE Numbers DEF DropInv, Routed
<1>1. CASE \E ph \in {0, 1}, one \in BOOLEAN, c \in Chains : BeginBatch(ph, one, c)
  BY <1>1 DEF BeginBatch, TypeOK, LoadInv, MatmulLoaded, BetInv, Loaded, graph, drop, slots,
     thread, vars, DropArmed
<1>2. CASE Ask
  BY <1>2 DEF Ask, TypeOK, LoadInv, MatmulLoaded, BetInv, Loaded, graph, drop, slots,
     thread, vars, DropArmed
<1>3. CASE CloseDrop
  BY <1>3 DEF CloseDrop, Relearned, TypeOK, LoadInv, MatmulLoaded, BetInv, Loaded, graph,
     drop, slots, thread, vars, DropArmed
<1>4. CASE CloseCollect
  BY <1>4 DEF CloseCollect, CollectAt, TypeOK, LoadInv, MatmulLoaded, BetInv, Loaded, graph,
     drop, slots, thread, vars, DropArmed
<1>5. CASE TopkCollect
  BY <1>5 DEF TopkCollect, CollectAt, TypeOK, LoadInv, MatmulLoaded, BetInv, Loaded, graph,
     drop, slots, thread, vars, DropArmed
<1>6. CASE TopkOffHost
  BY <1>6 DEF TopkOffHost, TypeOK, LoadInv, MatmulLoaded, BetInv, Loaded, graph, drop,
     slots, thread, vars, DropArmed
<1>7. CASE \E trips \in BOOLEAN : SubmitCommit(trips)
  BY <1>7 DEF SubmitCommit, SubmitJob, OpenDrop, Armed, Invalidated, Target, Committed,
     DropArmed, Own, Nothing, TypeOK, LoadInv, MatmulLoaded, BetInv, Loaded, graph, drop,
     slots, thread, vars
<1>8. CASE Load
  <2>1. LoadInv' /\ MatmulLoaded'
    BY <1>8, HookAssumption DEF Load, TypeOK, LoadInv, MatmulLoaded, Loaded, graph
  <2>2. bare' = [bare EXCEPT ![layer] = 0] /\ at = "load" /\ at' = "after"
    BY <1>8 DEF Load
  <2>3. BetInv'
    BY <1>8, <2>2 DEF Load, TypeOK, LoadInv, BetInv
  <2> QED
    BY <2>1, <2>3
<1>9. CASE LoadCollect
  BY <1>9 DEF LoadCollect, CollectAt, TypeOK, LoadInv, MatmulLoaded, BetInv, Loaded, graph,
     drop, slots, thread, vars, DropArmed
<1>10. CASE PassChain
  <2>1. /\ at = "chain" /\ at' = "matmul" /\ ~Decides
        /\ UNCHANGED <<host, layer, chain, phase, ids, loaded, term, drop_layer, deferred, bare>>
    BY <1>10 DEF PassChain, graph
  <2>2. Loaded \/ (deferred /\ DropArmed /\ layer \in host)
    BY <2>1 DEF LoadInv
  <2>3. deferred /\ DropArmed /\ layer \in host => term[layer] \notin chain
    <3>1. deferred => term[layer] # -1
      BY <2>1 DEF LoadInv
    <3> QED
      BY <2>1, <3>1 DEF Decides, Offered
  <2>4. MatmulLoaded'
    BY <2>1, <2>2, <2>3 DEF MatmulLoaded, Loaded
  <2>5. LoadInv'
    BY <2>1 DEF LoadInv
  <2>6. BetInv'
    BY <2>1 DEF BetInv
  <2> QED
    BY <2>4, <2>5, <2>6
<1>11. CASE \E gone \in SUBSET Slots : ApplyDrop(gone)
  <2>1. PICK gone \in SUBSET Slots : ApplyDrop(gone)
    BY <1>11
  <2>2. /\ at = "chain" /\ at' = "after_drop" /\ deferred /\ ~deferred' /\ gone # Slots
        /\ UNCHANGED <<layer, term, drop_layer>>
    BY <2>1 DEF ApplyDrop, Decides, graph
  <2>3. ids.kept = Slots
    BY <2>2 DEF LoadInv
  <2>4. ids' = [ids EXCEPT !.kept = @ \ gone] /\ loaded' = ids'
    BY <2>1 DEF ApplyDrop, Repointed
  <2>5. Loaded'
    BY <2>2, <2>3, <2>4 DEF Loaded, TypeOK, Routing
  <2>6. LoadInv' /\ MatmulLoaded'
    BY <2>2, <2>5 DEF LoadInv, MatmulLoaded
  <2>7. bare' = [bare EXCEPT ![layer] = 0]
    BY <2>1 DEF ApplyDrop
  <2>8. BetInv'
    BY <2>2, <2>7 DEF TypeOK, LoadInv, BetInv
  <2> QED
    BY <2>6, <2>8
<1>12. CASE DropCollect
  BY <1>12 DEF DropCollect, CollectAt, TypeOK, LoadInv, MatmulLoaded, BetInv, Loaded, graph,
     drop, slots, thread, vars, DropArmed
<1>13. CASE Matmul
  BY <1>13 DEF Matmul, TypeOK, LoadInv, MatmulLoaded, BetInv, Loaded, graph, drop, slots,
     thread, vars, DropArmed
<1>14. CASE JoinWorker
  BY <1>14 DEF JoinWorker, TypeOK, LoadInv, MatmulLoaded, BetInv, Loaded, graph, drop,
     slots, thread, vars, DropArmed
<1>15. CASE Abort
  BY <1>15 DEF Abort, TypeOK, LoadInv, MatmulLoaded, BetInv, Loaded, graph, drop, slots,
     thread, vars, DropArmed
<1>16. CASE StopWorker
  BY <1>16 DEF StopWorker, TypeOK, LoadInv, MatmulLoaded, BetInv, Loaded, graph, drop,
     slots, thread, vars, DropArmed
<1>17. CASE Take
  BY <1>17 DEF Take, TypeOK, LoadInv, MatmulLoaded, BetInv, Loaded, graph, drop, slots,
     thread, vars, DropArmed
<1>18. CASE Deliver
  BY <1>18 DEF Deliver, TypeOK, LoadInv, MatmulLoaded, BetInv, Loaded, graph, drop, slots,
     thread, vars, DropArmed
<1>19. CASE Unscored
  BY <1>19 DEF Unscored, TypeOK, LoadInv, MatmulLoaded, BetInv, Loaded, graph, drop, slots,
     thread, vars, DropArmed
<1>20. CASE Leave
  BY <1>20 DEF Leave, TypeOK, LoadInv, MatmulLoaded, BetInv, Loaded, graph, drop, slots,
     thread, vars, DropArmed
<1>21. CASE Closed
  BY <1>21 DEF Closed, vars, TypeOK, LoadInv, MatmulLoaded, BetInv, Loaded, graph, drop,
     slots, thread, DropArmed
<1>22. CASE UNCHANGED vars
  BY <1>22 DEF vars, TypeOK, LoadInv, MatmulLoaded, BetInv, Loaded, graph, drop, slots,
     thread, DropArmed
<1> QED
  BY <1>1, <1>2, <1>3, <1>4, <1>5, <1>6, <1>7, <1>8, <1>9, <1>10, <1>11, <1>12, <1>13,
     <1>14, <1>15, <1>16, <1>17, <1>18, <1>19, <1>20, <1>21, <1>22 DEF Next, Eval,
     WorkerStep

\* The matmul of a layer names no expert that was not loaded, unless the node the load
\* was put off to did not come (RouterHook::on_topk, apply_drop).
THEOREM LoadedForMatmul == Spec => []MatmulLoaded
<1>1. Init => DropInv
  BY InitDrop
<1>2. DropInv /\ [Next]_vars => DropInv'
  BY StepType, DropStep DEF DropInv
<1>3. DropInv => MatmulLoaded
  BY DEF DropInv
<1> QED
  BY <1>1, <1>2, <1>3, PTL DEF Spec

\* No layer runs unloaded twice without a load in time between (close_drop_layer).
THEOREM OneBet == Spec => []NoStandingBet
<1>1. Init => DropInv
  BY InitDrop
<1>2. DropInv /\ [Next]_vars => DropInv'
  BY StepType, DropStep DEF DropInv
<1>3. DropInv => NoStandingBet
  BY DEF DropInv, BetInv, NoStandingBet
<1> QED
  BY <1>1, <1>2, <1>3, PTL DEF Spec

==============================================================================
