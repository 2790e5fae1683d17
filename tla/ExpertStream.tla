---------------------------- MODULE ExpertStream ----------------------------
(***************************************************************************)
(* The expert streamer with its LRU cache (core/src/moe/                   *)
(* expert_stream_source.cpp): the eval thread, which loads the routed      *)
(* experts of one layer after another and alone changes the cache, and the *)
(* I/O lanes, which read slices into the pages it committed - the batch of *)
(* the layer being loaded first, speculative reads with what is left.      *)
(*                                                                         *)
(* Everything the code does under one hold of io_mtx_, and every stretch   *)
(* of the eval thread that touches only what it owns, is one action.  An   *)
(* entry is an expert of a layer; a slice is one projection of an entry.   *)
(* Entries have one size, so bytes are counted in entries.                 *)
(***************************************************************************)
EXTENDS Naturals, Sequences, FiniteSets, SequencesExt

CONSTANTS Layers,     \* number of streamed layers; they are 0 .. Layers-1
          Experts,    \* n_expert_; the experts are 0 .. Experts-1
          Projs,      \* number of projections of an expert
          Workers,    \* io_threads_: the lanes are 0 .. Workers-1
          TopK,       \* how many ids one load may be given
          Ahead,      \* how many layers ahead the router hook speculates
          Budgets,    \* the values set_cache_budget may be given, in entries
          Adopt,      \* spec_adopt_: route-ahead is on
          TwoWave,    \* two_wave_
          Modes,      \* the values overlap_ may take
          Faults      \* which calls may fail: "read", "spec_read", "commit",
                      \* "spec_commit"; "cancel" when a token may be cancelled

ASSUME StreamAssumption ==
    /\ {Layers, Experts, Projs, Workers, TopK, Ahead} \subseteq Nat \ {0}
    /\ Budgets \subseteq Nat \ {0} /\ Budgets # {}
    /\ Adopt \in BOOLEAN /\ TwoWave \in BOOLEAN
    /\ Modes \subseteq BOOLEAN /\ Modes # {}
    /\ Faults \subseteq {"read", "spec_read", "commit", "spec_commit", "cancel"}

Layer == 0..(Layers - 1)
Expert == 0..(Experts - 1)
Proj == 0..(Projs - 1)
Lane == 0..(Workers - 1)
Entry == Layer \X Expert
Slice == Entry \X Proj

Slices(E) == E \X Proj
Bank(l) == {l} \X Expert

VARIABLES
    pc,          \* where the eval thread is
    il, ids,     \* the layer it is at, and the experts it routed there
    overlap,     \* overlap_
    \* The cache: the eval thread's alone.
    valid,       \* cvalid_: the resident entries
    staged,      \* the entries whose cstamp_ is cgen_: touched by this load
    lru,         \* the LRU list, hot end first
    resident,    \* cresident_
    budget,      \* cache_max_
    committed,   \* the slices whose pages are committed
    filled,      \* the slices that hold their bytes
    \* The batch in flight (io_mtx_) and its readiness flags.
    jobs,        \* jobs_ from next_idx_ on
    undone,      \* batch_njobs_ - done_cnt_
    ready,       \* the flags (expert, projection) that carry async_gen_
    io_err, fatal,
    \* Speculation (io_mtx_).
    spec_jobs,      \* spec_jobs_ from spec_next_ on
    spec_remaining, \* projections still to be read, per entry
    spec_done, spec_touched,
    \* Threads.
    lane,        \* what each lane is doing
    lane0_stop, io_stop,
    cand         \* prefetch's candidates, between its filter and its publish

cache == <<valid, staged, lru, resident, budget>>
pages == <<committed, filled>>
batch == <<jobs, undone, ready, io_err, fatal>>
specq == <<spec_jobs, spec_remaining, spec_done, spec_touched>>
threads == <<lane, lane0_stop, io_stop>>
where == <<pc, il, ids, overlap>>
vars == <<where, cache, pages, batch, specq, threads, cand>>

\* What a lane does: nothing, a read of the batch, the accounting of that read
\* once its flag is up, a speculative read, or it has returned.
Nobody == [doing |-> "idle"]
Reading(s) == [doing |-> "batch", slice |-> s]
Landed == [doing |-> "landed"]
Speculating(s, own) == [doing |-> "spec", slice |-> s, owned |-> own]
Gone == [doing |-> "gone"]
Doings == {Nobody, Landed, Gone} \union {Reading(s) : s \in Slice}
          \union {Speculating(s, own) : s \in Slice, own \in BOOLEAN}

Places ==
    {"route", "quiesce", "cancelled", "adopting", "stage", "wave2", "drain", "inline",
     "evict", "issue", "prefetch", "matmul", "shrink", "shrink_cancelled",
     "shrunk", "joining", "stopping", "aborted", "off"}

TypeOK ==
    /\ pc \in Places /\ il \in Layer /\ ids \in Seq(Expert)
    /\ overlap \in BOOLEAN
    /\ valid \subseteq Entry /\ staged \subseteq Entry
    /\ lru \in Seq(Entry) /\ resident \in Nat /\ budget \in Nat \ {0}
    /\ committed \subseteq Slice /\ filled \subseteq Slice
    /\ jobs \in Seq(Slice) /\ undone \in Nat /\ ready \subseteq Expert \X Proj
    /\ io_err \in BOOLEAN /\ fatal \in BOOLEAN
    /\ lane0_stop \in BOOLEAN /\ io_stop \in BOOLEAN
    /\ spec_jobs \in Seq(Slice) /\ spec_remaining \in [Entry -> 0..Projs]
    /\ spec_done \in Seq(Entry) /\ spec_touched \subseteq Entry
    /\ lane \in [Lane -> Doings]
    /\ cand \in Seq(Entry)

Init ==
    /\ pc = "route" /\ il = 0 /\ ids = <<>>
    /\ overlap \in Modes
    /\ valid = {} /\ staged = {} /\ lru = <<>> /\ resident = 0
    /\ budget \in Budgets
    /\ committed = {} /\ filled = {}
    /\ jobs = <<>> /\ undone = 0 /\ ready = {} /\ io_err = FALSE /\ fatal = FALSE
    /\ spec_jobs = <<>> /\ spec_remaining = [e \in Entry |-> 0]
    /\ spec_done = <<>> /\ spec_touched = {}
    /\ lane = [n \in Lane |-> Nobody] /\ lane0_stop = FALSE /\ io_stop = FALSE
    /\ cand = <<>>

---------------------------------------------------------------------------
(* The lanes.                                                              *)

\* The seeded bug of BatchDone: the reads in flight are forgotten.
BatchTaken == jobs = <<>>

\* Every read of the published batch is done and counted: done_cnt_ == batch_njobs_.
BatchDone == undone = 0

\* spec_inflight_, as the set of the lanes.
InFlight == {n \in Lane : lane[n].doing = "spec"}

\* Lane 0 belongs to the eval thread in serial mode; a worker serves it under
\* overlap, until lane0_stop_.
Served(n) == n # 0 \/ (overlap /\ ~lane0_stop)

\* io_drain: the lane takes the next job of the published batch.  The eval
\* thread drains the same way on lane 0 in serial mode.
BatchPull(n) ==
    /\ Served(n) \/ pc = "drain"
    /\ pc # "inline"
    /\ lane[n] = Nobody /\ jobs # <<>>
    /\ lane' = [lane EXCEPT ![n] = Reading(Head(jobs))]
    /\ jobs' = Tail(jobs)
    /\ UNCHANGED <<where, cache, pages, undone, ready, io_err, fatal, specq,
                   lane0_stop, io_stop, cand>>

\* The seeded bug of RaiseFlag: a finished read raises no flag.
RaiseNoFlag(s) == UNCHANGED ready

\* Under overlap the flag of a finished read, indexed by expert and projection
\* alone, is stored with the generation of the batch in flight.
RaiseFlag(s) == ready' = IF overlap THEN ready \union {<<s[1][2], s[2]>>} ELSE ready

\* The bytes are in place.
BatchRead(n) ==
    /\ lane[n].doing = "batch"
    /\ filled' = filled \union {lane[n].slice}
    /\ RaiseFlag(lane[n].slice)
    /\ lane' = [lane EXCEPT ![n] = Landed]
    /\ UNCHANGED <<where, cache, committed, jobs, undone, io_err, fatal, specq,
                   lane0_stop, io_stop, cand>>

\* The seeded bug of ReadError: a failed read is only counted.
ReadErrorIgnored == UNCHANGED <<io_err, fatal>>

ReadError == io_err' = TRUE /\ fatal' = (fatal \/ overlap)

\* The read failed.  Its flag goes up all the same, behind fatal_, so that
\* nobody waits for bytes that never come.
BatchReadFails(n) ==
    /\ "read" \in Faults
    /\ lane[n].doing = "batch"
    /\ ReadError
    /\ RaiseFlag(lane[n].slice)
    /\ lane' = [lane EXCEPT ![n] = Landed]
    /\ UNCHANGED <<where, cache, pages, jobs, undone, specq, lane0_stop, io_stop, cand>>

\* ++done_cnt_, under io_mtx_.
BatchCount(n) ==
    /\ lane[n] = Landed
    /\ undone' = undone - 1
    /\ lane' = [lane EXCEPT ![n] = Nobody]
    /\ UNCHANGED <<where, cache, pages, jobs, ready, io_err, fatal, specq,
                   lane0_stop, io_stop, cand>>

\* May a lane look at the speculative queue?  It drains the batch first; only
\* one already in drain_spec misses the second wave of a two-wave batch.
MaySpeculate ==
    \/ jobs = <<>> \/ pc = "inline"
    \/ TwoWave /\ overlap /\ pc # "wave2"

\* drain_spec: an idle lane takes a speculative job.
SpecPull(n) ==
    /\ ~io_stop /\ Served(n) /\ MaySpeculate
    /\ lane[n] = Nobody /\ spec_jobs # <<>>
    /\ lane' = [lane EXCEPT ![n] = Speculating(Head(spec_jobs), TRUE)]
    /\ spec_jobs' = Tail(spec_jobs)
    /\ UNCHANGED <<where, cache, pages, batch, spec_remaining, spec_done, spec_touched,
                   lane0_stop, io_stop, cand>>

\* One projection less to read of entry e; the last one completes it.
CountDown(e) ==
    IF spec_remaining[e] = 0 THEN UNCHANGED <<spec_remaining, spec_done>>
    ELSE /\ spec_remaining' = [spec_remaining EXCEPT ![e] = @ - 1]
         /\ spec_done' = IF spec_remaining[e] = 1 THEN Append(spec_done, e) ELSE spec_done

\* A speculative read landed; one of a cancelled round counts for nothing.
SpecRead(n) ==
    /\ lane[n].doing = "spec"
    /\ filled' = filled \union {lane[n].slice}
    /\ IF lane[n].owned THEN CountDown(lane[n].slice[1])
                        ELSE UNCHANGED <<spec_remaining, spec_done>>
    /\ lane' = [lane EXCEPT ![n] = Nobody]
    /\ UNCHANGED <<where, cache, committed, batch, spec_jobs, spec_touched,
                   lane0_stop, io_stop, cand>>

\* A failed speculative read under route-ahead forgets the entry; otherwise the
\* quiesce finds its counter above zero and releases it.
Forget(e) ==
    spec_remaining' = IF Adopt THEN [spec_remaining EXCEPT ![e] = 0] ELSE spec_remaining

\* The seeded bug of SpecReadFails: a failed read counts, as that of a batch does.
SpecReadFailsCounted(n) ==
    /\ "spec_read" \in Faults
    /\ lane[n].doing = "spec"
    /\ IF lane[n].owned THEN CountDown(lane[n].slice[1])
                        ELSE UNCHANGED <<spec_remaining, spec_done>>
    /\ lane' = [lane EXCEPT ![n] = Nobody]
    /\ UNCHANGED <<where, cache, pages, batch, spec_jobs, spec_touched,
                   lane0_stop, io_stop, cand>>

SpecReadFails(n) ==
    /\ "spec_read" \in Faults
    /\ lane[n].doing = "spec"
    /\ Forget(lane[n].slice[1])
    /\ lane' = [lane EXCEPT ![n] = Nobody]
    /\ UNCHANGED <<where, cache, pages, batch, spec_jobs, spec_done, spec_touched,
                   lane0_stop, io_stop, cand>>

\* The seeded bug of MustStop: a worker looks at its queues, not at io_stop_.
MustStopIdle(n) == \/ io_stop /\ Served(n) /\ spec_jobs # <<>>
                   \/ n = 0 /\ overlap /\ lane0_stop

\* A worker returns at io_stop_, and lane 0's at lane0_stop_ too.
MustStop(n) == \/ io_stop /\ Served(n)
               \/ n = 0 /\ overlap /\ lane0_stop

\* io_worker returns.
WorkerExit(n) ==
    /\ lane[n] = Nobody
    /\ MustStop(n)
    /\ lane' = [lane EXCEPT ![n] = Gone]
    /\ UNCHANGED <<where, cache, pages, batch, specq, lane0_stop, io_stop, cand>>

LaneStep(n) ==
    \/ BatchPull(n) \/ BatchRead(n) \/ BatchReadFails(n) \/ BatchCount(n)
    \/ SpecPull(n) \/ SpecRead(n) \/ SpecReadFails(n)
    \/ WorkerExit(n)

---------------------------------------------------------------------------
(* The LRU list.                                                           *)

\* The elements of a sequence that are in T, in their order.  SelectSeq, with a set for the
\* test: what is kept can then be reasoned about.
Kept(s, T) ==
    LET kept[i \in 0..Len(s)] ==
            IF i = 0 THEN <<>>
            ELSE IF s[i] \in T THEN Append(kept[i - 1], s[i]) ELSE kept[i - 1]
    IN  kept[Len(s)]

\* lru_unlink: of an entry that is not linked it rewrites both ends of the list
\* to -1, which orphans every entry in it.
Unlink(s, e) ==
    IF e \in ToSet(s) THEN RemoveAt(s, CHOOSE i \in DOMAIN s : s[i] = e) ELSE <<>>
PushFront(s, e) == <<e>> \o s
Promote(s, e) == PushFront(Unlink(s, e), e)

\* Pushing, and promoting, the entries of a sequence one after the other.
PushAll(s, es) == Reverse(es) \o s
PromoteAll(s, es) == FoldLeft(Promote, s, es)

\* The entries of a set in ascending order; the entries ids names, in its order.
InLine == [k \in 1..(Layers * Experts) |-> <<(k - 1) \div Experts, (k - 1) % Experts>>]
Ascending(E) == Kept(InLine, E)
Routed == {<<il, e>> : e \in ToSet(ids)}
InOrder == [i \in DOMAIN ids |-> <<il, ids[i]>>]

\* The slices of entries es, entry by entry, and projection by projection.
EntryMajor(es) == [k \in 1..(Len(es) * Projs) |->
                      <<es[((k - 1) \div Projs) + 1], (k - 1) % Projs>>]
ProjMajor(es, P) == [k \in 1..(Len(es) * Len(P)) |->
                        <<es[((k - 1) % Len(es)) + 1], P[((k - 1) \div Len(es)) + 1]>>]

---------------------------------------------------------------------------
(* quiesce_spec, on the eval thread.                                       *)

Pending == {e \in Entry : spec_remaining[e] # 0}

\* The completed entries that may enter the cache, in the order they completed.
Eligible == Kept(spec_done, Entry \ (valid \union Pending))

\* They become resident, with no stamp: at the hot end under route-ahead, at the
\* cold end when they are guesses, or quiesced for a smaller budget.
Integrate ==
    /\ valid' = valid \union ToSet(Eligible)
    /\ resident' = resident + Len(Eligible)
    /\ lru' = IF Adopt /\ pc # "shrink_cancelled" THEN PushAll(lru, Eligible)
                                                 ELSE lru \o Eligible
    /\ staged' = staged \ ToSet(Eligible)
    /\ spec_done' = <<>>

\* ++spec_gen_: what the lanes are reading no longer counts.
Disowned == [n \in Lane |-> IF n \in InFlight THEN Speculating(lane[n].slice, FALSE) ELSE lane[n]]

\* The destructive quiesce forgets the queue ...
CancelSpec(from, to) ==
    /\ pc = from
    /\ pc' = to
    /\ spec_jobs' = <<>>
    /\ lane' = Disowned
    /\ UNCHANGED <<il, ids, overlap, cache, pages, batch, spec_remaining, spec_done,
                   spec_touched, lane0_stop, io_stop, cand>>

\* The seeded bug of ReadsOver: the reads in flight are not waited for.
ReadsOverOrNot == TRUE

\* spec_inflight_ == 0.
ReadsOver == InFlight = {}

\* The seeded bug of Released: the pages of an unfinished entry are kept.
NothingReleased == {}

\* The touched entries whose reads never finished: cancelled, or failed.
Released == {e \in spec_touched : spec_remaining[e] # 0}

\* ... waits for the reads in flight, integrates what is complete, and releases
\* what is not.
FinishQuiesce(from, to) ==
    /\ pc = from
    /\ ReadsOver
    /\ pc' = to
    /\ Integrate
    /\ LET released == Released \ ToSet(spec_done) IN
           /\ committed' = committed \ Slices(released)
           /\ filled' = filled \ Slices(released)
    /\ spec_remaining' = [e \in Entry |->
           IF e \in spec_touched \union ToSet(spec_done) THEN 0 ELSE spec_remaining[e]]
    /\ spec_touched' = {}
    /\ UNCHANGED <<il, ids, overlap, budget, batch, spec_jobs, threads, cand>>

\* The seeded bug of NotOfLayer: the other layers' jobs are cancelled.
OthersDropped(s, l) == <<>>

\* The jobs of a layer, and the others.
OfLayer(s, l) == Kept(s, Slices(Bank(l)))
NotOfLayer(s, l) == Kept(s, Slice \ Slices(Bank(l)))

\* Under route-ahead nothing is cancelled: the layer's own jobs come first.
AdoptBegin ==
    /\ Adopt /\ pc = "quiesce"
    /\ pc' = "adopting"
    /\ spec_jobs' = OfLayer(spec_jobs, il) \o NotOfLayer(spec_jobs, il)
    /\ spec_touched' = spec_touched \intersect Pending
    /\ UNCHANGED <<il, ids, overlap, cache, pages, batch, spec_remaining, spec_done,
                   threads, cand>>

\* drain_adopted: serially the eval thread reads the layer's own jobs on lane 0.
AdoptPull ==
    /\ pc = "adopting" /\ ~overlap
    /\ lane[0] = Nobody
    /\ spec_jobs # <<>> /\ Head(spec_jobs)[1][1] = il
    /\ lane' = [lane EXCEPT ![0] = Speculating(Head(spec_jobs), TRUE)]
    /\ spec_jobs' = Tail(spec_jobs)
    /\ UNCHANGED <<where, cache, pages, batch, spec_remaining, spec_done, spec_touched,
                   lane0_stop, io_stop, cand>>

\* The seeded bug of Adopted: only the queue is waited for.
AdoptedTaken == OfLayer(spec_jobs, il) = <<>>

\* The layer's own entries are complete, or forgotten.
Adopted == Pending \intersect Bank(il) \intersect spec_touched = {}

\* The wait is over: everything complete is integrated.
AdoptEnd ==
    /\ pc = "adopting"
    /\ overlap \/ (lane[0] = Nobody /\ OfLayer(spec_jobs, il) = <<>>)
    /\ Adopted
    /\ pc' = "stage"
    /\ Integrate
    /\ UNCHANGED <<il, ids, overlap, budget, pages, batch, spec_jobs, spec_remaining,
                   spec_touched, threads, cand>>

---------------------------------------------------------------------------
(* load_layer and load_layer_async, on the eval thread.                    *)

\* The router hook asks for the experts of layer il.  The overlapped load first
\* waits for the last batch, and returns false when a read of it has failed: the
\* graph is abandoned (what the hook still speculates on its way there is left out).
BeginLoad(s) ==
    /\ pc = "route"
    /\ overlap => BatchDone
    /\ pc' = IF overlap /\ fatal THEN "aborted" ELSE "quiesce"
    /\ ids' = s
    /\ UNCHANGED <<il, overlap, cache, pages, batch, specq, threads, cand>>

\* The order in which touch_entry visits the routed entries, and the projections
\* whose pages it commits.
Visited == IF overlap THEN Ascending(Routed) ELSE InOrder
FirstWave == IF overlap /\ TwoWave THEN {0} ELSE Proj

\* The misses among the visited, each once, in the order of its first visit.
Misses(es) ==
    LET new[i \in 0..Len(es)] ==
            IF i = 0 THEN <<>>
            ELSE IF es[i] \in valid \union ToSet(new[i - 1]) THEN new[i - 1]
            ELSE Append(new[i - 1], es[i])
    IN  new[Len(es)]

\* The seeded bug of Touch: a miss is promoted like a hit.
TouchPromotes(s, e) == Promote(s, e)

\* Serially a hit, or a second visit, is promoted and a miss pushed.
Touch(s, e) == IF e \in valid \/ e \in ToSet(s) THEN Promote(s, e) ELSE PushFront(s, e)

\* The seeded bug of TouchAll: the misses are never pushed.
TouchNoPush(es) == PromoteAll(lru, InOrder)

\* Under overlap misses are pushed as they are visited; once the last wave is out
\* every id is promoted in the order of the ids.
TouchAll(es) ==
    IF ~overlap THEN FoldLeft(Touch, lru, es)
    ELSE IF TwoWave THEN PushAll(lru, Misses(es))
    ELSE PromoteAll(PushAll(lru, Misses(es)), InOrder)

\* Every visited entry is touched: the hits' flags are up at once, the misses
\* enter the cache before they are read.
TouchEntries(es) ==
    /\ staged' = ToSet(es)
    /\ valid' = valid \union ToSet(es)
    /\ resident' = resident + Len(Misses(es))
    /\ ready' = IF overlap THEN {e[2] : e \in ToSet(es) \intersect valid} \X Proj ELSE ready

\* The projections in order, and those after the first.
AllProjs == [p \in 1..Projs |-> p - 1]
LaterProjs == [p \in 1..(Projs - 1) |-> p]

\* Staging: bookkeeping, then the batch is published - or, with one lane or one
\* job, read in place.  A two-wave batch begins with its first projection.
Stage ==
    LET missed == Misses(Visited) IN
    /\ pc = "stage"
    /\ TouchEntries(Visited)
    /\ lru' = TouchAll(Visited)
    /\ committed' = committed \union (ToSet(missed) \X FirstWave)
    /\ jobs' = IF ~overlap THEN EntryMajor(missed)
               ELSE IF TwoWave THEN ProjMajor(missed, <<0>>) ELSE ProjMajor(missed, AllProjs)
    /\ IF ~overlap /\ (Workers = 1 \/ Len(jobs') <= 1)
         THEN pc' = "inline" /\ UNCHANGED <<undone, io_err>>
         ELSE /\ pc' = IF ~overlap THEN "drain" ELSE IF TwoWave THEN "wave2" ELSE "evict"
              /\ undone' = Len(jobs')
              /\ io_err' = FALSE
    /\ UNCHANGED <<il, ids, overlap, budget, filled, fatal, specq, threads, cand>>

\* A page commit fails at the k-th visited entry, n of whose projections were
\* committed: nothing is published and the load returns false, which the router
\* hook does not look at.
StageFails(k, n) ==
    LET es == SubSeq(Visited, 1, k - 1)
        e == Visited[k]
    IN
    /\ "commit" \in Faults /\ pc = "stage"
    /\ e \notin valid \union ToSet(es)
    /\ n < Cardinality(FirstWave)
    /\ TouchEntries(es)
    /\ lru' = IF overlap THEN PushAll(lru, Misses(es)) ELSE FoldLeft(Touch, lru, es)
    /\ committed' = committed \union (ToSet(Misses(es)) \X FirstWave) \union ({e} \X (0..(n - 1)))
    /\ fatal' = (fatal \/ overlap)
    /\ pc' = "issue"
    /\ UNCHANGED <<il, ids, overlap, budget, filled, jobs, undone, io_err, specq, threads, cand>>

\* The seeded bug of SecondWave: the last miss is forgotten.
SecondWaveShort ==
    LET s == SelectSeq(Visited, LAMBDA e : <<e[2], 1>> \notin ready) IN
    IF s = <<>> THEN s ELSE Front(s)

\* The experts whose later projections the first wave left: the misses.
SecondWave == Kept(Visited, {e \in Entry : <<e[2], 1>> \notin ready})

\* The second wave: the later projections are committed and appended to the
\* batch the lanes are reading.
StageSecondWave ==
    /\ pc = "wave2"
    /\ lru' = PromoteAll(lru, Kept(InOrder, valid))
    /\ committed' = committed \union (ToSet(SecondWave) \X Proj)
    /\ jobs' = jobs \o ProjMajor(SecondWave, LaterProjs)
    /\ undone' = undone + Len(SecondWave) * (Projs - 1)
    /\ pc' = "evict"
    /\ UNCHANGED <<il, ids, overlap, valid, staged, resident, budget, filled, ready, io_err, fatal,
                   specq, threads, cand>>

\* A commit of the second wave fails with the first one published: of the k-th
\* expert it is for, n of whose later projections were committed.
SecondWaveFails(k, n) ==
    /\ "commit" \in Faults
    /\ pc = "wave2" /\ k \in DOMAIN SecondWave /\ n < Projs - 1
    /\ committed' = committed \union (ToSet(SubSeq(SecondWave, 1, k - 1)) \X Proj)
                              \union ({SecondWave[k]} \X (0..n))
    /\ fatal' = TRUE
    /\ pc' = "issue"
    /\ UNCHANGED <<il, ids, overlap, cache, filled, jobs, undone, ready, io_err, specq,
                   threads, cand>>

\* With one lane, or one job, the eval thread reads the list itself.
InlineRead ==
    /\ pc = "inline"
    /\ IF jobs = <<>> THEN pc' = "evict" /\ UNCHANGED <<jobs, filled>>
       ELSE /\ filled' = filled \union {Head(jobs)}
            /\ jobs' = Tail(jobs)
            /\ pc' = pc
    /\ UNCHANGED <<il, ids, overlap, cache, committed, undone, ready, io_err, fatal, specq,
                   threads, cand>>

\* A failed read returns at once and leaves the rest unread.
InlineReadFails ==
    /\ "read" \in Faults
    /\ pc = "inline" /\ jobs # <<>>
    /\ jobs' = <<>>
    /\ pc' = "issue"
    /\ UNCHANGED <<il, ids, overlap, cache, pages, undone, ready, io_err, fatal, specq,
                   threads, cand>>

\* Serially the load waits for the whole batch; after a failed read it returns
\* without evicting.
DrainEnd ==
    /\ pc = "drain"
    /\ BatchDone
    /\ pc' = IF io_err THEN "issue" ELSE "evict"
    /\ UNCHANGED <<il, ids, overlap, cache, pages, batch, specq, threads, cand>>

\* May the tail be evicted after n evictions?
OverBudget(n) == n < Len(lru) /\ resident > budget + n
Evictable(n) == OverBudget(n) /\ lru[Len(lru) - n] \notin staged

\* How many entries a loop takes from the tail while its condition holds.
Evictions(while(_)) ==
    CHOOSE k \in 0..Len(lru) : (\A n \in 0..(k - 1) : while(n)) /\ ~ while(k)

\* evict_tail, k times: the pages go with the entry.
EvictTails(k) ==
    LET out == {lru[i] : i \in (Len(lru) - k + 1)..Len(lru)} IN
    /\ lru' = SubSeq(lru, 1, Len(lru) - k)
    /\ valid' = valid \ out
    /\ resident' = resident - k
    /\ committed' = committed \ Slices(out)
    /\ filled' = filled \ Slices(out)

\* The seeded bug of EvictStep: what this load staged is not spared.
EvictUnguarded == EvictTails(Evictions(OverBudget))

\* Another: the loop is a single test.
EvictOnce == EvictTails(IF Evictable(0) THEN 1 ELSE 0)

\* The eviction loop of both loads.
EvictStep == EvictTails(Evictions(Evictable))

\* The load's last step: cold entries go until the budget is met.
Evict ==
    /\ pc = "evict"
    /\ EvictStep
    /\ pc' = "issue"
    /\ UNCHANGED <<il, ids, overlap, staged, budget, batch, specq, threads, cand>>

---------------------------------------------------------------------------
(* What the router hook does after the load: retain, then prefetch.        *)

\* The layers it speculates for: route-ahead the one Ahead layers on, the
\* predictors any of the next Ahead.
Targets == IF Adopt THEN {il + Ahead} \intersect Layer
                    ELSE ((il + 1)..(il + Ahead)) \intersect Layer

\* Route-ahead settles first, unless the relaxed look at spec_done_pending_
\* misses a completion.
IssueSettle ==
    /\ Adopt /\ pc = "issue"
    /\ spec_done # <<>>
    /\ Integrate
    /\ UNCHANGED <<where, budget, pages, batch, spec_jobs, spec_remaining, spec_touched,
                   threads, cand>>

\* Of the experts asked for, the resident ones are retained (promoted), and the
\* others that are not queued already are prefetch's candidates.
Issue(asked) ==
    LET todo == {e \in asked : e \notin valid /\ spec_remaining[e] = 0} IN
    /\ pc = "issue"
    /\ lru' = PromoteAll(lru, Ascending(asked \intersect valid))
    /\ cand' = Ascending(todo)
    /\ pc' = IF todo = {} THEN "matmul" ELSE "prefetch"
    /\ UNCHANGED <<il, ids, overlap, valid, staged, resident, budget, pages, batch, specq,
                   threads>>

\* The hook has nothing to issue.
NoIssue ==
    /\ pc = "issue"
    /\ pc' = "matmul"
    /\ UNCHANGED <<il, ids, overlap, cache, pages, batch, specq, threads, cand>>

\* The candidates whose every page could be committed, and the one after them.
Queued(k) == SubSeq(cand, 1, k)
NotCommitted(k) == {cand[i] : i \in {k + 1} \intersect DOMAIN cand}

\* The candidates' pages are committed, and their jobs published together; a
\* failed commit hands back that candidate's pages and stops there.
Prefetch(k) ==
    /\ pc = "prefetch"
    /\ k = Len(cand) \/ "spec_commit" \in Faults
    /\ LET new == ToSet(Queued(k)) IN
         /\ committed' = (committed \ Slices(NotCommitted(k))) \union Slices(new)
         /\ filled' = filled \ Slices(NotCommitted(k))
         /\ spec_jobs' = spec_jobs \o EntryMajor(Queued(k))
         /\ spec_remaining' = [e \in Entry |-> IF e \in new THEN Projs ELSE spec_remaining[e]]
         /\ spec_touched' = spec_touched \union new
    /\ cand' = <<>>
    /\ pc' = "matmul"
    /\ UNCHANGED <<il, ids, overlap, cache, batch, spec_done, threads>>

\* The expert matmul of layer il: under overlap it waits for every flag, or for
\* fatal_, which the abort callback turns into an abandoned graph.
MayConsume == overlap => fatal \/ (ToSet(ids) \X Proj) \subseteq ready

Matmul ==
    /\ pc = "matmul"
    /\ MayConsume
    /\ IF fatal THEN pc' = "aborted" /\ UNCHANGED <<il, ids>>
       ELSE pc' = "route" /\ il' = (il + 1) % Layers /\ ids' = <<>>
    /\ UNCHANGED <<overlap, cache, pages, batch, specq, threads, cand>>

\* cancel(): the abort callback abandons the token between two nodes of its
\* graph, with the batch of the layer perhaps still being read.  The next token
\* starts at the first layer.
Cancel ==
    /\ "cancel" \in Faults
    /\ pc = "matmul" /\ ~fatal
    /\ pc' = "route" /\ il' = 0 /\ ids' = <<>>
    /\ UNCHANGED <<overlap, cache, pages, batch, specq, threads, cand>>

---------------------------------------------------------------------------
(* Between two decodes.                                                    *)

BetweenDecodes == pc = "route" /\ il = 0

\* set_cache_budget: growing evicts nothing and needs no quiesce.
Grow(b) ==
    /\ BetweenDecodes
    /\ b > budget
    /\ budget' = b
    /\ UNCHANGED <<where, valid, staged, lru, resident, pages, batch, specq, threads, cand>>

\* Shrinking quiesces first ...
ShrinkBegin ==
    /\ BetweenDecodes
    /\ \E b \in Budgets : b < budget
    /\ pc' = "shrink"
    /\ UNCHANGED <<il, ids, overlap, cache, pages, batch, specq, threads, cand>>

\* ... and then evicts to the new budget, whatever this generation staged.
ShrinkTo(b) ==
    /\ pc = "shrunk"
    /\ b < budget
    /\ budget' = b
    /\ EvictTails(Evictions(LAMBDA n : n < Len(lru) /\ resident > b + n))
    /\ pc' = "route"
    /\ UNCHANGED <<il, ids, overlap, staged, batch, specq, threads, cand>>

\* set_overlap(true): lane 0 gets a worker.
OverlapOn ==
    /\ BetweenDecodes
    /\ ~overlap /\ TRUE \in Modes
    /\ overlap' = TRUE /\ lane0_stop' = FALSE
    /\ UNCHANGED <<pc, il, ids, cache, pages, batch, specq, lane, io_stop, cand>>

\* set_overlap(false): once the last batch is over lane 0 is told to stop ...
OverlapOff ==
    /\ BetweenDecodes
    /\ overlap /\ FALSE \in Modes
    /\ BatchDone
    /\ pc' = "joining" /\ lane0_stop' = TRUE
    /\ UNCHANGED <<il, ids, overlap, cache, pages, batch, specq, lane, io_stop, cand>>

\* ... and joined, and belongs to the eval thread again.
OverlapOffJoin ==
    /\ pc = "joining"
    /\ lane[0] = Gone
    /\ pc' = "route" /\ overlap' = FALSE
    /\ lane' = [lane EXCEPT ![0] = Nobody]
    /\ UNCHANGED <<il, ids, cache, pages, batch, specq, lane0_stop, io_stop, cand>>

\* shutdown: every waiter is released and every lane told to stop ...
Shutdown ==
    /\ BetweenDecodes \/ pc = "aborted"
    /\ pc' = "stopping"
    /\ fatal' = TRUE /\ io_stop' = TRUE
    /\ spec_jobs' = <<>>
    /\ lane' = Disowned
    /\ UNCHANGED <<il, ids, overlap, cache, pages, jobs, undone, ready, io_err,
                   spec_remaining, spec_done, spec_touched, lane0_stop, cand>>

\* Every worker thread has returned.
Joined == \A n \in Lane : Served(n) => lane[n] = Gone

\* ... and joined before the buffers are released.
Release ==
    /\ pc = "stopping"
    /\ Joined
    /\ pc' = "off"
    /\ jobs' = <<>> /\ undone' = 0 /\ spec_done' = <<>> /\ spec_touched' = {}
    /\ committed' = {} /\ filled' = {}
    /\ UNCHANGED <<il, ids, overlap, cache, ready, io_err, fatal, spec_jobs, spec_remaining,
                   threads, cand>>

Ended == pc = "off" /\ UNCHANGED vars

---------------------------------------------------------------------------
Quiesce ==
    \/ ~Adopt /\ CancelSpec("quiesce", "cancelled")
    \/ FinishQuiesce("cancelled", "stage")
    \/ AdoptBegin \/ AdoptPull \/ AdoptEnd

Load ==
    \/ Stage
    \/ \E k \in DOMAIN Visited, n \in Proj : StageFails(k, n)
    \/ StageSecondWave
    \/ \E k \in DOMAIN SecondWave, n \in Proj : SecondWaveFails(k, n)
    \/ InlineRead \/ InlineReadFails
    \/ DrainEnd
    \/ Evict

Speculate ==
    \/ IssueSettle
    \/ \E asked \in SUBSET (Targets \X Expert) : asked # {} /\ Issue(asked)
    \/ NoIssue
    \/ \E k \in 0..Len(cand) : Prefetch(k)

Shrink ==
    \/ CancelSpec("shrink", "shrink_cancelled")
    \/ FinishQuiesce("shrink_cancelled", "shrunk")
    \/ \E b \in Budgets : ShrinkTo(b)

\* What the eval thread is committed to finishing, and what it may begin.
Continue == Quiesce \/ Load \/ Speculate \/ Matmul \/ Shrink \/ OverlapOffJoin \/ Release
Start ==
    \/ \E s \in BoundedSeq(Expert, TopK) : s # <<>> /\ BeginLoad(s)
    \/ Cancel
    \/ ShrinkBegin \/ \E b \in Budgets : Grow(b)
    \/ OverlapOn \/ OverlapOff
    \/ Shutdown \/ Ended

Next == Continue \/ Start \/ \E n \in Lane : LaneStep(n)

Spec == Init /\ [][Next]_vars

\* The eval thread finishes what it began, and every lane goes on: a read
\* returns, and a worker woken by a published job takes it.
FairSpec == Spec /\ WF_vars(Continue) /\ \A n \in Lane : WF_vars(LaneStep(n))

---------------------------------------------------------------------------
(* Correctness.                                                            *)

Routable == ToSet(ids) \X Proj

\* What a compute thread may read now: under overlap a routed slice whose flag is
\* up, serially every routed slice once the load has returned.
Consumable ==
    IF fatal \/ pc \notin {"wave2", "evict", "issue", "prefetch", "matmul"} THEN {}
    ELSE IF overlap THEN {<<<<il, f[1]>>, f[2]>> : f \in Routable \intersect ready}
    ELSE IF pc = "matmul" THEN {<<<<il, f[1]>>, f[2]>> : f \in Routable}
    ELSE {}

\* Whatever the expert matmul may read holds its bytes: a slice is never consumed
\* before its read landed, nor after its pages were given back
\* (load_layer's promise, on_expert_ready's flags).
MatmulSafe == Consumable \subseteq filled \intersect committed

LaneSlices(what) == {lane[n].slice : n \in {m \in Lane : lane[m].doing = what}}

\* No lane reads, or will read, into pages that were given back: eviction, the
\* release of an unfinished speculation and the teardown all come after the reads
\* they could hit (the comments at set_cache_budget and at the end of
\* load_layer_async).
InFlightCommitted ==
    LaneSlices("batch") \union LaneSlices("spec") \union ToSet(jobs) \union ToSet(spec_jobs)
        \subseteq committed

\* The LRU list holds the resident entries, each once, and cresident_ is their
\* number: an entry outside the list could never be evicted, and one linked
\* twice makes the list a cycle.
LruExact ==
    /\ ToSet(lru) = valid
    /\ IsInjective(lru)
    /\ resident = Cardinality(valid)

\* No committed page is outside the books: it belongs to a resident entry or to
\* a speculation under way (release_entry_pages' comment).
LedgerExact ==
    ~fatal => committed \subseteq Slices(valid \union Pending \union ToSet(spec_done))

\* A resident entry holds its bytes, but for what the batch in flight brings.
ValidHasBytes ==
    ~fatal =>
    \A s \in Slices(valid) :
        \/ s \in filled
        \/ s \in ToSet(jobs) \union LaneSlices("batch")
        \/ pc = "wave2" /\ s[1] \in staged

\* A speculation that was counted complete is: every slice of it was read.
DoneHasBytes ==
    \A e \in ToSet(spec_done) : spec_remaining[e] = 0 => Slices({e}) \subseteq filled

\* No slice is asked of the storage twice at once: a read queued or in flight is
\* adopted or cancelled before the demand load asks for the same bytes.
ReadOnce ==
    LET queue == jobs \o spec_jobs
        inflight == {n \in Lane : lane[n].doing \in {"batch", "spec"}}
    IN
    /\ IsInjective(queue)
    /\ \A n \in inflight :
          /\ lane[n].slice \notin ToSet(queue)
          /\ \A m \in inflight \ {n} : lane[m].slice # lane[n].slice

\* A load never leaves the cache above its budget, unless by what it staged.
WithinBudget ==
    (pc = "matmul" /\ ~fatal /\ ~Adopt) => resident <= budget \/ valid \subseteq staged

\* A load that began is answered: the eval thread comes back for the next layer,
\* or the graph is abandoned - whatever the lanes read meanwhile.
LoadReturns == (pc = "quiesce") ~> (pc \in {"route", "aborted", "off"})

\* The teardown ends: every lane can be joined.
ShutdownEnds == (pc = "stopping") ~> (pc = "off")
=============================================================================
