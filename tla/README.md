# Verification of BigMoeOnEdge

BigMoeOnEdge runs mixture-of-experts models that are larger than the memory of the machine: the dense
weights stay resident, and the experts a token routes to are read from storage as the graph reaches
their layer. Around that engine there is a server with a line of turns, a background loader, downloads
and agents.

This directory holds TLA+ modules that model the parts of the engine and of the server whose
correctness depends on an order of events, the TLC configurations that check them on small instances,
and proofs, checked by TLAPS, of the properties that matter most. Source paths below are relative to
`src/`.

- [The system](#the-system): its parts, their state, their operations, how they interact, what is hard
- [Modules](#modules): what models what
- [Runs](#runs): what each checks, the bounds, the fairness
- [Findings](#findings): where the code and its documentation disagree
- [Proofs](#proofs): what holds for every value of the constants, and why
- [What is not modelled](#what-is-not-modelled)
- [Plan](#plan)

## The system

### The parts that carry the program's own logic

| part | state | operations | interacts with |
|---|---|---|---|
| expert streamer, `core/src/moe/expert_stream_source.cpp` | per entry (layer, expert): resident or not, the stamp of the load that touched it, its place in an intrusive LRU list; the batch in flight; readiness flags per expert and projection; the speculative queue with a counter per entry; `fatal_`, `io_error_` | `load_layer` (serial), `load_layer_async` (overlap), `prefetch`, `retain`, `quiesce_spec`, `set_cache_budget`, `set_overlap`, `shutdown` | called by the router hook on the eval thread; its I/O lanes run beside it; compute threads ask `on_expert_ready` |
| expert readiness, `on_expert_ready` and `io_drain` there | flags with a generation, `ready_waiters_`, a mutex and a condition variable | publish without the mutex, register, look again, sleep, notify | lanes against compute threads |
| router hook, `core/src/moe/router_hook.cpp` | the ranking kept per layer, the terminal weight node learned per layer, the layer whose load is put off; a prediction worker with one job and one result slot | at each top-k: close the layer before, read the routing, commit a ranking, ask for the next, load or put the load off; at a weight node: drop and load; the worker: rank | drives the streamer; called by the graph's eval callback |
| device expert arena, `core/src/moe/device_arena.cpp`, and prefill, `core/src/engine/prefill_path.cpp` | slots of a layer's size, a queue of uploads, counts per layer; what the cache yielded for the slots | `place`, `release`, `begin_graph`, `barrier`, `dense_barrier`, `end_graph`, the loader threads | the prefill graph on a device; the cache's budget, which the brake may halve |
| row stream, `core/src/moe/row_stream.cpp` | slabs with a stamp and an LRU list under a budget | gather | the eval thread |
| stall union, `core/src/moe/stall_union.h` | a count and an open stamp | enter, leave | compute threads |
| session, `core/src/engine/session.cpp` | the context, the prompt it holds, the cancel latch, a routing record | `generate`, `decide`, `cancel` | owned by the engine host; drives checkpoints, trials and the cache brake |
| context checkpoints, prompt stream, decisions, `core/src/engine/` | saved partial states; a token list with image spans; the last prefix | save, restore, common prefix, truncate | the session |
| knob trial, cache brake, `core/src/engine/` | windows of an A/B trial; a median over a window | begin, end, interrupt | the session; the brake changes the streamer's budget |
| turn queue, `server/turn_queue.cpp` | `next_ticket_`, `serving_`, the tickets given up | `enter`, `leave`, `waiting` | every chat and decision of the server |
| engine host, `server/engine_host.cpp` | `state_`, `session_`, the last turn's figures, what was handed on of the routing record, the loader thread, three mutexes | `load`, `unload`, `cancel`, `chat`, `decide`, `info` | the HTTP server's workers, the turn queue, the session, the event bus |
| event bus, `server/event_bus.cpp` | bounded queues of frames | subscribe, publish, close_all | host and services publish; one HTTP stream per subscriber |
| model library, `server/model_library.cpp` | one job per catalog entry, the files on disk | start, cancel, delete, the download thread | curl's process, the digest, the settings |
| agent, `server/agent.cpp` | one run per conversation, approvals, tasks | start, stop, approve, edit, shutdown, the scheduler | the engine host, the stores, the event bus |

The other parts (planning, metrics, parsing, stores, HTTP, command line, desktop, web interface) are
listed with their reasons under [What is not modelled](#what-is-not-modelled).

### How a token is computed

The eval thread runs the graph and is stopped at each layer's top-k. The router hook reads the routed
experts and asks the streamer to stage them. *Serially* the load blocks until every slice was read, and
the matmul runs after it. Under *overlap* the load publishes a batch and returns; the compute threads ask
for each slice as they need it and wait for the flag a lane raises. In both modes idle lanes may read
experts of later layers: *guesses*, which a load cancels, or, under *route-ahead*, experts the model
already chose, which a load adopts.

### How a turn is served

A request takes a ticket, waits until its turn, waits out a load that was announced, takes the generation
lock, picks the session, and generates. Loads and unloads come from other threads. They cancel the turn in
progress; the loader thread drops the old session with the generation lock held and then opens the new one.

### What is hard, and what correctness means

| part | hard because | correct when |
|---|---|---|
| expert streamer | eviction, cancellation and release of pages run beside reads into pages; a flag names an expert, not a layer; reads and commits fail half way; modes and budgets change between decodes | a matmul reads only bytes that were read for it; no read writes into pages given back; the LRU list, the count and the pages agree; every load returns |
| expert readiness | the publisher does not take the mutex unless it sees a waiter | no wake-up is lost, nobody waits for a read that is not coming |
| turn queue | the client is asked without the lock while its turn may come | one turn at a time, nobody in line is passed over or forgotten |
| engine host | three locks, five threads, state read under one hold of `m_` and used under another; turns that fail while a load is announced | nothing is taken from under a turn, one model resident at a time, figures belong to the model they are shown for, everything returns |
| router hook | a worker of any speed with one slot each way; a token's rankings outlive it; the node a decision waits for may not come | a token is routed by itself or by its own ranking; a ranking in time is not thrown away; a layer is loaded before its matmul |
| device arena, prefill | a slot is refilled two layers later; a graph may stop early; the slots are paid for by the cache | what the device computed on was in place, or the decode says that it failed; a graph that stops leaves nothing behind; the cache gets its budget back |
| session, checkpoints, decisions | a dozen ways out of a turn; two contexts; memories that refuse a cut; drafts ahead of what was emitted | the record is what the context holds, the draft stands where the target does, a turn that failed leaves nothing |
| model library | a cancel, a delete and a restart race a process, a rename and a digest | a file that is listed is complete, and every job ends |
| agent | counted before its thread exists; an approval races a stop and the card; looked at, then cut | shutdown ends and leaves no thread; a change is made on the yes given to it |
| event bus | closed at one instant, subscribed at another | every stream ends at stop |

`PROJECT.json` lists each hazard at its line, with the properties that cover it or the reason none does.

## Modules

| module | models | lines |
|---|---|---|
| `Line` | what the turn queue promises: a bounded first-come queue whose members may leave from the middle | abstract |
| `TurnQueue` | `server/turn_queue.cpp`, with the refinement mapping to `Line` | whole |
| `MCTurnQueue` | an instance | |
| `ReadyWait` | `on_expert_ready` against `io_drain` and the ways a run goes fatal | the readiness protocol |
| `ExpertStream` | loads, cache, speculation, lanes, changes of budget and mode, teardown | `expert_stream_source.cpp`, and the order of the router hook's calls |
| `RouterHook` | route-ahead with its worker and watchdog, expert dropping | `router_hook.cpp`: the top-k, the weight chain, the worker |
| `DeviceArena` | uploads of a layer's weights against the device's computation; who pays for the slots | `device_arena.cpp`, `prefill_path.cpp` |
| `Conversation` | the turns of a session on its context | `session.cpp` from `begin_generate` to `finish`; checkpoints; `run_decide`; the prefix cache |
| `EngineHost` | `server/engine_host.cpp` past the line of turns | `load`, `unload`, `cancel`, `chat`, `decide` |
| `Downloads` | jobs, attempts, cancels, deletes, restarts | `model_library.cpp` |
| `AgentRuns` | runs, approvals, tasks, shutdown | `agent.cpp` |
| `TurnQueue_proofs`, `ReadyWait_proofs`, `ExpertStream_proofs`, `RouterHook_proofs`, `DeviceArena_proofs`, `Conversation_proofs`, `EngineHost_proofs`, `AgentRuns_proofs` | theorems about the module they are named for | |

Each module has an MC module; where its configurations pick from sets, they are defined there.

Modules keep the code's names where they can (`serving`, `gone`, `spec_remaining`, `last_turn`), and
`PROJECT.json` maps each definition to its lines. Definitions headed "MUTANT of ..." are not part
of a specification: each is an operator with a plausible mistake in it, put in place of the one it is named
after to see that a property notices.

### TurnQueue

`enter()` is several critical sections of `m_`, and each is an action: taking a ticket (`Enter`,
`EnterFull`), a wake-up of `wait_for` (`WakeServed`, `WakeAsk`), and coming back from `still_wanted()`, which
is called without the lock (`AnswerStay`, `AnswerGone`). `leave()` is one, with `skip_gone_locked()` in it
(`SkipsTo`). `pc[c]` says where a caller is; `ticket[c]` is its local variable. `InLine` is the `size_t`
difference the code computes; `CountIsExact` says that it never wraps.

`Line` keeps a sequence of callers and who has begun. The mapping sends a state of `TurnQueue` to its live
callers in the order of their tickets. `Begin` is separate from `Join` because the head of the line may have
been passed the turn and not yet have woken.

### ReadyWait

One action per sequentially consistent access or per hold of `ready_mtx_`. A lane takes a job, reads,
stores the flag (without the mutex), looks at the number of waiters, and tells if there is one. A compute
thread spins, registers, looks again, takes the mutex, sleeps, leaves. The eval thread publishes a batch
with an optional second wave and may give the run up. A flag that carries the current generation is *up*;
`Publish` lowers the others, as the new generation does.

### ExpertStream

The eval thread has a program counter; each action is a hold of `io_mtx_`, or a stretch of code that touches
only what the eval thread owns. A lane is idle, in a read of the batch, about to count a read whose flag is
up, in a speculative read, or has returned. An entry is a pair of a layer and an expert, a slice a pair of
an entry and a projection. The correspondence:

| code | model |
|---|---|
| `cvalid_`, `cstamp_ == cgen_`, LRU links, `cresident_`, `cache_max_` | `valid`, `staged`, `lru`, `resident`, `budget` |
| committed pages, bytes in them | `committed`, `filled` |
| `jobs_[next_idx_..)`, `batch_njobs_ - done_cnt_`, flags carrying `async_gen_` | `jobs`, `undone`, `ready` |
| `spec_jobs_[spec_next_..)`, `spec_remaining_`, `spec_done_`, `spec_touched_` | the same names |
| a job's copy of `spec_gen_` against `spec_gen_` | `owned` in a lane |
| `quiesce_spec` | `CancelSpec`, `FinishQuiesce`; under route-ahead `AdoptBegin`, `AdoptPull`, `AdoptEnd` |
| `load_layer`, `load_layer_async` | `BeginLoad`, `Stage`, `StageFails`, `StageSecondWave`, `SecondWaveFails`, `InlineRead`, `DrainEnd`, `Evict` |
| `retain`, `prefetch` | `Issue`, `Prefetch` |
| the matmul with its readiness callback, an aborted graph, a cancelled token | `Matmul`, `Cancel` |
| `set_cache_budget`, `set_overlap`, `shutdown` | `Grow`, `ShrinkBegin` to `ShrinkTo`; `OverlapOn`, `OverlapOff`, `OverlapOffJoin`; `Shutdown`, `Release` |

Of the loads: with the second wave, promotion of the hits comes after both waves (`StageSecondWave`), a wave that
fails has committed some of its pages (`SecondWaveFails`), and a batch published after the run went fatal is
refused (`BeginLoad` ends at `aborted`). A candidate of `prefetch` whose commit fails gives its pages back
(`NotCommitted`). A cancelled speculation that was complete goes to the cold end of the list, an adopted one to
the hot end (`Integrate`).

`Unlink` keeps what `lru_unlink` does to an entry that is not linked: it empties the list. That is why
`LruExact` is worth checking. `filled` and `committed` are not in the code: they say what the pages hold,
which is what the properties are about.

Abstracted: all entries have one size, and a budget counts entries; a flag's 32-bit generation does not wrap;
the calls of `prefetch` one node makes are one `Issue`; waits on condition variables under `io_mtx_` are
guards (the one wait that is lock-free on one side is `ReadyWait`).

### RouterHook

The eval thread walks the nodes of a graph: `at` is the node, `layer` its layer. One top-k is three steps,
cut where the worker can come between: `CloseDrop` (with `CloseCollect`) ends the layer before,
`TopkCollect` pops a finished ranking, `SubmitCommit` samples the watchdog, asks for the layer `Depth` on,
commits what is kept for this one and decides whether the load waits. Then `Load` and `LoadCollect`, or the
weight chain: `PassChain`, or `ApplyDrop` and `DropCollect`. The worker takes (`Take`), ranks, and delivers
or cannot (`Deliver`, `Unscored`).

| code | model |
|---|---|
| `ra_pred_[nl]`, `pred_result_`, `pred_job_`, `pred_seq_` | `pred[nl]`, `result` and `ready`, `job` and `pending`, `pred_seq` |
| `term_variant_`, `drop_`, `chain_last_` | `term`, `drop_layer` and `deferred`, `chain_last` |
| the ids in the top-k node | `ids`: by which ranking, and which slots still name their own expert |
| what `load_layer` was given | `loaded` |

A ranking is the number of the graph whose hidden state it was made from: whether it is the token's own is
all that matters. `bare` counts how often a layer's matmul ran unloaded since it was loaded in time, `due`
collects the layers whose ranking was ready before the next top-k began, `early` those whose reads were
started: no variable of the code, they are what the properties are about. Which weight nodes a graph has
may differ from one graph to the next, which routers are on the host may not.

### DeviceArena

`place()` puts the experts on the device for a prompt and takes the slots' bytes from the cache
(`PlaceOnDevice`), `begin_graph()` queues the first layers, the graph reports the node of each layer
(`Barrier`, `DenseBarrier`) and waits there for the counts (`BarrierReturns`, `DenseBarrierReturns`); a
loader takes an upload, writes, and counts down (`Take`, `Upload`, `CountDown`). An upload spoils what
another layer had in the same slot, so a computation that reads a spoilt slot is `wrong` for the rest of
the graph. The end of a layer may go unreported, as `router_hook.cpp:1281-1288` allows: `Misses` names the layers
whose end may. The only look at what was missed is `barrier()`'s, at a routing node (`device_arena.cpp:593-596`);
`MissesNoticed` says that a layer with dense weights behind one of `Misses` has such a node. `Brake` halves the
cache between two prompts.

### Conversation

A memory is the sequence of its tokens, and so is the record `kv`; the model's answers are any tokens. A turn
goes from `BeginGenerate` through the reuse of the prefix (`ReuseKvPrefix`), the pieces of the prompt, the
steps of decoding with drafts accepted to any length, to the trim and one of the exits; each way out that the
code has is an action. A target or draft memory may refuse to be cut, then the longest checkpoint that fits
is restored, or nothing is kept. `LoadsState` says whether that one always loads; if not, it may be passed over
for an older one (its sliding window starts too late), or fail and leave the draft's part loaded or half loaded. Raw prompts, scored texts and decisions run on the same context. `foreign`
marks that a raw prompt or a scored text went in: the promises about the record are for chats.

### EngineHost

`life_m_` is held across `load()` and `unload()`, `gen_m_` across a turn and across the loader's work, `m_`
around each touch of the state. One hold of `m_` is one action, and whatever lies between two holds may
interleave. `at[c]` walks `chat()` and `decide()`: `check` and `recheck` are the two looks of `take_turn()`,
`pick` the copy of the session, `announce` the hold that sets `generating_`, `begin` the reset of the latch
in `generate()`, then the exits. `call[p]` walks `load()`, `unload()` and `cancel()`, and `loader` the thread.
Sessions are numbered as they open, so that "the figures are the loaded session's" can be said.

`generate()` and `decide()` belong to the session and are modelled by what the host sees of them: they clear
the latch, may be told to stop, and end with a full answer, a cut one, a refusal, or a fatal error.

The turn queue is taken at its word: at most one client is past `enter()` (`OneTurn`), and one that waits is
granted (`Served`). `load()` is called with the HTTP server's `load_m` held, so one at a time.

### Downloads

A job is a record with the step its thread is at: the next file, starting curl, registering the process,
polling it, what its exit means (done, an attempt more, the end), the wait between attempts, the digest, the
rename. The routes take `m_` and are one step, except `cancel_download`, which sets the flag and then ends
the process (`Cancel`, `Terminate`). A part is empty, partial, whole, something else, or too long.

An entry may be forgotten (`Forget`) and added again, with the same files or others (`Add`, `ListsOf`): one that
is listed is replaced (`:155-160`), while its job goes on with the files it began with. `hidden` marks such a job:
`delete_model` looks for the files in use by the entries as they are listed, so it does not see this job's.

`Crash` kills the server and keeps the disk. Nothing in the code ends curl with it: each curl that ran goes on
writing the part it was started for (`left`, `LeftWrites`) until it ends by itself (`LeftEnds`), beside the
restarted server and, where `Overlap` allows it, beside the curl of the new job. What it writes when the part was
renamed meanwhile goes into the file.

A transfer may end as a success with any bytes, too few included (`CurlEnds` does not look at the part); only
where the catalog names a size (`Sized`) is that noticed (`AfterCurl`), and a file without a size counts as there
if there is any (`HasExactSize`).

### AgentRuns

`pc[r]` is where the thread of a run is: its rounds with the model, a tool, an approval (`OpenSlot`,
`ShowCard`, `Decide`, `Sleep`), the change itself, the end of a task, and the two halves of its exit: counted out
under `m_`, then over. `at[w]` is where an HTTP worker is in `send`, `edit`, `remove_conversation`, `approve`
or `stop`, or the scheduler in a task. `start()` is three steps (`Register`, `Reap`, `Spawn`), as it takes
other runs' threads out of the books before its own thread exists. The thread may fail to start
(`SpawnFails`, `agent.cpp:965`): the run then stays in the books. A task or a conversation in `Full` changes things
without asking (`Plan`, `Asks`). `shut` and `told` follow `shutdown()`.
`said` records which answers people gave, which is what an approval is compared with.

## Runs

Each passing run searches its whole state space. Bounds are constants named in the modules (`MaxTickets`,
`MaxTurns`, `MaxCalls`, `MaxBatches`, `MaxRuns`, ...) or small values of the system's own parameters. The
properties of a run are the ones listed here; a module may state more, which are proved or are checked by
hand with a configuration named below.

### turns

Four callers, two may wait, six tickets; 67 thousand states.

- `OneTurn`: at most one caller has the turn.
- `Served` (liveness): whoever waits is granted or gives up.
- `ImplementsLine`: every step of the tickets is a step of `Line` or a stutter.

Four callers and a bound of two make the line full with one more in front of it; six tickets let two
neighbours give up between two that stay, which `skip_gone_locked()` must pass in one go, and let a caller
come back.

### ready_wait

Two threads, two lanes, two flags; 80 thousand states. `NoLostWakeup`, `NobodyWaitsInVain`, and
`EveryoneGoesOn` (liveness), with failed reads, failed second waves, foreign layers and the teardown. Two of
each suffice for one thread to sleep on the other's flag, for a lane to look at the count while another
stores, and for a notify meant for one to wake the other. The run does not check for deadlock: a compute with
nothing to do, or a run that went fatal, may stop.

### The streamer

| run | instance | asks |
|---|---|---|
| `stream_overlap` | 2 layers of 2 experts of 2 projections, 2 lanes, budget 2, two waves; demand reads and commits fail, tokens are cancelled | `MatmulSafe`, `LruExact`; 424 thousand states |
| `stream_switch` | 2 x 2 x 1, two lanes, budgets 1 and 2, both modes, reads and speculation fail | `InFlightCommitted`, `LedgerExact`, `DoneHasBytes`, and `ShutdownEnds` (liveness); 603 thousand |
| `stream_ahead` | 3 x 2 x 2, two lanes, two layers ahead, budgets 1 and 2, both modes | `ReadOnce`, and `LoadReturns` (liveness); 78 thousand |

- `MatmulSafe`: whatever the matmul may read was read and is still committed. Under overlap this is about
  the moment a flag is up, at any point of the batch; serially about the moment the load returned.
- `InFlightCommitted`: no queued or running read goes to pages that were given back.
- `LruExact`: the list, the valid bits and the count are one set.
- `LedgerExact`: a committed page belongs to a resident entry or to a speculation under way.
- `DoneHasBytes`: a completed speculation holds its bytes.
- `ReadOnce`: no slice is asked of the storage twice at once under route-ahead.

Two layers let an expert's index be shared by two entries, so that a flag raised late would release the
wrong layer; a budget below the top-k makes every load evict. The three layers of `stream_ahead` are the
fewest for reads two layers ahead to be queued behind reads of the layer between. The faults of a run are
the ones under which its properties are promised; the others are in the findings and the table of violations.

### router

Four layers, two ahead, two slots per routing, three graphs, chains of none, one or two weight nodes, all
routers on the host or all but the second, drops in decodes only; the watchdog may trip, a graph may be
abandoned at any node; 3.4 million states.

- `CommitsOwnToken`: a token is never routed by a ranking made from another token's hidden state.
- `PunctualIsCommitted`: a ranking that was ready before the next layer's top-k began is the routing of its
  layer. This is what collecting before submitting is for (`router_hook.cpp:1419-1423`).
- `MatmulLoaded`: a layer's matmul names no expert that was not loaded, unless the graph lacks the node its
  load was put off to.
- `NoStandingBet`: that happens to a layer at most once before it is loaded in time again.

Four layers at depth two are the fewest in which a ranking is asked for while another, of the same token,
waits: a result can be late, in time, or written over. Three graphs let one learn the weight chain, one
believe it and one find it gone, and a ranking of the first reach the second. `MCRouterHookNext.cfg` (one layer ahead,
four graphs, 11 million states) was run by hand and passes.

### arena

Four layers, one of them without experts, in two slots, one loader, dense slots for layers 1 and 3, layer ends (of
1 and of 2) that may go unreported, a read that may fail; 1.29 million states.

- `RightOrRefused`: a decode on the device that answers success has computed every layer on its own weights.
- `SlotsFree`: between two graphs nothing is queued and no loader has anything to write.
- `BudgetBack`: the cache has its whole budget whenever the slots are not held.
- `WaitsEnd` (liveness): every wait of the session's thread ends.

Layers 0 and 3 are the first and the third with experts and share a slot: the fewest for an upload to reach a slot
that is still computed on; the layer without experts between them has no routing node. The one loader is enough for
that, as loaders only meet at the counts. In this instance `MissesNoticed` holds: of the two layers whose end may go
unreported, layer 2 comes before one with experts, and layer 1 before one without dense weights.
`MCDeviceArenaDense.cfg` is the instance where it does not hold.

### conversation

Two tokens and the end of a generation, a context of four tokens, pieces of two, answers of up to three,
drafts of up to two from a second context, both memories may refuse, two checkpoints; 388 thousand states.

- `KvAgrees`: between two turns the record is what the context holds, to the token.
- `PromptInPlace`: while a prompt is fed the context holds its beginning and nothing else.
- `DraftMirrors`: the draft context stands where the target stands, on the same tokens.
- `CheckpointsDescribe`: a checkpoint restores a beginning of what the record says.
- `AnsweredOnly`: between two turns every message was answered.
- `ScoresItsPrompt`: a decision is scored on its whole prompt, restored prefix included.

`MCConversationLoads.cfg` is the same instance with states that may not load, or load in part, and checkpoints passed
over (405 thousand states): run by hand it passes, with all of these but `DraftMirrors`, which is not promised there.

Two tokens tell two prompts apart at any position; with four, a prompt has more than one piece, an answer
goes past a draft that was half accepted, and the context can be full in the middle of a step.

### host

Two clients and two operators, two turns, three calls; 450 thousand states.

- `UnderTheTurn`: from its pick to its end the session a turn uses is the host's: no load and no unload takes
  it away.
- `OpenedAlone`: while a model opens, neither the host nor a turn holds another.
- `LastTurnOwn`: the figures shown are the loaded session's.
- `GoneStopsItsOwn`: a hang-up stops its own turn only.
- `TurnAnswered`, `CallReturns` (liveness).

Two turns and three calls are enough for a turn of the old model to end after the load of the new one was
announced, for a load and an unload to meet around one turn, and for a load to follow a load.

### downloads

One entry that is added with two files or with a third, two of them with a digest and two with a size, two attempts,
five calls, the server killed at any time and its curls living on; 672 thousand states.

- `DoneIsWhole`: when "done" is said every file of the job is there, with the bytes the catalog names where it names a
  digest and the number of them where it names a size: after cuts, transfers too short or too long, resumes, kills,
  deletes and restarts. A job that is `hidden` is excepted.
- `DownloadsEnd` (liveness): every download ends, and the library can be closed.

Two files let one be finished while the other is fetched; the third, in a list of its own, lets the entry be
replaced under a running job; two attempts let a retry follow a cut; five calls are a start, a cancel or a
replacement, a delete, and a start after a restart. The run has `Overlap = FALSE`: a file is downloaded again only
when the curl of the killed server has ended. That is an assumption about how people restart the server, which the
code does not ensure; `MCDownloadsOverlap.cfg` is the instance without it. Deadlock is not checked: with no call left the
library rests.

### agent

A conversation that asks and a task, two runs of up to two changes, two workers and the scheduler, three
calls, a shutdown at any moment; 953 thousand states.

- `NoneOutlives`: when `shutdown()` has returned every thread is joined.
- `ActsApproved`: a change of a conversation that asks is made on a yes to that very item, and none is decided on
  after a stop. A stop that comes after the decision is not heard: what was decided is done (`StopIsHeard` below).
- `CardAnswered`: an answer to a card that is shown is refused only after a stop or another answer.
- `ShutdownReturns` (liveness): unless a start got no thread for its run, which stays counted and is waited for.

Two runs let a start take the other's thread to join while the shutdown counts; two items let an answer to
the first come late. No run of this instance is in full mode, which the time for a run does not allow; the theorems
are about any `Full`, and `MCAgentRunsDiff.cfg` has one. Deadlock is not checked: after the shutdown nothing is left
to do.

### Fairness

- `TurnQueue`: `wait_for` times out every poll, so a caller in the loop runs again; the callback returns; a
  turn ends and its scope guard leaves. Nobody is bound to ask for a turn.
- `ReadyWait`: reads end; the eval thread finishes its load; a compute thread that asked goes on. Nobody is
  bound to begin, and a spurious wake-up is never relied on.
- `ExpertStream`: the eval thread finishes what it began and each lane goes on, a read returning one way or
  the other. Beginning a load, a change of budget or a teardown is not fair.
- `EngineHost`: a generation ends (it stops at its limit of tokens or at the latch), opening a model ends,
  and each call and turn goes on when it can. Hang-ups, cancels and spurious wake-ups are not fair. Weak
  fairness for a thread at a mutex is enough since the bounds allow only finitely many others to overtake
  it; the code's mutexes promise no more than that either.
- `DeviceArena`: each loader goes on, and the session's thread goes on once what it waits for has come.
  Which pieces a prompt has, and whether a graph stops early, is nobody's duty.
- `Downloads`: each job's thread runs, a transfer ends some time or with its process (curl is given no time limit,
  so this is assumed of the network), a cancel that set the flag goes on. No route has to be called, and the curl of
  a killed server need not end.
- `AgentRuns`: threads run on, a model or a tool returns some time, `shutdown()` goes on once it began.
  Nobody has to answer a card.
- `RouterHook`, `Conversation`: none. Their properties are safety; a worker that is stopped while the eval
  thread waits for it is a state in which nothing can happen, which the deadlock check would report.

## Findings

One run is expected to be violated: it checks a property that the repository states, and TLC finds a
behaviour of the code without it.

| run | what happens | what is stated |
|---|---|---|
| `stream_serial_fault`, `MatmulSafe` | a serial read fails, `load_layer` returns false with entries valid and unread (`expert_stream_source.cpp:1241`), the router hook drops the result (`router_hook.cpp:1477`), and the matmul runs on bytes nobody read | `core/include/bmoe/expert_source.h:21-29`: the load blocks until every routed slice is in place |

These are violated too. They are run by hand, each with the configuration named; where none is named the
property goes into the `PROPERTIES` of the module's own configuration.

| configuration, property | what happens | what is stated |
|---|---|---|
| `MCExpertStreamCancelShrink`, `InFlightCommitted` | a token is cancelled under overlap with its batch in flight, and `set_cache_budget` evicts an entry a lane is reading into (`:765`) | `:759`, `:764-765`: no worker is mid-write to an evicted page |
| `MCExpertStreamAheadFault`, `InFlightCommitted` | under route-ahead a failed read zeroes the counter of its entry while another read of it is in flight (`:610`); the entry is loaded on demand, evicted, and read into | `:1480-1482`: eviction only releases pages nobody is reading |
| `MCRouterHookEarly`, `EarlyIsKept` | a ranking of the last token is still collectable at the first layers of the next; its reads start, and the submission clears what they were for | `docs/settings.md:45`: its reads start early and can never be wasted |
| `MCEngineHostOvertaken`, `NoModelMeansNone` | a load is announced between `take_turn()`'s second look (`engine_host.cpp:337-338`) and the pick of the session (`:365-370`); the turn answers 503 | `server/engine_host.h:152-156`: a turn in that gap waits until the load ended |
| `MCEngineHostCancel`, `CancelHeard` | a cancel comes after the turn was announced (`engine_host.cpp:389`) and before `generate()` clears its latch (`session.cpp:2252`); the turn runs to its end | `tests/engine_host_test.cpp:9-10`: cancel during a turn stops it |
| `MCConversationDraft`, `DraftMirrors` | without checkpoints a target that refuses the trim at a turn's end is emptied together with its record, the draft is only cut; the next prompt finds an empty record and returns (`session.cpp:2557`) before it rewinds the draft | `session.cpp:2565-2569`: the draft has to be rewound to the same point, or the prompt is rejected |
| `MCConversationRaw`, `KvAgreesAlways` | a raw prompt is fed without the record saying so | `session.cpp:3175-3177`: what the context holds is what the record says |
| `MCConversationPpl`, `PplLeavesNothing` | a scored text leaves the chat's history | `session.h:267`: no conversation state is left behind |
| `MCDeviceArenaDense`, `RightOrRefused` | the end of a layer goes unreported before a layer without experts: nothing looks whether that one's dense slot was waited for (`device_arena.cpp:593-596` looks at routing nodes), and the decode answers success | `docs/npu-prefill.md:157-158`: a graph that skips a pacing point fails the decode rather than compute on a slot that never filled |
| `MCDownloadsOverlap`, `DoneIsWhole` | the curl of a killed server writes on while the restarted one downloads the same file; its bytes come after the digest or after the rename (`model_library.cpp:530`, `:604`, `:627`) | `server/model_library.h:28-30`: a download is checked before its `.part` becomes the file |
| `MCDownloadsForgotten`, `DeleteSpares` | an entry is forgotten or replaced while its download runs, `delete_model` no longer finds the files in use (`model_library.cpp:466-467`), and deletes a model of which the download writes a file | `server/model_library.h:106-108`: never a file a running download is writing |
| `MCDownloadsCancel`, `CancelStops` | a cancel between the start of curl and the registration of its process (`model_library.cpp:532-538`) ends nothing, the transfer goes on | `model_library.h:100`: stop a running download |
| `Downloads`, `EndsTheRunning` | a cancel signals a process that was waited for already | |
| `MCAgentRunsDiff`, `ApprovedIsApplied` | a change is planned again after its card was approved (`agent.cpp:714`), on a file that changed meanwhile | `agent.cpp:678-679`: the person approves the diff that a yes applies |
| `AgentRuns`, `StopIsHeard` | nobody looks at the stop between the decision (`agent.cpp:611`) and the change (`:714`): a change is made after a stop that came between | |
| `AgentRuns`, `EditSpares` | `edit()` looks whether the conversation runs, then cuts its items | |
| `AgentRuns`, `LastRunKept` | `finish_task()` reads a task and puts it back whole | |

What these refute is left out of the passing runs: a cancelled token together with a shrink, a failed
speculative read under route-ahead, a curl left over that meets a new one (`Overlap`), a missed end that nobody
notices (`MissesNoticed`), and `MatmulSafe` where serial demand reads fail (`stream_switch` has such
reads, and checks what still holds then). A commit that fails in a serial load ends as a read does, and no
passing run has it.

## Proofs

TLAPS checks these for every value of the constants: any number of callers, threads, lanes, flags, clients,
operators, runs, items, layers, experts, slots, words, drafts and checkpoints, and any bound. A theorem with a hypothesis names it in its
statement (`ASSUME SerialReads PROVE Spec => []MatmulSafe`).

| module | theorems | assumption |
|---|---|---|
| `TurnQueue_proofs` | `TypeCorrect`, `Invariant`, `OneTurnHolds`, `NeverStalledHolds`, `CountHolds`, `BoundHolds`, `TicketsAreTheLine` | `QueueAssumption`: finitely many callers, natural bounds |
| `ReadyWait_proofs` | `Invariant`, `NoLostWakeupHolds`, `NobodyWaitsInVainHolds` | `WaitAssumption`: finitely many threads |
| `EngineHost_proofs` | `Invariant`, `UnderTheTurnHolds`, `OpenedAloneHolds`, `ThreadHandledAloneHolds`, `LastTurnOwnHolds`, `GoneStopsItsOwnHolds` | `HostAssumption`: the names of lock holders are distinct, bounds are naturals |
| `AgentRuns_proofs` | `TypeCorrect`, `NothingOutlives`, `ApprovedOnly`, `CardsAnswered` | `AgentRunsAssumption`: tasks, conversations, workers and scheduler are apart, bounds are naturals |
| `RouterHook_proofs` | `TypeCorrect`, `OwnTokenCommitted`, `PunctualCommitted`, `LoadedForMatmul`, `OneBet` | `HookAssumption`: at least one layer, a depth of at least one, finitely many slots, finite chains |
| `DeviceArena_proofs` | `TypeCorrect`, `CountsAreExact`, `SlotsAreFree`, `AnswersAreRight`, `BudgetComesBack` | `ArenaAssumption`: at least one layer, expert and projection, any of the layers with experts and any with unreported ends, one or two slots, finitely many lanes, natural weights; `AnswersAreRight` also `MissesNoticed` |
| `Conversation_proofs` | `TypeCorrect`, `WholePrompt`, `AlwaysAnswered`, `RecordIsContext`, `PromptFedInPlace`, `CheckpointsAreTrue`, `DraftStandsWithTarget` | `ConversationAssumption`: the end of a generation and a gap are no tokens, positive sizes, natural bounds, a draft context only where there are drafts; `DraftStandsWithTarget` also `StateComesBack` |
| `ExpertStream_proofs` | `TypeCorrect`, `LruIsExact`, `Done`, `Ledger`, `Safe`, `FlightIsCommitted`, `OneRead` | `StreamAssumption`: natural sizes, at least one lane; and for each theorem the hypotheses below |

**TurnQueue.** `OneTurn` is not inductive: it says nothing of who is about to be granted. `IInv` pairs
tickets and callers: live callers hold different tickets, none of them given up and none below `serving`
(`LiveTickets`, `TicketsApart`); tickets given up lie ahead of `serving` (`GoneAhead`); and every ticket from
`serving` on is held or given up (`EveryTicketAccounted`). A runner's ticket is `serving`, so two runners hold
one ticket, which is `OneTurn`. `serving` itself cannot be among those given up, so it is held, which is
`NeverStalled`. The step that works is `Leave`: the skip stops at the first ticket not given up, and what it
passed leaves the list.

That the tickets implement `Line` (`TicketsAreTheLine`) rests on the same invariant. The line of a state is the
list of the live callers by increasing ticket. There is such a list (`OrderExists`, by counting who has no later
ticket) and only one (`OneOrder`), so a step is shown to be the line's by giving the list after it: `Enter`
appends, as the new ticket is the highest; `AnswerGone` takes one out, and not the head, whose ticket is
`serving` (`ServedIsHead`); `Leave` takes out the head; a granted caller begins. That `Join` respects the bound
needs the count: the tickets from `serving` on, less those given up, are as many as the callers
(`TicketsCount`), which is `CountIsExact` for every bound, and gives `Bounded`.

**ReadyWait.** No wake-up is lost because either the thread's last look comes after the store, and it does not
sleep, or its registration comes before the lane's look at the count, and the lane tells. The invariant says
just that: a thread asleep with its flag up has somebody on the way to tell it (`SomebodyTells`), a lane between
its store and its look counting as one while there are waiters. It needs the count to be exact (`CountExact`),
since a sleeping thread must make it nonzero: a fact about cardinalities, from the library of finite sets.
`NobodyWaitsInVain` is inductive with the types: a job leaves the batch only for a lane, and a lane only by
raising the flag.

**EngineHost.** `IInv` says who holds each lock (`GenHeld`, `LifeHeld`), what that protects (`UnderTheTurn`,
`OwnWhileHolding`, `ClosedUnlessReady`), and how figures, record and latch relate to the session (`Figures`,
`RecordsAfresh`, `GoneStopsItsOwn`). The turn and the loader exclude each other by `gen_m_`; loads and unloads
by `life_m_`; and after a join there is no thread, which is what lets `unload()` take `gen_m_`. `LastTurnOwn`
needs the loader's second clearing of the figures: a turn that ends after the announcement may have written them.

**AgentRuns.** Three invariants. `TypeInv` adds to the types that a step which works on an item, a task or a run
has one. `ApprovalInv`: a slot says yes only where somebody did (`YesIsSaid`); a card that is shown has its slot
waiting unless there was a stop or an answer (`CardsOpen`), which needs the slot to be there before the card;
answers are for cards (`AnswersCards`). `ApprovedOnly` is about the decision: that nothing is decided on after a stop,
and that what is changed was said yes to. `BooksInv` counts: `active_` is the number of runs whose thread is to come or not
counted out (`CountExact`), a start has its run to itself (`StartsOwn`), and a thread that was counted out is in
`finished_`, taken by a start, or left to the shutdown (`Accounted`). `NoneOutlives` alone says nothing of a start
that holds other runs' threads while the shutdown finds the books empty: it is counted itself.

**RouterHook.** `CommitsOwnToken` is about a ranking at the moment it is committed, three hand-overs after it was
asked for. `TokenInv` follows it: each of job, ranking and result names a layer past the first `Depth` whose
asking layer is on the host, and if it is the latest and that layer has been passed, it is this token's
(`ItemsInv`); nothing is worked on that was not asked for (`FlagsInv`); a ranking kept for a layer whose asking
layer has been passed is this token's, or none (`PredInv`). The last needs both the sequence number, without
which a late result would be kept, and the invalidation, without which a kept one would survive its token.
`PunctualIsCommitted` needs the order of the three slots (`OrderInv`: job, ranking and result only grow), that an
item of this graph is the latest until the next layer's submission (`LaterInv`), and `DueInv`: what was
delivered in time either waits with a collection to come before the next submission, or is kept.
`MatmulLoaded` and `NoStandingBet` share `DropInv`: `LoadInv` says what is loaded or put off at each node, and
`BetInv` that a layer that ran unloaded has its bet open or has forgotten its node, so it is loaded at the next
top-k or learned anew before it can bet again.

**DeviceArena.** `AnswersAreRight` follows an upload from the barrier that asks for it to the computation that
uses it. `Counting`: the count of a layer, and of a slot, is the number of its tasks queued or in a loader's hands
(a cardinality, so that a barrier which finds zero knows that nobody writes). `Graph`: what is queued or held was
asked for in this graph, and only a window of layers as wide as the slots is asked for, so no two layers in
it share a slot; what was waited for is quiet. `Bytes`: what was asked for and not passed is in place, queued, or
held; a layer's computation comes after its wait, unless its end went unreported, which its routing node then
finds where `MissesNoticed` holds. `Blamed`: where a read failed, the decode says so. `Bytes` and `Blamed` are
proved under `MissesNoticed`, which the code does not ensure: without it `AnswersAreRight` is false, as
`MCDeviceArenaDense.cfg` shows; the other theorems allow any `Misses`. `Yielding` is apart: a part of the cache is
yielded exactly while the device holds it, which is `BudgetBack`.

**Conversation.** `KvAgrees` speaks of the time between two turns; what makes it true is what every step of a
turn keeps. The invariant is built in layers, each preserved by a step under those before it:

| layer | says | gives |
|---|---|---|
| `Shape` | `Typed`: kinds, and no more checkpoints than allowed; `Undoes`: only a turn that is not over has something to undo; `Decided`: a decision is prefilled behind what was restored | `TypeOK`, `ScoresItsPrompt` |
| `Undone` | with what the turn said taken back, every message was answered | `AnsweredOnly` |
| `Record` | what the record says of the context at each place of a turn: all of it, the beginning of it while a prompt is fed or speculation ran ahead; every checkpoint is a beginning of it | `KvAgrees`, `PromptInPlace`, `CheckpointsDescribe` |
| `DraftStands` | the draft's memory holds what the target's does, or nothing, and no more than it does except between the last step and the trim; so does every checkpoint; a target that refuses cuts has a checkpoint no later than what was emitted | `DraftMirrors` |

Between the last step and the trim the context may be ahead of its record, by the drafts that were accepted past
the end of the answer; that is why `Record` says less at `parse` and gets the equality back at `Trim`. A cut may
be refused at any of these places, so the lemmas about `Restores` and `Keep` say what each may leave: the cut, the
state of a checkpoint together with the record cut to it, or nothing at all.

`StateComesBack` is needed: where the target refuses cuts, it has to have checkpoints that load. Without them the
trim at a turn's end empties the target and its record and leaves the draft where it was, which is what
`MCConversationDraft.cfg` `MCConversationDraft.cfg` shows. The other theorems allow it, and states that are passed over or load in part. Checkpoints are dropped by a loop over a list (`Only`),
a function recursive on an index like those of `ExpertStream`, and its lemma follows in the same way.

**ExpertStream.** The invariant is built in seven layers, each preserved by a step under those before it:

| layer | says | gives |
|---|---|---|
| `Types` | ranges; what the lanes may do at each place of the eval thread; `undone` is the number of reads the batch still owes | `TypeOK` |
| `Listing` | an expert is in a list once; the LRU list and `cvalid_`, the completions and the pending counters agree; under route-ahead only the layers ahead are asked for | `LruExact` |
| `Speculation` | a speculative read is queued or in flight once, for a pending expert; a pending expert owes exactly the pages it lacks; what is pending or complete is not resident | `DoneHasBytes` |
| `Batch` | a page of the current layer is queued, read or landed once, for a routed expert; between the waves nothing is owed | |
| `Books` | what is routed is resident and stamped, so eviction spares it; the pages of what is resident are committed, or the second wave's | `LedgerExact` |
| `Bytes` | what is resident holds its bytes, or the batch brings them; a raised flag means they are there | `MatmulSafe` |
| `Flight` | what a lane reads, or will, is committed, and nobody else reads it | `InFlightCommitted`, `ReadOnce` |

`LruExact` comes early because one wrong unlink empties the list; it needs the completions to be disjoint from
what is resident, and that needs the range of what route-ahead may ask for. `MatmulSafe` comes late: a routed
expert may be resident because it was staged, because it was there, or because a speculation of it was integrated
a moment ago, and each has its own reason to hold its bytes. `ReadOnce` needs batch and speculation to be about
different experts, hence `Speculation`'s separation of pending from resident.

The hypotheses are about `Faults`, `Modes`, `Adopt` and `Budgets`, and exclude what the code does not survive:

| hypothesis | excludes | because |
|---|---|---|
| `SerialReads` (`Safe`) | a failed read in a serial load | the result is dropped: the run `stream_serial_fault` |
| `SerialCommits` (`Ledger`, `Safe`) | a failed commit in a serial load | likewise |
| `CancelKeeps` (`FlightIsCommitted`, `OneRead`) | a cancelled token together with a change of the budget | `MCExpertStreamCancelShrink` |
| `AdoptsCleanly` (all but the first two) | under route-ahead, a failed speculative read | `MCExpertStreamAheadFault`: the entry is forgotten while its other slices are being read |
| `AdoptsCleanly`, `CancelOk` (`LruIsExact`) | under route-ahead, a cancelled token | the entry `spec_integrate_done` warns of (`expert_stream_source.cpp:945-951`): a completion that lands after `settle_spec` looked at its counter without the lock, and before the filter of the next issue, is staged anew and integrated twice. `FALSE` in `Adopt` or no cancel is what `LruExact` was proved for; with both, TLC refutes it |

Without route-ahead every theorem allows failed speculative reads and commits, failed overlapped reads and
commits, and, with a fixed budget, cancelled tokens. `TypeCorrect` has no hypothesis.

Loops over lists (what a selection keeps, what a fold of promotions leaves) are functions defined by recursion on
an index, or folds. The library's induction theorems cannot be used, as they take an operator as a parameter; but
that every nonempty set of naturals has a least element is first-order (`LeastNumber`), and a claim about one such
loop follows by its least counterexample. The lemmas at the head of the module do that once for each loop.

Only model-checked: `Downloads`; `WithinBudget` (`ExpertStream`); liveness. The invariants of the proofs were checked by TLC
on small instances before they were proved. `MCExpertStreamSerial.cfg`, the serial mode with three lanes, holds
when run by hand. Liveness under fairness and `ENABLED` are beyond the prover.

## What is not modelled

Within the modelled parts:

- *Expert streamer*: the mode without a cache (shared slots); `load_all`; `prefetch_sync`, which tests use;
  pinning; statistics; pages shared by neighbouring slices (`release_entry_pages` keeps a page a neighbour
  needs); cancelling a token under route-ahead; the settling of a load that trace mode brings forward;
  the second collection of route-ahead at the next top-k (`RouterHook` has it, without the reads); what the hook
  still speculates on its way out after a refused load; entries of different sizes. `Prefetch` gives back
  what a candidate held whose commit fails (`:538`); that this can be one completed and not yet integrated needs a
  token cancelled under route-ahead, which the runs and most of the theorems exclude.
- *Router hook*: substitution, the temporal and the predicted prefetch, the probe, the traces, the arithmetic
  of the gates and of the weights (a drop gives up any slots but the top one); a collection's reads are what
  `ExpertStream` models, here they are only marked.
- *Device arena*: how sizes, slots and alignments are chosen, the device's buffers, the statistics; the choice
  between host and device by measured speed.
- *Session*: the set-up of a model, sampling, images, trials, metrics; of the decisions, the scores.
- *Engine host*: the destructor; the planning flag; `info()` and the event texts; the advice on the context's
  size; the model's path beside the session; the verdicts on knobs, which are kept as the routing record is.
- *Model library*: the listing with its cache of probes, the refusal for lack of space, files no entry names; two
  entries that name one file.
- *Agent*: what prompts and tools hold, limits on rounds, the calendar of the tasks, external agents.
- *Turn queue*: nothing.

Whole parts, each with its reason in `PROJECT.json`: planned ones are listed below. Not planned are
parsing and layout of the model file, the platform's memory and file calls (external to the streamer's
model: they succeed or fail), dense weights, chat templates and media, the planner and its probes, metrics,
parameters, updates, the settings' stores, the protocols of the HTTP server, the command line, the desktop
application, the web interface, the catalog, packaging, tools and vendored code: pure functions, formatting,
verification of data, or another process's state. They are most of the program's lines, so what is modelled is
a small share of them: it is the share in which an order of events can go wrong.

## Plan

Done, in this order: `TurnQueue` with `Line`; `ExpertStream`; `ReadyWait`; `EngineHost`; `DeviceArena`;
`Conversation`; `Downloads`; `AgentRuns`; `RouterHook`; proofs for `TurnQueue`, `ReadyWait`, `EngineHost`,
`AgentRuns`, `RouterHook`, `DeviceArena`, `ExpertStream` and `Conversation`. Next:

1. `DoneIsWhole` of `Downloads` as a theorem.
2. An abstract cache (a set of resident entries with their bytes) that `ExpertStream` refines: `Bytes` is the
   mapping's invariant. The pages two neighbouring slices share, as a module of their own.
3. `EventBus`: `close_all` against `subscribe`, and the frames a slow reader loses.
4. Sequential algorithms as operators against reference definitions: the row stream with its budget and a step
   that fails, the knob trial's schedule.
5. The stall union, and the hand-over of the routing record with its path.
6. `EngineHost` composed with `TurnQueue`, so that the host's assumption of the line is checked as a
   refinement.
