---------------------------- MODULE Conversation ----------------------------
(***************************************************************************)
(* The turns of a session (core/src/engine/session.cpp) and what they keep *)
(* between them: the context's memory, the record of the tokens in it      *)
(* (`kv', by which the next turn knows the prefix it can reuse), the draft *)
(* context that mirrors it under MTP speculation, the checkpoints a memory *)
(* that cannot be cut falls back to (context_checkpoints.cpp), the chat    *)
(* history, and the state decide() keeps after a prefix                    *)
(* (decide/decider.cpp, decide/prefix_cache.cpp).                          *)
(*                                                                         *)
(* One thread runs the calls, one action per decode and per step between   *)
(* two; cancel() comes from any other thread at any time.  Positions are   *)
(* indices: there are no images.  A memory is the sequence of its tokens.  *)
(***************************************************************************)
EXTENDS Naturals, Sequences, SequencesExt

CONSTANTS Tokens,      \* of the vocabulary, without Eog
          Eog,         \* the end of a generation
          NCtx,        \* n_ctx, less the reserve at a turn's end
          NPredict,    \* the ceiling of an answer
          NBatch,      \* a piece of the prompt
          MaxDraft,    \* 0: no speculation
          Mtp,         \* the drafts come from a second context
          Refuses,     \* of "target" and "draft": whose memory may refuse to be cut
          MaxCheckpoints, MinStep,
          LoadsState,  \* whether the newest saved state always loads
          Raw,         \* whether a template may reject a lone prompt
          Ppl, Decides,  \* whether perplexity() and decide() are called
          MaxHistory   \* bounds the messages of a conversation

\* A position of a memory nothing was decoded at.
Gap == "gap"

ASSUME ConversationAssumption ==
    /\ Eog \notin Tokens /\ Gap \notin Tokens \cup {Eog}
    /\ {NCtx, NPredict, NBatch} \subseteq Nat \ {0}
    /\ {MaxDraft, MaxCheckpoints, MinStep, MaxHistory} \subseteq Nat
    /\ {Mtp, LoadsState, Raw, Ppl, Decides} \subseteq BOOLEAN
    /\ Refuses \subseteq {"target", "draft"}
    /\ Mtp => MaxDraft > 0

VARIABLES
    ctx, dft,        \* the two memories
    kv,              \* the record of what ctx holds
    checkpoints,     \* oldest first: [n, tgt, dft]
    history,         \* who wrote each message
    kept,            \* the prefix decide() holds a state of
    cancel,          \* cancel_requested
    pc,              \* where the session's thread is
    chat, structured, undo, before,  \* the turn's own
    tokens, n_common, fed,           \* its prompt, what it reuses, what is in ctx
    tok, n_gen, cancelled,
    foreign          \* a raw prompt or a scored text went into ctx since it was last empty:
                     \* bounds both to one until then

memory == <<ctx, dft, kv, checkpoints>>
turn == <<chat, structured, undo, before, tokens, n_common, fed, tok, n_gen, cancelled>>
vars == <<memory, history, kept, cancel, pc, turn, foreign>>

NoToken == "none"
\* A turn keeps nothing of the one before.
TurnOver ==
    /\ chat' = TRUE /\ structured' = FALSE /\ undo' = "nothing" /\ before' = <<>>
    /\ tokens' = <<>> /\ n_common' = 0 /\ fed' = 0 /\ tok' = NoToken /\ n_gen' = 0 /\ cancelled' = FALSE
Prompts == UNION {[1..n -> Tokens] : n \in 1..(NCtx - 1)}

TypeOK ==
    /\ ctx \in Seq(Tokens \cup {Eog}) /\ dft \in Seq(Tokens \cup {Eog, Gap}) /\ kv \in Seq(Tokens \cup {Eog})
    /\ Len(checkpoints) <= MaxCheckpoints
    /\ history \in Seq({"user", "assistant"}) /\ cancel \in BOOLEAN
    /\ pc \in {"idle", "render", "prefill", "sample", "decode", "parse", "finish",
              "split", "score", "dead"}
    /\ chat \in BOOLEAN /\ structured \in BOOLEAN /\ undo \in {"nothing", "pop", "replace"}
    /\ n_common \in Nat /\ fed \in Nat /\ n_gen \in Nat /\ cancelled \in BOOLEAN /\ foreign \in BOOLEAN

Init ==
    /\ ctx = <<>> /\ dft = <<>> /\ kv = <<>> /\ checkpoints = <<>>
    /\ history = <<>> /\ kept = <<>> /\ cancel = FALSE /\ pc = "idle"
    /\ chat = TRUE /\ structured = FALSE /\ undo = "nothing" /\ before = <<>>
    /\ tokens = <<>> /\ n_common = 0 /\ fed = 0 /\ tok = NoToken /\ n_gen = 0 /\ cancelled = FALSE
    /\ foreign = FALSE

First(s, n) == SubSeq(s, 1, n)
Least(a, b) == IF a < b THEN a ELSE b

----------------------------------------------------------------------------
(***************************************************************************)
(* llama.cpp's memory: a cut drops everything from position n on.  All of  *)
(* it can always go; a part of it only where the memory can be cut there.  *)
(***************************************************************************)
CutAnswers(whose, m, n) == IF whose \in Refuses /\ 0 < n /\ n < Len(m) THEN BOOLEAN ELSE {TRUE}
CutTo(m, n) ==
    LET left == IF n < Len(m) THEN First(m, n) ELSE m
    IN  IF \A i \in DOMAIN left : left[i] = Gap THEN <<>> ELSE left
\* Tokens decoded at given positions have to follow the last one held, if any is.
Follows(m, pos) == m = <<>> \/ pos = Len(m)
\* An empty memory starts where it is told to.
DecodedAt(m, pos, batch) == (IF m = <<>> THEN [i \in 1..pos |-> Gap] ELSE m) \o batch
\* What a memory has room for: n_ctx, the reserve included.
Cells == NCtx + 1

Memory == [ctx |-> ctx, dft |-> dft, kv |-> kv, cps |-> checkpoints]
Remember(m) == ctx' = m.ctx /\ dft' = m.dft /\ kv' = m.kv /\ checkpoints' = m.cps
Emptied == [ctx |-> <<>>, dft |-> <<>>, kv |-> <<>>, cps |-> <<>>]

\* The elements of a list that are in T, in their order.
Only(cps, T) ==
    LET only[i \in 0..Len(cps)] ==
            IF i = 0 THEN <<>>
            ELSE IF cps[i] \in T THEN Append(only[i - 1], cps[i]) ELSE only[i - 1]
    IN  only[Len(cps)]

\* ContextCheckpoints::drop_after
DropAfter(cps, n) == Only(cps, {c \in ToSet(cps) : c.n <= n})

\* ContextCheckpoints::restore(n): what the memories may become, and what is kept.  It takes
\* the newest usable state.  Where states may not load, one whose window starts too late is
\* passed over for an older one, and one that fails ends the search, the draft's part loaded.
Restores(m, n) ==
    LET usable == DropAfter(m.cps, n)
        lost(d) == [m EXCEPT !.ctx = <<>>, !.dft = d, !.kv = <<>>, !.cps = <<>>]
        back(c) == [m EXCEPT !.ctx = c.tgt, !.cps = DropAfter(@, c.n),
                             !.dft = IF Mtp THEN c.dft ELSE @, !.kv = CutTo(@, c.n)]
        partly(c) == IF Mtp THEN {First(c.dft, i) : i \in 0..Len(c.dft)} ELSE {}
    IN  IF usable = <<>> THEN {<<lost(m.dft), 0>>}
        ELSE IF LoadsState THEN {<<back(Last(usable)), Last(usable).n>>}
        ELSE {<<back(c), c.n>> : c \in ToSet(usable)}
             \cup {<<lost(d), 0>> : d \in {m.dft} \cup UNION {partly(c) : c \in ToSet(usable)}}

\* MUTANT of Keep: the checkpoints past the cut stay.
KeepStale(m, n0) ==
    LET n == Least(n0, Len(m.kv))
        cut == [m EXCEPT !.ctx = CutTo(@, n), !.kv = CutTo(@, n)]
    IN  UNION {IF ok THEN {<<cut, n>>} ELSE Restores(m, n) : ok \in CutAnswers("target", m.ctx, n)}

\* keep_kv_prefix(n): a cut of the target, or the newest checkpoint, or nothing.
Keep(m, n0) ==
    LET n == Least(n0, Len(m.kv))
        cut == [m EXCEPT !.ctx = CutTo(@, n), !.kv = CutTo(@, n), !.cps = DropAfter(@, n)]
    IN  UNION {IF ok THEN {<<cut, n>>} ELSE Restores(m, n) : ok \in CutAnswers("target", m.ctx, n)}

\* The draft context goes to position n, or to nothing.
DraftTo(m, n) ==
    {[m EXCEPT !.dft = IF ok THEN CutTo(@, n) ELSE <<>>] :
        ok \in IF Mtp THEN CutAnswers("draft", m.dft, n) ELSE {TRUE}}

\* ContextCheckpoints::create after the first n tokens; a memory that can be cut has no
\* state to keep.
Checkpointed(cps, n, target, draft) ==
    IF "target" \notin Refuses \/ MaxCheckpoints = 0 THEN cps
    ELSE LET others == Only(cps, {c \in ToSet(cps) : c.n # n})
             room   == IF Len(others) < MaxCheckpoints THEN others
                       ELSE SubSeq(others, Len(others) - MaxCheckpoints + 2, Len(others))
         IN  Append(room, [n |-> n, tgt |-> target, dft |-> draft])

----------------------------------------------------------------------------
(***************************************************************************)
(* A turn begins: begin_generate, render_prompt, tokenize_prompt and       *)
(* reuse_kv_prefix.                                                        *)
(***************************************************************************)
BeginGenerate ==
    /\ pc = "idle"
    /\ pc' = "render"
    /\ cancel' = FALSE /\ kept' = <<>> /\ structured' \in BOOLEAN
    /\ \E clear \in BOOLEAN, replace \in BOOLEAN :
         LET said == IF clear THEN <<>> ELSE history IN
         /\ replace \/ Len(said) < MaxHistory
         /\ IF clear THEN Remember(Emptied) /\ foreign' = FALSE ELSE UNCHANGED <<memory, foreign>>
         /\ undo' = (IF replace THEN "replace" ELSE "pop")
         /\ before' = (IF replace THEN said ELSE <<>>)
         /\ history' = (IF replace THEN <<"user">> ELSE Append(said, "user"))
    /\ UNCHANGED <<chat, tokens, n_common, fed, tok, n_gen, cancelled>>

UndoneHistory == CASE undo = "pop" -> Front(history) [] undo = "replace" -> before [] OTHER -> history
\* MUTANT of UndoHistory: the turn's messages stay.
KeepHistory == UNCHANGED history

UndoHistory == history' = UndoneHistory

\* The template or the tokenizer refuses: nothing was decoded yet.
Refuse ==
    /\ pc = "render"
    /\ pc' = "idle" /\ UndoHistory /\ TurnOver
    /\ UNCHANGED <<memory, kept, cancel, foreign>>

\* The template rejects a lone prompt: it is fed raw.
FeedRaw ==
    /\ Raw /\ ~foreign /\ pc = "render" /\ chat /\ undo = "pop" /\ ~structured
    /\ chat' = FALSE /\ UndoHistory /\ undo' = "nothing" /\ foreign' = TRUE
    /\ UNCHANGED <<memory, kept, cancel, pc, structured, before, tokens, n_common, fed, tok, n_gen, cancelled>>

\* MUTANT of CommonPrefix: what the record holds is taken for shared, whatever it says.
CommonLength(s, t) == Least(Len(s), Len(t) - 1)

CommonPrefix(s, t) ==
    CHOOSE n \in 0..(Len(t) - 1) :
        /\ n <= Len(s) /\ First(s, n) = First(t, n)
        /\ n = Len(t) - 1 \/ n = Len(s) \/ s[n + 1] # t[n + 1]

\* The prompt has come out of the template; the memory is cut to what it shares with it.
ReuseKvPrefix ==
    /\ pc = "render"
    /\ pc' = "prefill"
    /\ tokens' \in Prompts
    /\ IF ~chat \/ kv = <<>> THEN UNCHANGED memory /\ n_common' = 0
       ELSE LET n == CommonPrefix(kv, tokens') IN
            \E k \in (IF n < Len(kv) THEN Keep(Memory, n) ELSE {<<Memory, n>>}) :
                \E m \in DraftTo(k[1], k[2]) : Remember(m) /\ n_common' = k[2]
    /\ fed' = n_common'
    /\ UNCHANGED <<history, kept, cancel, chat, structured, undo, before, tok, n_gen, cancelled, foreign>>

----------------------------------------------------------------------------
(***************************************************************************)
(* How a turn ends early.                                                  *)
(***************************************************************************)
\* MUTANT of RolledBack: the draft context stays where the turn left it.
RolledBackTarget(m) ==
    IF ~chat THEN {[m EXCEPT !.ctx = <<>>, !.dft = <<>>]} ELSE {k[1] : k \in Keep(m, n_common)}

\* rollback_turn, from what the memories hold: the turn never was.  Where the draft's
\* memory refuses, both start again.
RolledBack(m) ==
    IF ~chat THEN {[m EXCEPT !.ctx = <<>>, !.dft = <<>>]}
    ELSE UNION {{IF ok THEN [k[1] EXCEPT !.dft = CutTo(@, k[2])] ELSE Emptied :
                     ok \in IF Mtp THEN CutAnswers("draft", k[1].dft, k[2]) ELSE {TRUE}} :
                 k \in Keep(m, n_common)}

Rollback(m) ==
    /\ \E r \in RolledBack(m) : Remember(r)
    /\ UndoHistory /\ TurnOver
    /\ UNCHANGED <<kept, cancel, foreign>>

\* A failure of kind Failed: whoever owns the session closes it and may open another.
Fail == pc' = "dead" /\ TurnOver /\ UNCHANGED <<memory, history, kept, cancel, foreign>>

Reopen ==
    /\ pc = "dead"
    /\ pc' = "idle" /\ Remember(Emptied) /\ history' = <<>> /\ kept' = <<>> /\ cancel' = FALSE
    /\ foreign' = FALSE /\ UNCHANGED turn

\* A decode a cancel stops has left some of its tokens in the memory.
Stopped(m, batch) == {m \o First(batch, n) : n \in 0..Len(batch)}

----------------------------------------------------------------------------
(***************************************************************************)
(* Prefill: pieces of the prompt, each through both contexts.              *)
(***************************************************************************)
Piece == SubSeq(tokens, fed + 1, Least(fed + NBatch, Len(tokens)))
AtCheckpoint ==
    chat /\ fed > n_common /\ (checkpoints = <<>> \/ fed >= Last(checkpoints).n + MinStep)

\* Under MTP the positions are given, else they go on from what the memory holds.
PieceFits ==
    /\ Len(ctx) + Len(Piece) <= Cells
    /\ Mtp => Follows(ctx, fed) /\ Follows(dft, fed)

PrefillPiece ==
    /\ pc = "prefill" /\ fed < Len(tokens) /\ PieceFits
    /\ ctx' = ctx \o Piece
    /\ dft' = (IF Mtp THEN DecodedAt(dft, fed, Piece) ELSE dft)
    /\ fed' = fed + Len(Piece)
    /\ checkpoints' = (IF AtCheckpoint THEN Checkpointed(checkpoints, fed, ctx, dft) ELSE checkpoints)
    /\ UNCHANGED <<kv, history, kept, cancel, pc, chat, structured, undo, before, tokens, n_common,
                   tok, n_gen, cancelled, foreign>>

PrefillCancelled ==
    /\ pc = "prefill" /\ fed < Len(tokens) /\ cancel
    /\ \E c \in Stopped(ctx, Piece) : Rollback([Memory EXCEPT !.ctx = c])
    /\ pc' = "idle"

PrefillFails == pc = "prefill" /\ fed < Len(tokens) /\ Fail

\* The whole prompt is in both contexts: it is recorded, and its end is a checkpoint.
EndPrefill ==
    /\ pc = "prefill" /\ fed = Len(tokens)
    /\ pc' = "sample"
    /\ IF chat THEN /\ kv' = kv \o SubSeq(tokens, n_common + 1, Len(tokens))
                    /\ checkpoints' = Checkpointed(checkpoints, Len(tokens), ctx, dft)
       ELSE UNCHANGED <<kv, checkpoints>>
    /\ UNCHANGED <<ctx, dft, history, kept, cancel, turn, foreign>>

----------------------------------------------------------------------------
(***************************************************************************)
(* Decode: sample, draft, verify, accept, emit.                            *)
(***************************************************************************)
Ceiling == Least(NPredict, NCtx - Len(tokens))
EmittedEnd == Len(tokens) + n_gen

Sample ==
    /\ pc = "sample"
    /\ tok' \in Tokens \cup {Eog}
    /\ pc' = (IF tok' = Eog \/ n_gen >= Ceiling THEN "parse" ELSE "decode")
    /\ UNCHANGED <<memory, history, kept, cancel, chat, structured, undo, before, tokens, n_common,
                   fed, n_gen, cancelled, foreign>>

\* No token can be chosen, or none the grammar of a response schema takes.
SampleFails ==
    /\ pc = "sample"
    /\ Rollback(Memory)
    /\ pc' = (IF structured THEN "idle" ELSE "dead")

Drafts ==
    LET room == Least(MaxDraft, Ceiling - n_gen - 1)
    IN  UNION {[1..n -> Tokens \cup {Eog}] : n \in 0..room}

\* The first `acc' drafts are what the target would have sampled.  An end of generation among
\* them ends the group and is not emitted.
Accepts(d, acc) == \A i \in 1..(acc - 1) : d[i] # Eog
EogHit(d, acc) == acc > 0 /\ d[acc] = Eog
Confirmed(d, acc) == <<tok>> \o First(d, IF EogHit(d, acc) THEN acc - 1 ELSE acc)

\* One pass of the loop.  The draft context is rewound and catches up on what was accepted;
\* the target drops the rejected tail.
Step ==
    /\ pc = "decode"
    /\ Mtp => Follows(dft, EmittedEnd)
    /\ \E d \in Drafts : \E acc \in 0..Len(d) :
         /\ d # <<>> => Follows(ctx, EmittedEnd)
         /\ Accepts(d, acc)
         /\ LET group == <<tok>> \o First(d, acc) IN
            /\ Len(ctx) + 1 + Len(d) <= Cells
            /\ ctx' = ctx \o group
            /\ dft' = (IF Mtp THEN DecodedAt(dft, EmittedEnd, group) ELSE dft)
            /\ kv' = (IF chat THEN kv \o Confirmed(d, acc) ELSE kv)
            /\ n_gen' = n_gen + Len(Confirmed(d, acc))
            /\ cancelled' = (structured /\ cancel)
            /\ pc' = (IF cancelled' \/ EogHit(d, acc) \/ (structured /\ n_gen' >= Ceiling)
                      THEN "parse" ELSE "sample")
    /\ UNCHANGED <<checkpoints, history, kept, cancel, chat, structured, undo, before, tokens,
                   n_common, fed, tok, foreign>>

StepCancelled ==
    /\ pc = "decode" /\ cancel
    /\ \E d \in Drafts : ctx' \in Stopped(ctx, <<tok>> \o d)
    /\ cancelled' = TRUE /\ pc' = "parse"
    /\ UNCHANGED <<dft, kv, checkpoints, history, kept, cancel, chat, structured, undo, before,
                   tokens, n_common, fed, tok, n_gen, foreign>>

\* The grammar refuses a drafted token the target would have sampled.
DraftRefused ==
    /\ pc = "decode" /\ structured
    /\ \E d \in Drafts : d # <<>> /\ Rollback([Memory EXCEPT !.ctx = @ \o <<tok>> \o d])
    /\ pc' = "idle"

\* The decode fails, or a memory refuses to be rewound.
StepFails == pc = "decode" /\ Fail

----------------------------------------------------------------------------
(***************************************************************************)
(* A turn ends: parse_result, trim_speculative_kv, finish.                 *)
(***************************************************************************)
ParseFails ==
    /\ pc = "parse" /\ structured /\ ~cancelled /\ n_gen < Ceiling
    /\ Rollback(Memory)
    /\ pc' = "idle"

\* MUTANT of Trimmed: what speculation left is not cut.
Untrimmed(m) == {m}

\* Speculation may leave the memories ahead of what was emitted.
Trimmed(m) ==
    IF MaxDraft = 0 THEN {m}
    ELSE UNION {DraftTo(k[1], EmittedEnd) :
                 k \in IF chat THEN Keep(m, EmittedEnd)
                       ELSE {<<[m EXCEPT !.ctx = IF ok THEN CutTo(@, EmittedEnd) ELSE <<>>], 0>> :
                                ok \in CutAnswers("target", m.ctx, EmittedEnd)}}

Trim ==
    /\ pc = "parse" /\ pc' = "finish"
    /\ \E m \in Trimmed(Memory) : Remember(m)
    /\ UNCHANGED <<history, kept, cancel, turn, foreign>>

\* The answer joins the conversation.
Finish ==
    /\ pc = "finish" /\ ~cancelled
    /\ pc' = "idle"
    /\ history' = (IF chat THEN Append(history, "assistant") ELSE history)
    /\ TurnOver /\ UNCHANGED <<memory, kept, cancel, foreign>>

FinishCancelled ==
    /\ pc = "finish" /\ cancelled
    /\ Rollback(Memory)
    /\ pc' = "idle"

----------------------------------------------------------------------------
(***************************************************************************)
(* The calls that are no turn.                                             *)
(***************************************************************************)
\* perplexity(): the text is decoded from an empty memory, to its end or to an error.  A
\* call refused before the memory is cleared changes nothing; a warm-up that fails leaves
\* its one token or none, as a text that stops there does.
Perplexity ==
    /\ Ppl /\ ~foreign /\ pc = "idle"
    /\ \E text \in Prompts : ctx' \in Stopped(<<>>, text)
    /\ kv' = <<>> /\ checkpoints' = <<>> /\ foreign' = TRUE
    /\ UNCHANGED <<dft, history, kept, cancel, pc, turn>>

\* MUTANT of Restorable: the kept prefix is taken by its length.
RestorableByLength(prompt, n) == kept # <<>> /\ Len(kept) <= n

\* Whether the state kept after a prefix is of the beginning of this request's.
Restorable(prompt, n) == kept # <<>> /\ Len(kept) <= n /\ IsPrefix(kept, prompt)

\* decide(): whatever was being continued is gone.  The kept state is restored where the
\* prefix it is of begins this request's; `fed' is where the request's prefix ends.
Decide ==
    /\ Decides /\ pc = "idle"
    /\ pc' = "split" /\ cancel' = FALSE /\ history' = <<>> /\ foreign' = FALSE
    /\ tokens' \in Prompts /\ fed' \in 0..Len(tokens')
    /\ IF Restorable(tokens', fed')
       THEN \E loads \in {TRUE, LoadsState} :
              /\ Remember([Emptied EXCEPT !.ctx = IF loads THEN kept ELSE <<>>])
              /\ kept' = (IF loads THEN kept ELSE <<>>)
       ELSE Remember(Emptied) /\ UNCHANGED kept
    /\ UNCHANGED <<chat, structured, undo, before, n_common, tok, n_gen, cancelled>>

\* The prefix is prefilled and its state kept, then the rest.
DecidePrefill ==
    /\ pc = "split"
    /\ pc' = "score"
    /\ LET head == SubSeq(tokens, Len(ctx) + 1, fed) IN
       /\ ctx' = ctx \o head \o SubSeq(tokens, fed + 1, Len(tokens))
       /\ kept' \in (IF head = <<>> THEN {kept} ELSE {First(tokens, fed)} \cup (IF LoadsState THEN {} ELSE {<<>>}))
    /\ UNCHANGED <<dft, kv, checkpoints, history, cancel, turn, foreign>>

\* The request is refused, or a decode fails: a cancel is why, or the session is closed.
DecideFails ==
    /\ pc = "split"
    /\ pc' \in (IF cancel THEN {"idle"} ELSE {"idle", "dead"})
    /\ ctx' = <<>> /\ TurnOver
    /\ UNCHANGED <<dft, kv, checkpoints, history, kept, cancel, foreign>>

Score ==
    /\ pc = "score"
    /\ pc' = "idle" /\ ctx' = <<>> /\ TurnOver
    /\ UNCHANGED <<dft, kv, checkpoints, history, kept, cancel, foreign>>

\* cancel(), from any thread.
Cancel ==
    /\ ~cancel /\ cancel' = TRUE
    /\ UNCHANGED <<memory, history, kept, pc, turn, foreign>>

Next ==
    \/ BeginGenerate \/ Refuse \/ FeedRaw \/ ReuseKvPrefix
    \/ PrefillPiece \/ PrefillCancelled \/ PrefillFails \/ EndPrefill
    \/ Sample \/ SampleFails \/ Step \/ StepCancelled \/ DraftRefused \/ StepFails
    \/ ParseFails \/ Trim \/ Finish \/ FinishCancelled
    \/ Perplexity \/ Decide \/ DecidePrefill \/ DecideFails \/ Score
    \/ Cancel \/ Reopen

Spec == Init /\ [][Next]_vars

----------------------------------------------------------------------------
(***************************************************************************)
(* What a session promises.                                                *)
(***************************************************************************)
\* Between two turns the record is what the context holds, to the token: after an answer,
\* a refusal, a cancel in any step, an answer the grammar or the parser throws away, and
\* cuts the memory refuses.
KvAgrees == pc = "idle" /\ ~foreign => ctx = kv

\* While a prompt is fed, the context holds its beginning and nothing else.
PromptInPlace == pc = "prefill" /\ ~foreign => ctx = First(tokens, fed)

\* The draft context stands where the target stands, on the same tokens, or the next prompt
\* does not fit it: only a cut its memory refuses may have left it without some.
DraftMirrors ==
    Mtp /\ pc \in {"idle", "prefill"} /\ ~foreign =>
        \/ dft = <<>> /\ (ctx # <<>> => "draft" \in Refuses)
        \/ /\ Len(dft) = Len(ctx)
           /\ \A i \in DOMAIN dft : dft[i] = ctx[i] \/ (dft[i] = Gap /\ "draft" \in Refuses)

\* A checkpoint restores a beginning of what the record says.
CheckpointsDescribe ==
    pc = "idle" /\ ~foreign =>
        \A i \in DOMAIN checkpoints :
            checkpoints[i].n = Len(checkpoints[i].tgt) /\ IsPrefix(checkpoints[i].tgt, kv)

\* Between two turns every message was answered: a turn that did not finish leaves none.
AnsweredOnly == pc = "idle" /\ history # <<>> => Last(history) = "assistant"

\* A decision is scored on its whole prompt, restored prefix included.
ScoresItsPrompt == pc = "score" => ctx = tokens

\* The record and the context agree exactly, whatever was fed.
KvAgreesAlways == pc = "idle" => ctx = kv

\* perplexity() leaves no conversation state behind.
PplLeavesNothing == [][Perplexity => ctx' = <<>> /\ kv' = <<>> /\ history' = <<>>]_vars
=============================================================================
