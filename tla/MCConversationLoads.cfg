SPECIFICATION Spec
CONSTANTS
    a = a
    b = b
    Tokens <- Vocabulary
    Eog = Eog
    NCtx = 4
    NPredict = 3
    NBatch = 2
    MaxDraft = 2
    Mtp = TRUE
    Refuses <- Both
    MaxCheckpoints = 2
    MinStep = 1
    LoadsState = FALSE
    Raw = TRUE
    Ppl = TRUE
    Decides = TRUE
    MaxHistory = 3
INVARIANTS KvAgrees PromptInPlace CheckpointsDescribe AnsweredOnly ScoresItsPrompt
