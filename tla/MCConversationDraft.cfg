SPECIFICATION Spec
CONSTANTS
    a = a
    b = b
    Tokens <- Vocabulary
    Eog = Eog
    NCtx = 4
    NPredict = 3
    NBatch = 2
    MaxDraft = 2
    Mtp = TRUE
    Refuses <- Target
    MaxCheckpoints = 0
    MinStep = 1
    LoadsState = TRUE
    Raw = FALSE
    Ppl = FALSE
    Decides = FALSE
    MaxHistory = 3
INVARIANT DraftMirrors
