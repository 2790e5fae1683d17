CONSTANTS
    Layers = 3
    Depth = 1
    Placements <- AllOrMost
    Slots <- TwoSlots
    Chains <- Moving
    Drop = TRUE
    DropPrefill = FALSE
    MayTrip = TRUE
    MayAbort = TRUE
    MaxBatches = 4
SPECIFICATION Spec
INVARIANTS CommitsOwnToken PunctualIsCommitted MatmulLoaded NoStandingBet
