CONSTANTS
    Layers = 4
    Depth = 2
    Placements <- AllOrMost
    Slots <- TwoSlots
    Chains <- Moving
    Drop = TRUE
    DropPrefill = FALSE
    MayTrip = TRUE
    MayAbort = TRUE
    MaxBatches = 3
SPECIFICATION Spec
INVARIANTS CommitsOwnToken PunctualIsCommitted MatmulLoaded NoStandingBet
