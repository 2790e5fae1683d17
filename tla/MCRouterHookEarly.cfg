CONSTANTS
    Layers = 2
    Depth = 1
    Placements <- All
    Slots <- TwoSlots
    Chains <- Still
    Drop = FALSE
    DropPrefill = FALSE
    MayTrip = FALSE
    MayAbort = FALSE
    MaxBatches = 3
SPECIFICATION Spec
INVARIANTS EarlyIsKept
