SPECIFICATION Spec
CONSTANTS
    w1 = w1
    Layers = 4
    MoE <- ThreeWithExperts
    Experts = 2
    Projs = 1
    Weights <- OddHasOne
    NSlots = 2
    Lanes <- Loaders
    Routed = TRUE
    Full = 1
    OnDemand = TRUE
    Cache = 2
    Need = 1
    Misses <- End12
    Faulty <- OneRead
INVARIANTS RightOrRefused SlotsFree BudgetBack
PROPERTIES WaitsEnd
