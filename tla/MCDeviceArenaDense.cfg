SPECIFICATION Spec
CONSTANTS
    w1 = w1
    Layers = 4
    MoE <- FirstAndLast
    Experts = 2
    Projs = 1
    Weights <- OnlyTwo
    NSlots = 2
    Lanes <- Loaders
    Routed = TRUE
    Full = 1
    OnDemand = TRUE
    Cache = 2
    Need = 1
    Misses <- End1
    Faulty <- OneRead
INVARIANT RightOrRefused
