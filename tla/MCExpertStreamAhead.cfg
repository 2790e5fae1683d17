CONSTANTS
    Layers = 3
    Experts = 2
    Projs = 2
    Workers = 2
    TopK = 1
    Ahead = 2
    Budgets <- OneOrTwo
    Adopt = TRUE
    TwoWave = FALSE
    Modes <- Both
    Faults <- None
SPECIFICATION FairSpec
INVARIANTS ReadOnce
PROPERTIES LoadReturns
