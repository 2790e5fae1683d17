CONSTANTS
    Layers = 3
    Experts = 2
    Projs = 2
    Workers = 2
    TopK = 1
    Ahead = 2
    Budgets <- One
    Adopt = TRUE
    TwoWave = FALSE
    Modes <- Off
    Faults <- SpecReadFault
SPECIFICATION Spec
INVARIANT InFlightCommitted
