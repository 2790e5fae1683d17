CONSTANTS
    Layers = 2
    Experts = 2
    Projs = 2
    Workers = 2
    TopK = 2
    Ahead = 1
    Budgets <- OneOrTwo
    Adopt = FALSE
    TwoWave = FALSE
    Modes <- On
    Faults <- Cancelled
SPECIFICATION Spec
INVARIANT InFlightCommitted
