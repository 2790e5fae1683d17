CONSTANTS
    Layers = 2
    Experts = 2
    Projs = 2
    Workers = 2
    TopK = 2
    Ahead = 1
    Budgets <- Two
    Adopt = FALSE
    TwoWave = TRUE
    Modes <- On
    Faults <- AsyncFaults
SPECIFICATION Spec
INVARIANTS MatmulSafe LruExact
