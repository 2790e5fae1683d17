CONSTANTS
    Layers = 2
    Experts = 3
    Projs = 2
    Workers = 3
    TopK = 2
    Ahead = 1
    Budgets <- One
    Adopt = FALSE
    TwoWave = FALSE
    Modes <- Off
    Faults <- SpecFaults
SPECIFICATION Spec
INVARIANTS TypeOK MatmulSafe LedgerExact DoneHasBytes WithinBudget
