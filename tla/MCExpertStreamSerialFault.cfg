CONSTANTS
    Layers = 2
    Experts = 2
    Projs = 2
    Workers = 2
    TopK = 2
    Ahead = 1
    Budgets <- Two
    Adopt = FALSE
    TwoWave = FALSE
    Modes <- Off
    Faults <- ReadFault
SPECIFICATION Spec
INVARIANT MatmulSafe
