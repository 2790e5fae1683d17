CONSTANTS
    Layers = 2
    Experts = 2
    Projs = 1
    Workers = 2
    TopK = 2
    Ahead = 1
    Budgets <- OneOrTwo
    Adopt = FALSE
    TwoWave = FALSE
    Modes <- Both
    Faults <- ReadAndSpec
SPECIFICATION FairSpec
INVARIANTS InFlightCommitted LedgerExact DoneHasBytes
PROPERTIES ShutdownEnds
