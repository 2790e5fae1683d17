SPECIFICATION Spec
CONSTANTS
    d = d
    d1 = d1
    d2 = d2
    d3 = d3
    Entries = {d}
    ListsOf <- ListsOfEach
    Sized = {d1, d2}
    Digest = {d2, d3}
    MaxAttempts = 2
    MaxCalls = 5
    Crashes = FALSE
    Overlap = FALSE
PROPERTY DeleteSpares
CHECK_DEADLOCK FALSE
