SPECIFICATION FairSpec
CONSTANTS
    c1 = c1
    c2 = c2
    c3 = c3
    c4 = c4
    Callers = {c1, c2, c3, c4}
    MaxWaiting = 2
    MaxTickets = 6
INVARIANTS OneTurn
PROPERTIES Served ImplementsLine
