SPECIFICATION Spec
CONSTANTS
    c1 = c1
    f1 = f1
    t1 = t1
    w1 = w1
    w2 = w2
    sched = sched
    Convs = {c1, f1}
    Full = {f1}
    Tasks = {t1}
    Workers = {w1, w2}
    Scheduler = sched
    MaxRuns = 2
    MaxItems = 2
    MaxCalls = 3
PROPERTIES ApprovedIsApplied
CHECK_DEADLOCK FALSE
