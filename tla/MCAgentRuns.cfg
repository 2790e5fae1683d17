SPECIFICATION Spec
CONSTANTS
    c1 = c1
    f1 = f1
    t1 = t1
    w1 = w1
    w2 = w2
    sched = sched
    Convs = {c1}
    Full = {}
    Tasks = {t1}
    Workers = {w1, w2}
    Scheduler = sched
    MaxRuns = 2
    MaxItems = 2
    MaxCalls = 3
INVARIANTS NoneOutlives
PROPERTIES ActsApproved CardAnswered ShutdownReturns
CHECK_DEADLOCK FALSE
