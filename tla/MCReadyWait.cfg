CONSTANTS
    Threads = {t1, t2}
    Lanes = {l1, l2}
    Flags = {f1, f2}
SPECIFICATION FairSpec
INVARIANTS NoLostWakeup NobodyWaitsInVain
PROPERTIES EveryoneGoesOn
CHECK_DEADLOCK FALSE
