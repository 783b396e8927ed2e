CONSTANTS
    c1 = c1
    c2 = c2
    idle1 = idle1
    idle2 = idle2
    t1 = t1
    g1 = g1
    NULL = NULL
    CPUs = {c1, c2}
    Threads = {t1}
    Groups = {g1}
    Idle <- MCIdle
    ParentGroup <- MCParentGroup
    TIME_SLICE = 2
SPECIFICATION FairSpec
INVARIANTS NoUseAfterFree OneCpuPerTask
PROPERTIES ImplementsLifecycle KilledLeavesCpu SleeperWakes
