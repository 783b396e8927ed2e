SPECIFICATION GuardSpec
CONSTANTS
    t1 = t1
    t2 = t2
    reaper = reaper
    NULL = NULL
    Tasks <- MCTasks
    Processes <- MCProcesses
    Reaper = reaper
    Kinds = {"ime"}
    MaxHeld = 2
    MaxEntries = 3
CHECK_DEADLOCK FALSE
INVARIANT ImeRebuiltBeforeUse
