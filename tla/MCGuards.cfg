CONSTANTS
    t1 = t1
    t2 = t2
    reaper = reaper
    NULL = NULL
    Tasks <- MCTasks
    Processes <- MCProcesses
    Reaper = reaper
    Kinds = {"plain", "ext4", "fat", "auth", "ime"}
    MaxHeld = 2
    MaxEntries = 2
CHECK_DEADLOCK FALSE
SPECIFICATION GuardSpec
INVARIANTS MutualExclusion AbandonedIsPoisoned PoisonJustified NoFreedOwner AuthRebuiltBeforeUse
PROPERTIES NeverStolenFromExecuting ExitHookReturns
