CONSTANTS
    w1 = w1
    w2 = w2
    c1 = c1
    c2 = c2
    P = P
    C = C
    Tasks = {w1, w2, c1}
    Processes <- TwoGenerations
    First <- OneParent
    ProcessOf <- ProcessOfTask
    Windows = {w2}
    Kernel = Kernel
    Reaper = Reaper
    Gui = Gui
    NULL = NULL
    MaxLaunches = 1
    MaxFaults = 1
CHECK_DEADLOCK FALSE
SPECIFICATION FairCollectionSpec
INVARIANTS NoFreedPcb OneOwner NoFreedOwner ExitStatusKept
PROPERTIES DeadCollected WaiterReturns
