CONSTANTS
    w1 = w1
    w2 = w2
    c1 = c1
    c2 = c2
    P = P
    C = C
    Tasks = {w1, w2, c1, c2}
    Processes <- TwoGenerations
    First <- OneParent
    ProcessOf <- ProcessOfTask
    Windows = {}
    Kernel = Kernel
    Reaper = Reaper
    Gui = Gui
    NULL = NULL
    MaxLaunches = 1
    MaxFaults = 0
SPECIFICATION CollectionSpec
INVARIANT ReportedOnce
CHECK_DEADLOCK FALSE
SYMMETRY Waiters
