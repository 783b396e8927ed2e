CONSTANTS
    t1 = t1
    t2 = t2
    p1 = p1
    p2 = p2
    tb1 = tb1
    NULL = NULL
    Reaper = reaper
    Worker = worker
    Tasks = {t1, t2}
    Processes = {p1, p2}
    ProcessOf <- MCProcessOf
    Tables = {tb1}
    InitialTable <- SharedTable
    Handles = {h1, h2}
    Tickets = {k1, k2}
    MaxFd = 1
CHECK_DEADLOCK FALSE
SPECIFICATION FairFdSpec
INVARIANTS NothingDangles ClosedOnce HandleAccounted TicketOfExecutingThread
PROPERTY AbandonedTicketsGo
