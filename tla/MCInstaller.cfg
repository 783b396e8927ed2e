CONSTANTS
    disk = disk
    part = part
    c1 = c1
    w1 = w1
    w2 = w2
    x = x
    t1 = t1
    j1 = j1
    j2 = j2
    NoTask = NoTask
    Tasks = {c1, w1, w2, x}
    Callers = {c1}
    Workers = {w1, w2}
    Devices = {disk, part}
    Disk = disk
    Sectors <- Halves
    Targets = {t1}
    Jobs = {j1, j2}
    MaxGeneration = 2
    MaxHandle = 2
    MaxTroubles = 2
SYMMETRY Symmetric
CHECK_DEADLOCK FALSE
SPECIFICATION Spec
INVARIANTS
    UsersApart
    CookiesLive
    OneInstallation
    NodesHeld
    BootsWhole
PROPERTY
    OutcomeIsTrue
