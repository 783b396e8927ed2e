CONSTANTS
    p1 = p1
    p2 = p2
    s1 = s1
    s2 = s2
    Worker = Worker
    Reaper = Reaper
    Pipes = {p1, p2}
    Attended = {p1}
    Tasks = {s1, s2}
    Capacity = 1
    Mortal = {s1}
    MaxDeaths = 1
    PipeLimit = 2
    GlobalLimit = 2
    MaxPosts = 2
CHECK_DEADLOCK FALSE
SPECIFICATION Spec
INVARIANTS
    WaiterIsAwaited
PROPERTIES
    FreedUntouched
    ImplementsMailbox
    EveryPipeServed
