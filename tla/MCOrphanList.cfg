CONSTANTS
    a = a
    b = b
    i1 = i1
    i2 = i2
    i3 = i3
    v1 = v1
    v2 = v2
    v3 = v3
    t1 = t1
    t2 = t2
    Names <- TwoNames
    Inodes <- ThreeInodes
    Vnodes <- ThreeVnodes
    Threads <- TwoThreads
    None = None
    Kernel = Kernel
    MaxBlocks = 2
SYMMETRY Symmetric
CHECK_DEADLOCK FALSE
SPECIFICATION Spec
INVARIANTS FsckClean OpenKeepsFile OrphansAwaited NeverTakenForCorrupt
