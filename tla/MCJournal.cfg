CONSTANTS
    A = A
    B = B
    Home <- Two
    Super = Super
    Values = {"zeros", "text", "magic"}
    Magic = {"magic"}
    Blank = "zeros"
    Ring = 8
    MaxUpdates = 2
    Modulus = 16
    FirstSequence = 14
    Imported <- FreshOrForeign
    MaxCommits = 3
    MaxCrashes = 2
CHECK_DEADLOCK FALSE
SYMMETRY Alike
SPECIFICATION Spec
INVARIANTS RecoverIsMarked CommittedNeverRefused
PROPERTY AtomicCommits
