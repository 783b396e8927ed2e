------------------------ MODULE MCProcessCollection ------------------------
EXTENDS ProcessCollection, TLC

CONSTANTS w1, w2, c1, c2, P, C

OneParent == {P}
TwoGenerations == {P, C}
ProcessOfTask == [t \in Tasks |-> IF t \in {w1, w2} THEN P ELSE C]
Waiters == Permutations({w1, w2})

=============================================================================
