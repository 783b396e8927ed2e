---------------------------- MODULE MCOrphanList ----------------------------
(* Two names, three inodes and vnodes and two threads.                  *)
EXTENDS OrphanList

CONSTANTS a, b, i1, i2, i3, v1, v2, v3, t1, t2

TwoNames == {a, b}
ThreeInodes == {i1, i2, i3}
ThreeVnodes == {v1, v2, v3}
TwoThreads == {t1, t2}

Symmetric ==
    Permutations(TwoNames) \cup Permutations(ThreeInodes)
    \cup Permutations(ThreeVnodes) \cup Permutations(TwoThreads)
=============================================================================
