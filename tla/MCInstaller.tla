----------------------------- MODULE MCInstaller -----------------------------
EXTENDS InstallerJobs, TLC

CONSTANTS disk, part, c1, w1, w2, x, t1, j1, j2

\* The slice is the second half of the disk.
Halves == disk :> {1, 2} @@ part :> {2}

Symmetric == Permutations(Workers) \cup Permutations(Jobs)
=============================================================================
