---------------------------- MODULE MCFastIndex ----------------------------
EXTENDS FastIndex, TLC

CONSTANTS p1, p2, p3, k1, k2, k3, z, n1, n2, n3, n4

MCProcs == {p1, p2, p3}
MCKeys == {k1, k2, k3}
\* LockKey[1] of each key: distinct slots, segment bit clear
MCHash == (k1 :> 1) @@ (k2 :> 2) @@ (k3 :> 3) @@ (z :> 0)
MCAlloc == <<n1, n2, n3, n4>>

ProcSymmetry == Permutations(MCProcs)
====
