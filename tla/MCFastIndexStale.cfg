\* Two LOCKs of a new key racing the lock_key write of GetOrNewLockManager.
CONSTANTS
    p1 = p1  p2 = p2  p3 = p3
    k1 = k1  k2 = k2  k3 = k3  z = z
    n1 = n1  n2 = n2  n3 = n3  n4 = n4
    Procs <- MCProcs
    Keys <- MCKeys
    ZeroKey = z
    Hash <- MCHash
    Alloc <- MCAlloc
    SegBits = 2
    BatchSize = 2
    FreeCap = 2
    MaxLocks = 4
    MaxSegs = 4
    ResizeSegLen = 2
    MaxResizes = 1
    None = None
SPECIFICATION Spec
SYMMETRY ProcSymmetry
INVARIANT IndexFreeDisjoint
