\* A flag 0x01 query racing the release of the holder.
CONSTANTS
    p1 = p1  p2 = p2
    r1 = r1  r2 = r2  r3 = r3
    l1 = l1  l2 = l2  l3 = l3
    None = None
    Procs <- MCProcs
    Recs <- MCRecs
    LockIds <- MCLockIds
    LockFlags = {0, 1}
    UnlockFlags = {0}
    Timeouts = {0}
    Exprieds = {1}
    Counts = {0}
    Rcounts = {0}
    LockedMod = 256
    MaxTime = 0
    MaxRequests = 3
    WheelLen = 16

SYMMETRY Symmetry
SPECIFICATION Spec
INVARIANT NoNilDereference
