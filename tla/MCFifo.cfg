\* Exclusive locks: a new request arriving while UnLock hands the key to the queued waiter.
CONSTANTS
    p1 = p1  p2 = p2
    r1 = r1  r2 = r2  r3 = r3
    l1 = l1  l2 = l2  l3 = l3
    None = None
    Procs <- MCProcs
    Recs <- MCRecs
    LockIds <- MCLockIds
    LockFlags = {0}
    UnlockFlags = {0}
    Timeouts = {0, 1}
    Exprieds = {1}
    Counts = {0}
    Rcounts = {0}
    LockedMod = 256
    MaxTime = 0
    MaxRequests = 4
    WheelLen = 16

SYMMETRY Symmetry
SPECIFICATION Spec
PROPERTY NoOvertaking
