\* Exclusive locks with the clock advancing to 1: timeouts, expiry, wheel re-enrolment and the cascades of DoExpried.
CONSTANTS
    p1 = p1  p2 = p2
    r1 = r1  r2 = r2  r3 = r3
    l1 = l1  l2 = l2  l3 = l3
    None = None
    Procs <- MCProcs
    Recs <- MCRecs
    LockIds <- MCLockIds
    LockFlags = {0}
    UnlockFlags = {0}
    Timeouts = {1}
    Exprieds = {1}
    Counts = {0}
    Rcounts = {1}
    LockedMod = 256
    MaxTime = 1
    MaxRequests = 3
    WheelLen = 16

SYMMETRY Symmetry
SPECIFICATION Spec
INVARIANT TypeOK
INVARIANT HolderCountInv
INVARIANT RefCountInv
INVARIANT LiveManagerInv
INVARIANT HolderLimitInv
PROPERTY LockServiceRefined
