\* The timers instance with fire-and-forget LOCKs (expried 0) as well: a record
\* freed by DoTimeOut can be reused by a new LOCK while a wake cascade still
\* holds it.
CONSTANTS
    p1 = p1  p2 = p2
    r1 = r1  r2 = r2  r3 = r3
    l1 = l1  l2 = l2  l3 = l3
    None = None
    Procs <- MCProcs
    Recs <- MCRecs
    LockIds <- MCLockIds
    LockFlags = {0}
    UnlockFlags = {0}
    Timeouts = {1}
    Exprieds = {0, 1}
    Counts = {0}
    Rcounts = {0}
    LockedMod = 256
    MaxTime = 1
    MaxRequests = 3
    WheelLen = 16

SYMMETRY Symmetry
SPECIFICATION Spec
INVARIANT ReplyInv
