\* Exclusive LOCKs with flags 0 (with and without waiting), 0x01 (query) and
\* 0x02 (refresh); shared LOCKs (count 1) with and without expiry, the
\* fire-and-forget one re-entering; UNLOCK flags 0 and 0x01 (release
\* current_lock) with rcount 0 and 1.  The commands are MCFlagSharedCmds; the
\* sets below are the values they range over.
CONSTANTS
    p1 = p1  p2 = p2
    r1 = r1  r2 = r2  r3 = r3
    l1 = l1  l2 = l2  l3 = l3
    None = None
    Procs <- MCProcs
    Recs <- MCRecs
    LockIds <- MCLockIds
    LockCmds <- MCFlagSharedCmds
    LockFlags = {0, 1, 2}
    UnlockFlags = {0, 1}
    Timeouts = {0, 1}
    Exprieds = {0, 1}
    Counts = {0, 1}
    Rcounts = {0, 1}
    LockedMod = 256
    MaxTime = 0
    MaxRequests = 3
    WheelLen = 16

SYMMETRY Symmetry
SPECIFICATION Spec
INVARIANT HolderCountInv
INVARIANT RefCountInv
INVARIANT LiveManagerInv
