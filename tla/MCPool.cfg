\* A binary and a text connection, two binary frames, a global list large enough for every struct, two LockDBs for GetOrNewDB to make.
CONSTANTS
    c1 = c1  t1 = t1
    k1 = k1  k2 = k2  k3 = k3  k4 = k4  k5 = k5  k6 = k6  k7 = k7
    k8 = k8  k9 = k9  k10 = k10  k11 = k11  k12 = k12  k13 = k13
    d1 = d1  d2 = d2
    None = None
    Conns <- MCConns
    TextConns <- MCTextConns
    Alloc <- MCAlloc
    GlobalCap = 13
    LocalCap = 2
    InitCount = 1
    RefillCount = 8
    MaxRequests = 2
    TextCmds <- MCTextCmds
    ReadSizes = {4, 64}
    DbAlloc <- MCDbAlloc

SPECIFICATION FairSpec
INVARIANT TypeOK
INVARIANT CommandOwnershipInv
INVARIANT TextCommandsInOrder
INVARIANT DbIdentity
INVARIANT LockFrameRoundTripInv
INVARIANT ProcessParseAgreesInv
INVARIANT TextLockCommandAgreesInv
INVARIANT ReplyFramesFreshInv
PROPERTY TextCommandsHandled
