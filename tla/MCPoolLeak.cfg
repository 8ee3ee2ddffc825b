\* The global list at its capacity when DoTimeOut or DoExpried frees a command.
CONSTANTS
    c1 = c1  t1 = t1
    k1 = k1  k2 = k2  k3 = k3  k4 = k4  k5 = k5  k6 = k6  k7 = k7
    k8 = k8  k9 = k9  k10 = k10  k11 = k11  k12 = k12  k13 = k13
    d1 = d1  d2 = d2
    None = None
    Conns <- MCConns
    TextConns <- MCTextConns
    Alloc <- MCAlloc
    GlobalCap = 4
    LocalCap = 4
    InitCount = 4
    RefillCount = 8
    MaxRequests = 2
    TextCmds <- MCTextCmds
    ReadSizes = {7, 64}
    DbAlloc <- MCDbAlloc

SPECIFICATION Spec
INVARIANT PoolLockReleased
