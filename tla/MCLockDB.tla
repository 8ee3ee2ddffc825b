------------------------------ MODULE MCLockDB ------------------------------
(* Model-checking instance of LockDB: two connection goroutines, a pool of *)
(* record model values, two lock ids and a few seconds of clock.           *)
EXTENDS LockDB, TLC

CONSTANTS p1, p2, r1, r2, r3, l1, l2, l3

MCProcs == {p1, p2}
MCRecs == {r1, r2, r3}
MCLockIds == {l1, l2}

\* Three lock ids: three distinct holders can share a key.
MCThreeLockIds == {l1, l2, l3}

\* Commands of the flags-and-shared instance: exclusive commands with every
\* flag, a plain exclusive LOCK also without waiting, and shared commands
\* (count 1): one that holds without re-entry and one without expiry that
\* may re-enter.
MCFlagSharedCmds ==
    [lid : MCLockIds, flag : {0, 1, 2}, timeout : {1}, expried : {1}, count : {0}, rcount : {1}]
    \cup [lid : MCLockIds, flag : {0}, timeout : {0}, expried : {1}, count : {0}, rcount : {1}]
    \cup [lid : MCLockIds, flag : {0}, timeout : {1}, expried : {1}, count : {1}, rcount : {0}]
    \cup [lid : MCLockIds, flag : {0}, timeout : {1}, expried : {0}, count : {1}, rcount : {1}]

Symmetry == Permutations(MCProcs) \cup Permutations(MCRecs) \cup Permutations(MCLockIds)
=============================================================================
