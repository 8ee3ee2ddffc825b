------------------------------- MODULE LockDB -------------------------------
(***************************************************************************)
(* The lock engine of slock (src/server/db.go) for one lock key: the key's *)
(* LockManager, the pool of Lock records, the timeout and expiry timer    *)
(* wheels, their dispatcher goroutines and the goroutines they spawn, and *)
(* the connection goroutines running LockDB.Lock and LockDB.UnLock.       *)
(*                                                                         *)
(* Every section of code that runs under the key's shard mutex           *)
(* (lock_manager.glock) is one atomic step.  The wheel scans are the only *)
(* code that holds that mutex across a loop; they own it in the variable  *)
(* glock while they pop.  Code that runs after the mutex is released      *)
(* (the reply to a query, the reset of `waited` after a wake cascade) is  *)
(* a step of its own, because the source runs it unprotected.             *)
(*                                                                         *)
(* LockManager, Lock and LockQueue live in lock.go, which is not part of  *)
(* the sources given; their methods are modelled from the specification  *)
(* (spec.md 4.5) with the reference counting that makes db.go's calls    *)
(* balance: a record holds one reference for the holder list, one for the *)
(* waiter queue and one per timer wheel it sits in.                       *)
(***************************************************************************)
EXTENDS Integers, Sequences, FiniteSets, SequencesExt, FiniteSetsExt

CONSTANTS
    Procs,        \* connection goroutines issuing LOCK / UNLOCK commands
    Recs,         \* Lock records (the pool of GetOrNewLock)
    LockIds,      \* lock_id values a command may carry
    LockFlags,    \* flag values of LOCK commands (0, 1 = query, 2 = refresh)
    UnlockFlags,  \* flag values of UNLOCK commands (0, 1 = release current)
    Timeouts,     \* timeout values (seconds) of LOCK commands
    Exprieds,     \* expried values (seconds) of LOCK commands
    Counts,       \* count values of LOCK commands
    Rcounts,      \* rcount values of LOCK and UNLOCK commands
    LockedMod,    \* 2^8: Lock.locked and Rcount are uint8
    MaxTime,      \* bound on current_time
    MaxRequests,  \* bound on the number of commands issued
    WheelLen,     \* TIMEOUT_QUEUE_LENGTH = EXPRIED_QUEUE_LENGTH = 0x10
    None          \* nil

ASSUME Rcounts \subseteq 0..(LockedMod - 1)
ASSUME WheelLen > MaxTime + 6

Ticks == 0..(MaxTime + 6)
Scans == {"T", "E"} \X (0..MaxTime)
Actors == Procs \cup Scans
Reqs == 1..MaxRequests

LockCmds == [lid : LockIds, flag : LockFlags, timeout : Timeouts,
             expried : Exprieds, count : Counts, rcount : Rcounts]
UnlockCmds == [lid : LockIds, flag : UnlockFlags, timeout : {0},
               expried : {0}, count : {0}, rcount : Rcounts]
NoCmd == [lid |-> None, flag |-> 0, timeout |-> 0, expried |-> 0,
          count |-> 0, rcount |-> 0]

Codes == {"SUCCED", "UNKNOWN_DB", "LOCKED_ERROR", "UNLOCK_ERROR",
          "UNOWN_ERROR", "TIMEOUT", "EXPRIED"}

VARIABLES
    current_time,        \* LockDB.current_time
    check_timeout_time,  \* LockDB.check_timeout_time
    check_expried_time,  \* LockDB.check_expried_time
    db,         \* [m: the LockManager, lk: Lock records, tw / ew: the
                \*  wheels (this key's shard column), key_count: KeyCount]
    glock,      \* scan goroutine holding the shard mutex across its loop
    th,         \* state of every goroutine: pc, request, command, the
                \* waiter a cascade carries, a scan's now and staged list
    replies,    \* replies[q]: results delivered for request q, in order
    nreq,       \* number of commands issued so far
    db_created, \* slock.dbs[db_id] # nil
    crashed     \* a goroutine dereferenced nil and the process died

vars == <<current_time, check_timeout_time, check_expried_time, db, glock,
          th, replies, nreq, db_created, crashed>>

-----------------------------------------------------------------------------
(* State of the manager, the records and the goroutines.                   *)

NoManagerState == [locked |-> 0, waited |-> FALSE, current |-> None,
                   holders |-> <<>>, waiters |-> <<>>, ref_count |-> 0,
                   freed |-> FALSE, indexed |-> FALSE]

FreeLockRec == [inuse |-> FALSE, req |-> 0, cmd |-> NoCmd, locked |-> 0,
                timeouted |-> FALSE, expried |-> FALSE, ref_count |-> 0,
                timeout_time |-> 0, expried_time |-> 0,
                timeout_checked_count |-> 0, expried_checked_count |-> 0]

Idle == [pc |-> "idle", req |-> 0, cmd |-> NoCmd, wait |-> None,
         now |-> 0, staged |-> <<>>]

Unspawned == [Idle EXCEPT !.pc = "unspawned"]

FreeRecs(d) == {r \in Recs : ~d.lk[r].inuse}

HolderOf(d, lid) == {h \in ToSet(d.m.holders) : d.lk[h].cmd.lid = lid}

\* Where a scan goroutine goes once a staged record is fired: the next one,
\* or return when none is left.
FireNext(staged) == IF staged = <<>> THEN "done" ELSE "fire"

\* Where a goroutine goes when its wake cascade ends.
AfterCascade(a) == IF a \in Procs THEN "idle" ELSE FireNext(th[a].staged)

Reply(q, code) == replies' = [replies EXCEPT ![q] = Append(@, code)]

-----------------------------------------------------------------------------
(* LockManager and Lock pool methods (lock.go, modelled from spec 4.5).    *)

\* GetOrNewLock: take a record from the shard free list and fill it in.
GetOrNewLock(d, r, q, c, now) ==
    [d EXCEPT !.lk[r] = [inuse |-> TRUE, req |-> q, cmd |-> c, locked |-> 0,
                         timeouted |-> FALSE, expried |-> FALSE,
                         ref_count |-> 0,
                         timeout_time |-> now + c.timeout,
                         expried_time |-> now + c.expried,
                         timeout_checked_count |-> 0,
                         expried_checked_count |-> 0],
              !.m.ref_count = @ + 1]

\* FreeLock: the record returns to the free list; the manager has one
\* record less.  The record's fields are left as they were.
FreeLock(d, r) == [d EXCEPT !.lk[r].inuse = FALSE, !.m.ref_count = @ - 1]

\* Mutant: the record is freed while one reference is left.
DropLockRefEarly(d, r) ==
    LET d1 == [d EXCEPT !.lk[r].ref_count = @ - 1]
    IN  IF d1.lk[r].ref_count <= 1 THEN FreeLock(d1, r) ELSE d1

\* Mutant: the last reference is dropped without FreeLock.
DropLockRefNoFree(d, r) == [d EXCEPT !.lk[r].ref_count = @ - 1]

\* lock.ref_count--; if lock.ref_count == 0 { FreeLock(lock) }
DropLockRef(d, r) ==
    LET d1 == [d EXCEPT !.lk[r].ref_count = @ - 1]
    IN  IF d1.lk[r].ref_count = 0 THEN FreeLock(d1, r) ELSE d1

\* AddLock: append to the holders, make it current_lock, locked = 1.
AddLock(d, r) ==
    [d EXCEPT !.m.holders = Append(@, r), !.m.current = r,
              !.lk[r].locked = 1, !.lk[r].ref_count = @ + 1]

\* RemoveLock: drop from the holders; promote the oldest remaining holder
\* if it was current_lock; release the holder reference.
RemoveLock(d, r) ==
    LET rest == Remove(d.m.holders, r)
        cur  == IF d.m.current # r THEN d.m.current
                ELSE IF rest = <<>> THEN None ELSE Head(rest)
    IN  DropLockRef([d EXCEPT !.m.holders = rest, !.m.current = cur], r)

\* AddWaitLock: append to the waiter queue and set waited.
AddWaitLock(d, r) ==
    [d EXCEPT !.m.waiters = Append(@, r), !.m.waited = TRUE,
              !.lk[r].ref_count = @ + 1]

\* GetWaitLock: pop and release every timed-out record at the head of the
\* waiter queue; return the first live one, which stays queued.
RECURSIVE GetWaitLock(_)
GetWaitLock(d) ==
    IF d.m.waiters = <<>> THEN [d |-> d, w |-> None]
    ELSE LET h == Head(d.m.waiters)
         IN  IF d.lk[h].timeouted
             THEN GetWaitLock(DropLockRef([d EXCEPT !.m.waiters = Tail(@)], h))
             ELSE [d |-> d, w |-> h]

\* UpdateLockedLock: new timing and counters for a holder.
UpdateLockedLock(d, r, c, now) ==
    [d EXCEPT !.lk[r].cmd.timeout = c.timeout, !.lk[r].cmd.expried = c.expried,
              !.lk[r].cmd.count = c.count, !.lk[r].cmd.rcount = c.rcount,
              !.lk[r].expried_time = now + c.expried]

-----------------------------------------------------------------------------
(* LockDB helpers (db.go).                                                 *)

\* The tick a record is enrolled for: check + min(checked_count, 5), or
\* its own due time if sooner, never before the next tick to scan.
TargetTick(check, checked, due) ==
    LET t == check + (IF checked > 5 THEN 5 ELSE checked)
    IN  IF due < t THEN (IF due < check THEN check ELSE due) ELSE t

AddTimeOut(d, r, check) ==
    LET l == d.lk[r]
        s == TargetTick(check, l.timeout_checked_count, l.timeout_time) % WheelLen
    IN  [d EXCEPT !.lk[r].timeouted = FALSE, !.tw[s] = Append(@, r)]

AddExpried(d, r, check) ==
    LET l == d.lk[r]
        s == TargetTick(check, l.expried_checked_count, l.expried_time) % WheelLen
    IN  [d EXCEPT !.lk[r].expried = FALSE, !.ew[s] = Append(@, r)]

\* RemoveLockManager for a key that owns its fast-index slot: clear the
\* slot, mark the manager freed, KeyCount--, reset its queues.
RemoveLockManager(d) ==
    IF d.m.freed THEN d
    ELSE [d EXCEPT !.m.indexed = FALSE, !.m.freed = TRUE,
                   !.m.holders = <<>>, !.m.waiters = <<>>,
                   !.key_count = @ - 1]

\* Mutant: the manager is removed without checking its ref_count.
MaybeRemoveManagerAlways(d) == RemoveLockManager(d)

\* if lock_manager.ref_count == 0 { self.RemoveLockManager(lock_manager) }
MaybeRemoveManager(d) == IF d.m.ref_count = 0 THEN RemoveLockManager(d) ELSE d

\* Mutant: the shared-count comparisons are off by one.
DoLockOffByOne(d, r) ==
    IF d.m.locked = 0 THEN TRUE
    ELSE IF d.m.waited THEN FALSE
    ELSE /\ d.m.locked <= d.lk[d.m.current].cmd.count + 1
         /\ d.m.locked <= d.lk[r].cmd.count + 1

\* DoLock: may the record be granted now?
DoLock(d, r) ==
    IF d.m.locked = 0 THEN TRUE
    ELSE IF d.m.waited THEN FALSE
    ELSE /\ d.m.locked <= d.lk[d.m.current].cmd.count
         /\ d.m.locked <= d.lk[r].cmd.count

\* Mutant: a granted waiter is not marked timeouted, so it stays a live
\* waiter at the head of the queue and in the timeout wheel.
WakeUpWaitLockNoMark(d, w, echeck) ==
    IF d.lk[w].timeouted
    THEN LET g == GetWaitLock(d) IN [d |-> g.d, next |-> g.w, granted |-> FALSE]
    ELSE IF d.lk[w].cmd.expried > 0
         THEN LET d2 == AddExpried([AddLock(d, w) EXCEPT !.m.locked = @ + 1],
                                   w, echeck)
                  d3 == [d2 EXCEPT !.lk[w].ref_count = @ + 1]
              IN  [d |-> GetWaitLock(d3).d, next |-> None, granted |-> TRUE]
         ELSE LET g == GetWaitLock(d)
              IN  [d |-> MaybeRemoveManager(g.d), next |-> g.w, granted |-> TRUE]

\* WakeUpWaitLock: one iteration of the wake cascade, entered with DoLock
\* true.  Returns the new state, the next waiter to try (None ends the
\* cascade) and whether the waiter was granted (and so gets SUCCED).
WakeUpWaitLock(d, w, echeck) ==
    IF d.lk[w].timeouted
    THEN LET g == GetWaitLock(d) IN [d |-> g.d, next |-> g.w, granted |-> FALSE]
    ELSE LET d1 == [d EXCEPT !.lk[w].timeouted = TRUE]
         IN  IF d1.lk[w].cmd.expried > 0
             THEN LET d2 == AddExpried([AddLock(d1, w) EXCEPT !.m.locked = @ + 1],
                                       w, echeck)
                      d3 == [d2 EXCEPT !.lk[w].ref_count = @ + 1]
                  IN  [d |-> GetWaitLock(d3).d, next |-> None, granted |-> TRUE]
             ELSE LET g == GetWaitLock(d1)
                  IN  [d |-> MaybeRemoveManager(g.d), next |-> g.w, granted |-> TRUE]

\* Mutant: the one-level release decrements the manager's counter only.
UnlockReleaseManagerOnly(d, h, rcount) ==
    LET n == d.lk[h].locked
    IN  IF n > 1 /\ rcount > 0
        THEN [d EXCEPT !.m.locked = @ - 1]
        ELSE RemoveLock([d EXCEPT !.lk[h].expried = TRUE,
                                  !.m.locked = @ - (IF n > 1 THEN n ELSE 1)], h)

\* The release done by UnLock on holder h: one level when the holder is
\* re-entered and rcount > 0; all its levels when re-entered and rcount = 0;
\* otherwise one level (locked--), which also removes it.
UnlockRelease(d, h, rcount) ==
    LET n == d.lk[h].locked
    IN  IF n > 1 /\ rcount > 0
        THEN [d EXCEPT !.m.locked = @ - 1, !.lk[h].locked = @ - 1]
        ELSE RemoveLock([d EXCEPT !.lk[h].expried = TRUE,
                                  !.m.locked = @ - (IF n > 1 THEN n ELSE 1)], h)

-----------------------------------------------------------------------------
(* Initial state: a fresh LockDB (NewLockDB), no manager for the key yet.  *)

Init ==
    /\ current_time = 0
    /\ check_timeout_time = 0
    /\ check_expried_time = 0
    /\ db = [m |-> NoManagerState, lk |-> [r \in Recs |-> FreeLockRec],
             tw |-> [s \in 0..(WheelLen - 1) |-> <<>>],
             ew |-> [s \in 0..(WheelLen - 1) |-> <<>>], key_count |-> 0]
    /\ glock = None
    /\ th = [a \in Actors |-> IF a \in Procs THEN Idle ELSE Unspawned]
    /\ replies = [q \in Reqs |-> <<>>]
    /\ nreq = 0
    /\ db_created = FALSE
    /\ crashed = FALSE

-----------------------------------------------------------------------------
(* Connection goroutines.                                                  *)

\* GetOrNewLockManager (under db.glock): the key's manager from the fast
\* index, or one taken from the free list and put in the index.  A manager
\* taken from the free list keeps locked, waited and current_lock.
GetOrNewLockManager(d) ==
    IF d.m.indexed THEN d
    ELSE [d EXCEPT !.m.indexed = TRUE, !.m.freed = FALSE, !.key_count = @ + 1]

\* GetLockManager (under db.glock): is the key's manager in the index?
GetLockManager(d) == d.m.indexed

\* ProcessLockCommand: a decoded command reaches the db.  LOCK creates the
\* db if needed and looks up or creates the key's manager; UNLOCK on a db
\* never created is UNKNOWN_DB, on a key with no manager UNLOCK_ERROR.
\* The lookups take db.glock, not the shard mutex, and touch nothing the
\* steps of other goroutines in between could tell apart, so the command
\* and its lookup are one step.
ProcessLockCommand(p) ==
    LET q == nreq + 1
        start(pc, c) == th' = [th EXCEPT ![p] = [Idle EXCEPT !.pc = pc,
                                                         !.req = q, !.cmd = c]]
    IN
    /\ th[p].pc = "idle"
    /\ nreq < MaxRequests
    /\ nreq' = q
    /\ \/ \E c \in LockCmds :
            /\ start("lock_body", c)
            /\ db' = GetOrNewLockManager(db)
            /\ db_created' = TRUE
            /\ UNCHANGED replies
       \/ \E c \in UnlockCmds :
            /\ db_created /\ GetLockManager(db)
            /\ start("unlock_body", c)
            /\ UNCHANGED <<db, replies, db_created>>
       \/ /\ db_created /\ ~GetLockManager(db)
          /\ Reply(q, "UNLOCK_ERROR")
          /\ UNCHANGED <<db, th, db_created>>
       \/ /\ ~db_created
          /\ Reply(q, "UNKNOWN_DB")
          /\ UNCHANGED <<db, th, db_created>>
    /\ UNCHANGED <<current_time, check_timeout_time, check_expried_time,
                   glock, crashed>>

\* Lock, under lock_manager.glock: a manager freed since the lookup makes
\* the request start again; a held key is queried, re-entered or refused.
LockHeld(p) ==
    LET c == th[p].cmd
        q == th[p].req
        own == HolderOf(db, c.lid)
        done == th' = [th EXCEPT ![p] = Idle]
    IN
    /\ th[p].pc = "lock_body"
    /\ glock = None
    /\ \/ /\ db.m.freed
          /\ db' = GetOrNewLockManager(db)
          /\ UNCHANGED <<th, replies>>
       \/ /\ ~db.m.freed /\ db.m.locked > 0 /\ c.flag = 1
          /\ th' = [th EXCEPT ![p].pc = "lock_query"]
          /\ UNCHANGED <<db, replies>>
       \/ /\ ~db.m.freed /\ db.m.locked > 0 /\ c.flag # 1
          /\ \E h \in own :
               LET l == db.lk[h] IN
               \/ /\ c.flag = 2
                  /\ db' = UpdateLockedLock(db, h, c, current_time)
                  /\ Reply(q, "LOCKED_ERROR")
               \/ /\ c.flag # 2 /\ l.locked <= c.rcount /\ c.expried = 0
                  /\ Reply(q, "LOCKED_ERROR")
                  /\ UNCHANGED db
               \/ /\ c.flag # 2 /\ l.locked <= c.rcount /\ c.expried > 0
                  /\ db' = UpdateLockedLock(
                             [db EXCEPT !.m.locked = @ + 1,
                                        !.lk[h].locked = (@ + 1) % LockedMod],
                             h, c, current_time)
                  /\ Reply(q, "SUCCED")
               \/ /\ c.flag # 2 /\ l.locked > c.rcount
                  /\ Reply(q, "LOCKED_ERROR")
                  /\ UNCHANGED db
          /\ done
    /\ UNCHANGED <<current_time, check_timeout_time, check_expried_time, glock,
                   nreq, db_created, crashed>>

\* Lock, after releasing the mutex with flag 0x01: reads current_lock to
\* echo the holder; a nil current_lock is a nil dereference, which ends
\* the process: every goroutine stops.
LockQueryReply(p) ==
    /\ th[p].pc = "lock_query"
    /\ \/ /\ db.m.current # None
          /\ Reply(th[p].req, "UNOWN_ERROR")
          /\ th' = [th EXCEPT ![p] = Idle]
          /\ UNCHANGED crashed
       \/ /\ db.m.current = None
          /\ crashed' = TRUE
          /\ th' = [a \in Actors |-> [th[a] EXCEPT !.pc = "dead"]]
          /\ UNCHANGED replies
    /\ UNCHANGED <<current_time, check_timeout_time, check_expried_time, db,
                   glock, nreq, db_created>>

\* Lock, under lock_manager.glock, for a free key or a new lock_id: a new
\* record is granted, queued as a waiter, or refused with TIMEOUT.
LockAcquire(p) ==
    LET c == th[p].cmd
        q == th[p].req
    IN
    /\ th[p].pc = "lock_body"
    /\ glock = None
    /\ ~db.m.freed
    /\ db.m.locked = 0 \/ (c.flag # 1 /\ HolderOf(db, c.lid) = {})
    /\ \E r \in FreeRecs(db) :
         LET d1 == GetOrNewLock(db, r, q, c, current_time) IN
         \/ /\ DoLock(d1, r) /\ c.expried > 0
            /\ db' = LET d2 == AddExpried([AddLock(d1, r) EXCEPT !.m.locked = @ + 1],
                                          r, check_expried_time)
                     IN  [d2 EXCEPT !.lk[r].ref_count = @ + 1]
            /\ Reply(q, "SUCCED")
         \/ /\ DoLock(d1, r) /\ c.expried = 0
            /\ db' = MaybeRemoveManager(FreeLock(d1, r))
            /\ Reply(q, "SUCCED")
         \/ /\ ~DoLock(d1, r) /\ c.timeout > 0
            /\ db' = LET d2 == AddTimeOut(AddWaitLock(d1, r), r, check_timeout_time)
                     IN  [d2 EXCEPT !.lk[r].ref_count = @ + 1]
            /\ UNCHANGED replies
         \/ /\ ~DoLock(d1, r) /\ c.timeout = 0
            /\ db' = MaybeRemoveManager(FreeLock(d1, r))
            /\ Reply(q, "TIMEOUT")
    /\ th' = [th EXCEPT ![p] = Idle]
    /\ UNCHANGED <<current_time, check_timeout_time, check_expried_time, glock,
                   nreq, db_created, crashed>>

\* UnLock, under lock_manager.glock: refuse a free key or a non-holder
\* (flag 0x01 releases current_lock instead), take the head waiter, release
\* one level or all levels of the holder, reply, then wake the waiter.
UnlockBody(p) ==
    LET c == th[p].cmd
        q == th[p].req
        own == HolderOf(db, c.lid)
        target == IF own # {} THEN own
                  ELSE IF c.flag = 1 /\ db.m.current # None THEN {db.m.current}
                  ELSE {}
    IN
    /\ th[p].pc = "unlock_body"
    /\ glock = None
    /\ \/ /\ db.m.locked = 0
          /\ Reply(q, "UNLOCK_ERROR")
          /\ th' = [th EXCEPT ![p] = Idle]
          /\ UNCHANGED db
       \/ /\ db.m.locked > 0 /\ target = {}
          /\ Reply(q, "UNOWN_ERROR")
          /\ th' = [th EXCEPT ![p] = Idle]
          /\ UNCHANGED db
       \/ /\ db.m.locked > 0
          /\ \E h \in target :
               LET g == GetWaitLock(db) IN
               /\ db' = UnlockRelease(g.d, h, c.rcount)
               /\ Reply(q, "SUCCED")
               /\ th' = [th EXCEPT ![p] = IF g.w = None THEN Idle
                                          ELSE [@ EXCEPT !.pc = "cascade",
                                                         !.wait = g.w]]
    /\ UNCHANGED <<current_time, check_timeout_time, check_expried_time, glock,
                   nreq, db_created, crashed>>

\* Mutant: the cascade grants the waiter it carries without asking DoLock
\* again under the mutex it has just re-taken.
WakeCascadeNoRecheck(a) ==
    LET w == th[a].wait
        k == WakeUpWaitLock(db, w, check_expried_time)
    IN
    /\ th[a].pc = "cascade"
    /\ glock = None
    /\ db' = k.d
    /\ IF k.granted THEN Reply(db.lk[w].req, "SUCCED") ELSE UNCHANGED replies
    /\ th' = [th EXCEPT ![a].wait = k.next,
                        ![a].pc = IF k.next = None THEN "cascade_end" ELSE "cascade"]
    /\ UNCHANGED <<current_time, check_timeout_time, check_expried_time, glock,
                   nreq, db_created, crashed>>

\* One iteration of the wake cascade of UnLock and DoExpried: under the
\* mutex, stop if DoLock refuses the waiter, else WakeUpWaitLock.  The
\* waiter was read under an earlier hold of the mutex.
WakeCascade(a) ==
    LET w == th[a].wait IN
    /\ th[a].pc = "cascade"
    /\ glock = None
    /\ \/ /\ ~DoLock(db, w)
          /\ th' = [th EXCEPT ![a].pc = AfterCascade(a), ![a].wait = None]
          /\ UNCHANGED <<db, replies>>
       \/ /\ DoLock(db, w)
          /\ LET k == WakeUpWaitLock(db, w, check_expried_time) IN
             /\ db' = k.d
             /\ IF k.granted THEN Reply(db.lk[w].req, "SUCCED")
                ELSE UNCHANGED replies
             /\ th' = [th EXCEPT ![a].wait = k.next,
                                 ![a].pc = IF k.next = None THEN "cascade_end"
                                           ELSE "cascade"]
    /\ UNCHANGED <<current_time, check_timeout_time, check_expried_time, glock,
                   nreq, db_created, crashed>>

\* lock_manager.waited = false, written after WakeUpWaitLock released the
\* mutex, without holding it.
CascadeEnd(a) ==
    /\ th[a].pc = "cascade_end"
    /\ db' = [db EXCEPT !.m.waited = FALSE]
    /\ th' = [th EXCEPT ![a].pc = AfterCascade(a), ![a].wait = None]
    /\ UNCHANGED <<current_time, check_timeout_time, check_expried_time, glock,
                   replies, nreq, db_created, crashed>>

-----------------------------------------------------------------------------
(* Background goroutines: the clock, the dispatchers and the wheel scans.  *)

\* UpdateCurrentTime, started by NewLockDB when the first LOCK creates the
\* db (as are the two dispatchers): current_time advances one second.
UpdateCurrentTime ==
    /\ db_created /\ ~crashed
    /\ current_time < MaxTime
    /\ current_time' = current_time + 1
    /\ UNCHANGED <<check_timeout_time, check_expried_time, db, glock, th,
                   replies, nreq, db_created, crashed>>

\* The scan goroutines a dispatcher iteration starts: one per tick from
\* the saved check time to now, each with its tick and now.
Spawn(k, saved, now) ==
    [a \in Actors |-> IF a \in Scans /\ a[1] = k /\ a[2] \in saved..now
                      THEN [Idle EXCEPT !.pc = "scan_lock", !.now = now]
                      ELSE th[a]]

\* One iteration of CheckTimeOut: save check_timeout_time, read now,
\* publish now + 1, lock and unlock every shard mutex, start one
\* CheckTimeTimeOut per tick.  Every critical section of the model is a
\* single step and a started scan must take the mutex before it touches
\* the wheel, so the barrier is implied and the iteration is one step.
\* The one-second sleep is the guard: a tick is published at most once.
CheckTimeOut ==
    /\ db_created /\ ~crashed
    /\ check_timeout_time <= current_time
    /\ check_timeout_time' = current_time + 1
    /\ th' = Spawn("T", check_timeout_time, current_time)
    /\ UNCHANGED <<current_time, check_expried_time, db, glock, replies,
                   nreq, db_created, crashed>>

\* One iteration of CheckExpried, symmetric on the expiry wheel.
CheckExpried ==
    /\ db_created /\ ~crashed
    /\ check_expried_time <= current_time
    /\ check_expried_time' = current_time + 1
    /\ th' = Spawn("E", check_expried_time, current_time)
    /\ UNCHANGED <<current_time, check_timeout_time, db, glock, replies,
                   nreq, db_created, crashed>>

\* The slot a scan goroutine reads (queues[now % QUEUE_LENGTH]).
ScanSlot(d, s) == (IF s[1] = "T" THEN d.tw ELSE d.ew)[s[2] % WheelLen]

\* A wheel scan takes the shard mutex (CheckTimeTimeOut / CheckTimeExpried)
\* to pop a non-empty slot.
ScanLock(s) ==
    /\ th[s].pc = "scan_lock"
    /\ glock = None
    /\ ScanSlot(db, s) # <<>>
    /\ glock' = s
    /\ th' = [th EXCEPT ![s].pc = "scan_pop"]
    /\ UNCHANGED <<current_time, check_timeout_time, check_expried_time, db,
                   replies, nreq, db_created, crashed>>

\* A scan of an empty slot: lock, the first Pop returns nil, unlock, Reset,
\* nothing staged, return.  No other goroutine can observe the mutex held
\* in between, so the whole goroutine is one step.
ScanEmpty(s) ==
    /\ th[s].pc = "scan_lock"
    /\ glock = None
    /\ ScanSlot(db, s) = <<>>
    /\ th' = [th EXCEPT ![s].pc = "done"]
    /\ UNCHANGED <<current_time, check_timeout_time, check_expried_time, db,
                   glock, replies, nreq, db_created, crashed>>

\* CheckTimeTimeOut, one Pop of the slot: a record not yet due is enrolled
\* again one step further, a due one is staged, a timed-out or granted one
\* loses the wheel's reference.
TimeoutScanPop(s) ==
    LET slot == s[2] % WheelLen
        r == Head(db.tw[slot])
        l == db.lk[r]
        d0 == [db EXCEPT !.tw[slot] = Tail(@)]
    IN
    /\ s[1] = "T"
    /\ th[s].pc = "scan_pop"
    /\ db.tw[slot] # <<>>
    /\ \/ /\ ~l.timeouted /\ l.timeout_time > th[s].now
          /\ db' = AddTimeOut([d0 EXCEPT !.lk[r].timeout_checked_count = @ + 1],
                              r, check_timeout_time)
          /\ UNCHANGED th
       \/ /\ ~l.timeouted /\ l.timeout_time <= th[s].now
          /\ db' = d0
          /\ th' = [th EXCEPT ![s].staged = Append(@, r)]
       \/ /\ l.timeouted
          /\ db' = MaybeRemoveManager(DropLockRef(d0, r))
          /\ UNCHANGED th
    /\ UNCHANGED <<current_time, check_timeout_time, check_expried_time, glock,
                   replies, nreq, db_created, crashed>>

\* CheckTimeExpried, one Pop of the slot, symmetric on the expried fields.
ExpriedScanPop(s) ==
    LET slot == s[2] % WheelLen
        r == Head(db.ew[slot])
        l == db.lk[r]
        d0 == [db EXCEPT !.ew[slot] = Tail(@)]
    IN
    /\ s[1] = "E"
    /\ th[s].pc = "scan_pop"
    /\ db.ew[slot] # <<>>
    /\ \/ /\ ~l.expried /\ l.expried_time > th[s].now
          /\ db' = AddExpried([d0 EXCEPT !.lk[r].expried_checked_count = @ + 1],
                              r, check_expried_time)
          /\ UNCHANGED th
       \/ /\ ~l.expried /\ l.expried_time <= th[s].now
          /\ db' = d0
          /\ th' = [th EXCEPT ![s].staged = Append(@, r)]
       \/ /\ l.expried
          /\ db' = MaybeRemoveManager(DropLockRef(d0, r))
          /\ UNCHANGED th
    /\ UNCHANGED <<current_time, check_timeout_time, check_expried_time, glock,
                   replies, nreq, db_created, crashed>>

\* The slot is empty: unlock the shard mutex and Reset the queue.
ScanUnlock(s) ==
    /\ th[s].pc = "scan_pop"
    /\ ScanSlot(db, s) = <<>>
    /\ glock' = None
    /\ th' = [th EXCEPT ![s].pc = FireNext(th[s].staged)]
    /\ UNCHANGED <<current_time, check_timeout_time, check_expried_time, db,
                   replies, nreq, db_created, crashed>>

\* DoTimeOut on the next staged record, under the mutex: a record granted
\* or already timed out just loses the wheel's reference; otherwise it is
\* marked timed out, dropped from the head of the queue if there, and its
\* request gets TIMEOUT.
DoTimeOut(s) ==
    LET r == Head(th[s].staged)
        l == db.lk[r]
    IN
    /\ s[1] = "T"
    /\ th[s].pc = "fire"
    /\ th[s].staged # <<>>
    /\ glock = None
    /\ \/ /\ l.timeouted
          /\ db' = MaybeRemoveManager(DropLockRef(db, r))
          /\ UNCHANGED replies
       \/ /\ ~l.timeouted
          /\ LET g == GetWaitLock([db EXCEPT !.lk[r].timeouted = TRUE])
             IN  db' = MaybeRemoveManager(DropLockRef(g.d, r))
          /\ Reply(l.req, "TIMEOUT")
    /\ th' = [th EXCEPT ![s].staged = Tail(@), ![s].pc = FireNext(Tail(th[s].staged))]
    /\ UNCHANGED <<current_time, check_timeout_time, check_expried_time, glock,
                   nreq, db_created, crashed>>

\* DoExpried on the next staged record, under the mutex: a released record
\* just loses the wheel's reference; otherwise all its levels are released,
\* its request gets EXPRIED and the head waiter, if any, is woken.
DoExpried(s) ==
    LET r == Head(th[s].staged)
        l == db.lk[r]
    IN
    /\ s[1] = "E"
    /\ th[s].pc = "fire"
    /\ th[s].staged # <<>>
    /\ glock = None
    /\ \/ /\ l.expried
          /\ db' = MaybeRemoveManager(DropLockRef(db, r))
          /\ th' = [th EXCEPT ![s].staged = Tail(@),
                              ![s].pc = FireNext(Tail(th[s].staged))]
          /\ UNCHANGED replies
       \/ /\ ~l.expried
          /\ LET d1 == RemoveLock([db EXCEPT !.lk[r].expried = TRUE,
                                             !.m.locked = @ - l.locked], r)
                 g == GetWaitLock(d1)
             IN  /\ db' = MaybeRemoveManager(DropLockRef(g.d, r))
                 /\ th' = [th EXCEPT ![s].staged = Tail(@),
                                     ![s].wait = g.w,
                                     ![s].pc = IF g.w = None THEN FireNext(Tail(th[s].staged))
                                               ELSE "cascade"]
          /\ Reply(l.req, "EXPRIED")
    /\ UNCHANGED <<current_time, check_timeout_time, check_expried_time, glock,
                   nreq, db_created, crashed>>

-----------------------------------------------------------------------------

\* Every bound is reached and every goroutine is at rest, or the process died.
Terminated ==
    /\ \/ crashed
       \/ /\ nreq = MaxRequests
          /\ db_created => /\ current_time = MaxTime
                           /\ check_timeout_time > MaxTime
                           /\ check_expried_time > MaxTime
          /\ \A a \in Actors : th[a].pc \in {"idle", "unspawned", "done"}
    /\ UNCHANGED vars

Proc(p) ==
    \/ ProcessLockCommand(p)
    \/ LockHeld(p)
    \/ LockQueryReply(p)
    \/ LockAcquire(p)
    \/ UnlockBody(p)

Scan(s) ==
    \/ ScanLock(s)
    \/ ScanEmpty(s)
    \/ TimeoutScanPop(s)
    \/ ExpriedScanPop(s)
    \/ ScanUnlock(s)
    \/ DoTimeOut(s)
    \/ DoExpried(s)

Next ==
    \/ \E p \in Procs : Proc(p)
    \/ \E s \in Scans : Scan(s)
    \/ \E a \in Actors : WakeCascade(a) \/ CascadeEnd(a)
    \/ UpdateCurrentTime
    \/ CheckTimeOut
    \/ CheckExpried
    \/ Terminated

Spec == Init /\ [][Next]_vars

-----------------------------------------------------------------------------
(* Properties.                                                             *)

Occurrences(s, r) == Cardinality({i \in DOMAIN s : s[i] = r})

\* Every place that holds a reference to record r: the holder list, the
\* waiter queue, the slots of both wheels and the staged lists of scans.
References(d, r) ==
    Occurrences(d.m.holders, r) + Occurrences(d.m.waiters, r)
    + MapThenSumSet(LAMBDA s : Occurrences(d.tw[s], r), DOMAIN d.tw)
    + MapThenSumSet(LAMBDA s : Occurrences(d.ew[s], r), DOMAIN d.ew)
    + MapThenSumSet(LAMBDA a : Occurrences(th[a].staged, r), Scans)

TypeOK ==
    /\ current_time \in 0..MaxTime
    /\ check_timeout_time \in 0..(MaxTime + 1)
    /\ check_expried_time \in 0..(MaxTime + 1)
    /\ db.m.locked \in Nat
    /\ db.m.current \in Recs \cup {None}
    /\ db.m.holders \in Seq(Recs) /\ db.m.waiters \in Seq(Recs)
    /\ db.m.ref_count \in Nat
    /\ \A r \in Recs : /\ db.lk[r].ref_count \in Nat
                       /\ db.lk[r].locked \in 0..(LockedMod - 1)
    /\ glock \in Scans \cup {None}
    /\ \A a \in Actors : th[a].wait \in Recs \cup {None}
    /\ \A q \in Reqs : replies[q] \in Seq(Codes)
    /\ nreq \in 0..MaxRequests

\* Holder count (spec 3, invariant 3): the manager's locked counter is the
\* sum of the re-entry depths of its holders, through Lock's re-entry
\* (db.go 755-756), UnLock's one-level and all-level releases, expiry and
\* wake cascades.
HolderCountInv ==
    db.m.locked = MapThenSumSet(LAMBDA h : db.lk[h].locked, ToSet(db.m.holders))

\* Reference counting (spec 3, invariants 4 and 5): a record in use has
\* exactly as many references as places that hold it and at least one (a
\* record nobody holds must be back in the free list), a record in the
\* free list is held nowhere, and the manager counts its records in use.
\* A record freed while a wheel still holds it would be handed to another
\* request by GetOrNewLock and fired by the wheel under that request.
RefCountInv ==
    /\ \A r \in Recs :
         IF db.lk[r].inuse THEN /\ db.lk[r].ref_count = References(db, r)
                                /\ db.lk[r].ref_count > 0
         ELSE References(db, r) = 0
    /\ db.m.ref_count = Cardinality({r \in Recs : db.lk[r].inuse})

\* A manager is reclaimed (RemoveLockManager) only when it has no record
\* left: while a record is in use, the manager is not freed and is
\* reachable from the index.
LiveManagerInv ==
    (\E r \in Recs : db.lk[r].inuse) => (~db.m.freed /\ db.m.indexed)

\* Every command gets exactly one reply (spec 4.7.1), except a granted
\* LOCK, whose request later gets EXPRIED if the holder expires: the wake
\* cascades of UnLock and DoExpried, which carry a waiter read under an
\* earlier hold of the mutex (db.go 685-700, 911-927), must never grant a
\* waiter twice, answer a timed-out one, or wake a record that DoTimeOut
\* freed and a later LOCK took from the pool.
ReplyInv ==
    \A q \in Reqs :
        \/ Len(replies[q]) <= 1
        \/ replies[q] = <<"SUCCED", "EXPRIED">>

\* Shared locks (spec 3: count is the maximum number of distinct holders
\* the key may have; spec 4.7.1: up to min(count)): no holder shares the
\* key with more holders than its own count admits.  DoLock compares the
\* manager's locked counter with current_lock's count and the new
\* record's count only; with every count 0 this is mutual exclusion.
HolderLimitInv ==
    \A h \in ToSet(db.m.holders) : Len(db.m.holders) <= db.lk[h].cmd.count + 1

\* Wake order (spec 3: `waited` makes the engine refuse immediate grants
\* while waiters are pending, to preserve wake order): a new request is
\* never made a holder at once, skipping the queue, while a request that is
\* still waiting is queued.  UnLock releases the mutex between releasing
\* the holder and waking the head waiter, and DoLock grants whenever
\* locked is 0, before it looks at waited.
NoOvertaking ==
    [][\A r \in Recs :
         (~db.lk[r].inuse /\ r \in ToSet(db'.m.holders))
         => \A w \in ToSet(db.m.waiters) : db.lk[w].timeouted]_vars

\* The flag 0x01 query of Lock never dereferences a nil current_lock: it
\* reads current_lock after releasing the mutex (db.go 716-718).
NoNilDereference == ~crashed
-----------------------------------------------------------------------------
(* Refinement of the abstract lock service.                                *)

\* The re-entry depth of each lock id on the key: the levels of its holder
\* records.
HeldDepth ==
    [l \in LockIds |-> MapThenSumSet(LAMBDA h : db.lk[h].locked, HolderOf(db, l))]

LS == INSTANCE LockService WITH depth <- HeldDepth

\* The engine implements the lock service of an exclusive key (LockService):
\* at most one lock id holds the key, and every change of the holders and
\* their depths happens in the critical section that decides the reply
\* reporting it (the code sends that reply through SLock.Active right after
\* releasing the mutex; replies records the decided result), a
\* SUCCED for a grant (Lock, and the wake cascades of UnLock and DoExpried
\* that grant a waiter after re-taking the mutex), a SUCCED for an UNLOCK
\* that drops one level or all, an EXPRIED from DoExpried; no timeout,
\* wheel scan or manager reclaim changes the holders silently.  (LS!Spec,
\* with the stuttering steps, most of the engine's, tried first.)
LockServiceRefined == LS!Init /\ [][UNCHANGED LS!vars \/ LS!Next]_LS!vars
=============================================================================
