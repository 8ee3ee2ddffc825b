----------------------------- MODULE FastIndex -----------------------------
(***************************************************************************)
(* The key index of a LockDB (src/server/db.go): the segments of the      *)
(* fast_locks table and the goroutine that doubles it, the stack of free   *)
(* LockManagers with its 4096-at-a-time allocation, and the client         *)
(* goroutines that look a key up, wait for the manager's shard mutex, and  *)
(* attach a lock record to it or drop one.                                 *)
(*                                                                         *)
(* A lookup (GetOrNewLockManager, GetLockManager) and RemoveLockManager    *)
(* each run under db.glock and are one step.  Attaching a record runs      *)
(* under the manager's shard mutex and is another step: between the two a  *)
(* manager can be freed and handed to another key.  The write of lock_key  *)
(* that GetOrNewLockManager performs after releasing db.glock (383, 422)   *)
(* is a step of its own.  A record is dropped by UnLock or by its expiry,  *)
(* and RemoveLockManager runs inside that same shard critical section.     *)
(*                                                                         *)
(* No slot is ever marked conflict_maped: GetOrNewLockManager returns at   *)
(* 348-350 before it could mark one (373-376), and the resize marks only   *)
(* managers it takes from the overflow map `locks` (322-327), which is     *)
(* filled only by those two places.  So the map stays empty, keys sharing  *)
(* a slot share its manager, and RemoveFastLockManager is never called.    *)
(* An index out of a segment's range, a nil segment or a nil manager is a  *)
(* Go panic, which ends the server: the variable crashed.                  *)
(***************************************************************************)
EXTENDS Integers, Sequences, FiniteSets, SequencesExt, FiniteSetsExt, Bitwise

CONSTANTS
    Procs,       \* client goroutines issuing LOCK / UNLOCK commands
    Keys,        \* lock keys (model values)
    ZeroKey,     \* the zero [2]uint64 a fresh LockManager's lock_key holds
    Hash,        \* Hash[k] is LockKey[1] of key k (with Hash[ZeroKey] = 0)
    SegBits,     \* log2 FAST_LOCK_SEG_LENGTH (23 in the code)
    Alloc,       \* the LockManager structs, in the order batches hand them out
    BatchSize,   \* managers made per batch (4096 in the code)
    FreeCap,     \* capacity of free_lock_managers (4194304 in the code)
    MaxSegs,     \* len(fast_locks) (128 in the code)
    ResizeSegLen,\* length of a segment made by a resize (EXPRIED_QUEUE_LENGTH, 16)
    MaxResizes,  \* bound on resizes (the trigger depends on the LOCK rate)
    MaxLocks,    \* bound on LOCK commands issued
    None

Mgrs == ToSet(Alloc)
SegLen == 2^SegBits
Segs == 0 .. MaxSegs - 1
Slots == 0 .. SegLen - 1

\* db.go 343-344: (LockKey[1] & fast_lock_count) >> 23 picks the segment,
\* LockKey[1] & FAST_LOCK_SEG_LENGTH_MASK the slot.
FastBaseIndex(k, count) == shiftR(Hash[k] & count, SegBits)
FastIndex(k) == Hash[k] % SegLen

ASSUME /\ Hash \in [Keys \cup {ZeroKey} -> Nat] /\ Hash[ZeroKey] = 0
       \* only fast_locks[0] is allocated (db.go 49-50): a key whose bit
       \* SegBits is set would index a nil segment on its first LOCK
       /\ \A k \in Keys : FastBaseIndex(k, SegLen) = 0
       /\ Len(Alloc) % BatchSize = 0
       /\ ResizeSegLen < SegLen

VARIABLES
    fast_locks,          \* segment -> slot -> manager or None
    seglen,              \* segment -> its length, 0 for a nil segment
    fast_lock_count,
    resizing_fast_lock_count,
    free_lock_managers,  \* stack of free managers, top at the end
    unalloc,             \* managers no batch has made yet
    mgr,                 \* manager -> [lock_key, freed, ref_count]
    key_count,           \* state.KeyCount
    proc,                \* goroutine -> [pc, key, m, held]
    resizer,             \* CheckResizingFastLocks: [pc, target, idx, i]
    nlocks,              \* LOCK commands issued so far
    nresizes,            \* resizes started so far
    crashed              \* a goroutine panicked

idx_vars == <<seglen, fast_lock_count, resizing_fast_lock_count, resizer, nresizes>>
vars == <<fast_locks, free_lock_managers, unalloc, mgr, key_count, proc, nlocks, crashed, idx_vars>>

Pcs == {"idle", "setkey", "attach", "retry", "holding", "unowned"}

Init ==
    /\ fast_locks = [b \in Segs |-> [j \in Slots |-> None]]
    /\ seglen = [b \in Segs |-> IF b = 0 THEN SegLen ELSE 0]
    /\ fast_lock_count = SegLen
    /\ resizing_fast_lock_count = 0
    /\ free_lock_managers = <<>>
    /\ unalloc = Alloc
    /\ mgr = [m \in Mgrs |-> [lock_key |-> ZeroKey, freed |-> FALSE, ref_count |-> 0]]
    /\ key_count = 0
    /\ proc = [p \in Procs |-> [pc |-> "idle", key |-> ZeroKey, m |-> None, held |-> None]]
    /\ resizer = [pc |-> "idle", target |-> 0, idx |-> 0, i |-> 0]
    /\ nlocks = 0
    /\ nresizes = 0
    /\ crashed = FALSE

\* fast_locks[b][j] can be read: b is inside the table and the segment is
\* allocated and long enough.
Valid(b, j) == b \in Segs /\ j < seglen[b]
At(b, j) == IF Valid(b, j) THEN fast_locks[b][j] ELSE None

Base(k) == FastBaseIndex(k, fast_lock_count)
ResBase(k) == FastBaseIndex(k, resizing_fast_lock_count)

\* db.go 346-358 (GetOrNewLockManager) and 430-442 (GetLockManager): the
\* manager in k's slot, whatever key it serves; while a resize runs, an
\* empty slot sends the lookup to the slot under the old count.  The map
\* lookups that follow (360-364, 444-448) always miss.
LookupPanics(k) ==
    \/ ~Valid(Base(k), FastIndex(k))
    \/ /\ At(Base(k), FastIndex(k)) = None /\ resizing_fast_lock_count # 0
       /\ ~Valid(ResBase(k), FastIndex(k))
Lookup(k) ==
    IF At(Base(k), FastIndex(k)) # None THEN At(Base(k), FastIndex(k))
    ELSE IF resizing_fast_lock_count # 0 THEN At(ResBase(k), FastIndex(k))
    ELSE None

\* A goroutine panics: the process ends.
Panic ==
    /\ crashed' = TRUE
    /\ UNCHANGED <<fast_locks, free_lock_managers, unalloc, mgr, key_count, proc, nlocks, idx_vars>>

\* db.go 385-404: a batch is made and pushed in order when the stack is empty.
NewBatch(free, un) ==
    IF free = <<>> THEN [free |-> SubSeq(un, 1, BatchSize), un |-> SubSeq(un, BatchSize + 1, Len(un))]
                   ELSE [free |-> free, un |-> un]

\* Lock, db.go 705-706, with GetOrNewLockManager 340-424.  On a miss the
\* top of the free stack is popped, marked not freed and put in the slot;
\* its lock_key is written after db.glock is released (step SetLockKey).
GetOrNewLockManager(p, k) ==
    /\ ~crashed
    /\ proc[p].pc = "idle" \/ (proc[p].pc = "retry" /\ proc[p].key = k)
    \* the retry of db.go 711 is the same command, not a new one
    /\ proc[p].pc = "idle" => nlocks < MaxLocks
    /\ IF LookupPanics(k) THEN Panic ELSE
       /\ nlocks' = IF proc[p].pc = "idle" THEN nlocks + 1 ELSE nlocks
       /\ IF Lookup(k) # None
            THEN /\ proc' = [proc EXCEPT ![p] = [@ EXCEPT !.pc = "attach", !.key = k, !.m = Lookup(k)]]
                 /\ UNCHANGED <<fast_locks, free_lock_managers, unalloc, mgr, key_count>>
            ELSE LET b == NewBatch(free_lock_managers, unalloc)
                     m == Last(b.free)
                 IN /\ b.free # <<>>
                    /\ free_lock_managers' = Front(b.free)
                    /\ unalloc' = b.un
                    /\ mgr' = [mgr EXCEPT ![m].freed = FALSE]
                    /\ fast_locks' = [fast_locks EXCEPT ![Base(k)][FastIndex(k)] = m]
                    /\ key_count' = key_count + 1
                    /\ proc' = [proc EXCEPT ![p] = [@ EXCEPT !.pc = "setkey", !.key = k, !.m = m]]
       /\ UNCHANGED <<crashed, idx_vars>>

\* db.go 383 / 422: lock_manager.lock_key = command.LockKey, outside db.glock.
SetLockKey(p) ==
    /\ ~crashed
    /\ proc[p].pc = "setkey"
    /\ mgr' = [mgr EXCEPT ![proc[p].m].lock_key = proc[p].key]
    /\ proc' = [proc EXCEPT ![p].pc = "attach"]
    /\ UNCHANGED <<fast_locks, free_lock_managers, unalloc, key_count, nlocks, crashed, idx_vars>>

\* Mutant: the freed check of db.go 709 is missing.
AttachNoFreedCheck(p) ==
    /\ ~crashed
    /\ proc[p].pc = "attach"
    /\ mgr' = [mgr EXCEPT ![proc[p].m].ref_count = @ + 1]
    /\ proc' = [proc EXCEPT ![p] = [@ EXCEPT !.pc = "holding", !.held = proc[p].m, !.m = None]]
    /\ UNCHANGED <<fast_locks, free_lock_managers, unalloc, key_count, nlocks, crashed, idx_vars>>

\* db.go 707-712: under the shard mutex a freed manager sends
\* the command back to the lookup; otherwise a lock record is attached.
Attach(p) ==
    LET m == proc[p].m IN
    /\ ~crashed
    /\ proc[p].pc = "attach"
    /\ IF mgr[m].freed
         THEN /\ proc' = [proc EXCEPT ![p] = [@ EXCEPT !.pc = "retry", !.m = None]]
              /\ UNCHANGED mgr
         ELSE /\ mgr' = [mgr EXCEPT ![m].ref_count = @ + 1]
              /\ proc' = [proc EXCEPT ![p] = [@ EXCEPT !.pc = "holding", !.held = m, !.m = None]]
    /\ UNCHANGED <<fast_locks, free_lock_managers, unalloc, key_count, nlocks, crashed, idx_vars>>

\* db.go 493-511: the slot RemoveLockManager clears for key k, or None.
\* An empty slot during a resize makes it read the slot under the old
\* count and, at 507, dereference what it finds there.
RemoveSlot(k) ==
    IF At(Base(k), FastIndex(k)) # None THEN <<Base(k), FastIndex(k)>>
    ELSE IF resizing_fast_lock_count # 0 THEN <<ResBase(k), FastIndex(k)>>
    ELSE None
RemovePanics(k) ==
    \/ ~Valid(Base(k), FastIndex(k))
    \/ /\ At(Base(k), FastIndex(k)) = None /\ resizing_fast_lock_count # 0
       /\ At(ResBase(k), FastIndex(k)) = None
ClearSlot(s) == IF s = None THEN fast_locks ELSE [fast_locks EXCEPT ![s[1]][s[2]] = None]

\* The panic inside RemoveLockManager, within the step of its caller.
RemovePanic(mg) ==
    /\ crashed' = TRUE
    /\ mgr' = mg
    /\ UNCHANGED <<fast_locks, free_lock_managers, key_count>>

\* Mutant: KeyCount is not lowered when the free stack is full (527-528).
RemoveLockManagerFullNoCount(m, mg) ==
    IF mg[m].freed
      THEN /\ mgr' = mg
           /\ UNCHANGED <<fast_locks, free_lock_managers, key_count, crashed>>
      ELSE IF RemovePanics(mg[m].lock_key) THEN RemovePanic(mg)
      ELSE /\ fast_locks' = ClearSlot(RemoveSlot(mg[m].lock_key))
           /\ mgr' = [mg EXCEPT ![m].freed = TRUE]
           /\ free_lock_managers' = IF Len(free_lock_managers) < FreeCap
                                      THEN Append(free_lock_managers, m)
                                      ELSE free_lock_managers
           /\ key_count' = IF Len(free_lock_managers) < FreeCap THEN key_count - 1 ELSE key_count
           /\ UNCHANGED crashed

\* RemoveLockManager, db.go 490-540, applied to the managers mg: the slot
\* of lock_manager.lock_key is cleared whoever occupies it (497-499, 508),
\* the manager is marked freed and pushed on the free stack unless the
\* stack is full, and KeyCount drops in both branches.
RemoveLockManager(m, mg) ==
    IF mg[m].freed
      THEN /\ mgr' = mg
           /\ UNCHANGED <<fast_locks, free_lock_managers, key_count, crashed>>
      ELSE IF RemovePanics(mg[m].lock_key) THEN RemovePanic(mg)
      ELSE /\ fast_locks' = ClearSlot(RemoveSlot(mg[m].lock_key))
           /\ mgr' = [mg EXCEPT ![m].freed = TRUE]
           /\ free_lock_managers' = IF Len(free_lock_managers) < FreeCap
                                      THEN Append(free_lock_managers, m)
                                      ELSE free_lock_managers
           /\ key_count' = key_count - 1
           /\ UNCHANGED crashed

\* A lock record on m is freed (FreeLock drops the manager's ref_count) and,
\* in the same shard critical section, a manager left without references
\* is removed (db.go 647-654, 977-979).
DropRecord(m) ==
    LET mg == [mgr EXCEPT ![m].ref_count = @ - 1] IN
    IF mg[m].ref_count = 0
      THEN RemoveLockManager(m, mg)
      ELSE /\ mgr' = mg
           /\ UNCHANGED <<fast_locks, free_lock_managers, key_count, crashed>>

\* Mutant: UnLock drops the record but leaves it with the goroutine, so
\* the expiry scan drops it again.
UnLockKeepHeld(p) ==
    /\ ~crashed
    /\ proc[p].pc = "holding"
    /\ IF LookupPanics(proc[p].key) THEN Panic ELSE
       /\ IF Lookup(proc[p].key) = proc[p].held
            THEN DropRecord(proc[p].held)
            ELSE UNCHANGED <<fast_locks, free_lock_managers, mgr, key_count, crashed>>
       /\ proc' = [proc EXCEPT ![p].pc = "unowned"]
       /\ UNCHANGED <<unalloc, nlocks, idx_vars>>

\* UnLock, db.go 822-865 with GetLockManager 427-452: the manager found for
\* the key must be the one holding the record, or the command fails
\* (UNLOCK_ERROR / UNOWN_ERROR) and the record stays until it expires.
UnLock(p) ==
    /\ ~crashed
    /\ proc[p].pc = "holding"
    /\ IF LookupPanics(proc[p].key) THEN Panic ELSE
       /\ IF Lookup(proc[p].key) = proc[p].held
            THEN /\ DropRecord(proc[p].held)
                 /\ proc' = [proc EXCEPT ![p] = [@ EXCEPT !.pc = "idle", !.held = None]]
            ELSE /\ proc' = [proc EXCEPT ![p].pc = "unowned"]
                 /\ UNCHANGED <<fast_locks, free_lock_managers, mgr, key_count, crashed>>
       /\ UNCHANGED <<unalloc, nlocks, idx_vars>>

\* DoExpried, db.go 643-656: the expiry scan reaches the record through
\* lock.manager, not through the index.
Expire(p) ==
    /\ ~crashed
    /\ proc[p].pc \in {"holding", "unowned"}
    /\ DropRecord(proc[p].held)
    /\ proc' = [proc EXCEPT ![p] = [@ EXCEPT !.pc = "idle", !.held = None]]
    /\ UNCHANGED <<unalloc, nlocks, idx_vars>>

-----------------------------------------------------------------------------
(* CheckResizingFastLocks, db.go 229-337.  Its writes of fast_lock_count, *)
(* resizing_fast_lock_count and fast_locks[idx] (237-245) and its reads of *)
(* the segments (249-257) take no lock; each move (261-266) and the final  *)
(* rebuild (271-333) run under db.glock.                                   *)

\* db.go 234-239: the LOCK rate of the last second exceeded the table size.
ResizeStart ==
    /\ ~crashed
    /\ resizer.pc = "idle" /\ nresizes < MaxResizes
    /\ resizing_fast_lock_count' = fast_lock_count
    /\ resizer' = [pc |-> "grow", target |-> 2 * fast_lock_count,
                   idx |-> fast_lock_count \div SegLen, i |-> 0]
    /\ nresizes' = nresizes + 1
    /\ UNCHANGED <<fast_locks, seglen, fast_lock_count, free_lock_managers, unalloc, mgr,
                   key_count, proc, nlocks, crashed>>

\* db.go 241-245, one iteration: a segment of EXPRIED_QUEUE_LENGTH entries
\* is made and fast_lock_count grows by one segment, visible at once to
\* every lookup.
ResizeGrow ==
    /\ ~crashed
    /\ resizer.pc = "grow" /\ fast_lock_count < resizer.target
    /\ IF resizer.idx \notin Segs THEN Panic ELSE
       /\ seglen' = [seglen EXCEPT ![resizer.idx] = ResizeSegLen]
       /\ fast_locks' = [fast_locks EXCEPT ![resizer.idx] = [j \in Slots |-> None]]
       /\ fast_lock_count' = fast_lock_count + SegLen
       /\ resizer' = [resizer EXCEPT !.idx = @ + 1]
       /\ UNCHANGED <<resizing_fast_lock_count, nresizes, free_lock_managers, unalloc, mgr,
                      key_count, proc, nlocks, crashed>>

\* db.go 248-269 for segment i: every live manager whose segment under the
\* new count is not i moves there.  A move into a nil segment, or past a
\* short one, panics at 264.
Moves(i) ==
    {j \in 0 .. seglen[i] - 1 :
        LET m == fast_locks[i][j] IN
        m # None /\ ~mgr[m].freed /\ FastBaseIndex(mgr[m].lock_key, fast_lock_count) # i}
MoveTarget(i, j) ==
    LET k == mgr[fast_locks[i][j]].lock_key IN <<FastBaseIndex(k, fast_lock_count), FastIndex(k)>>
Migrated(i) ==
    [b \in Segs |-> [x \in Slots |->
        IF b = i /\ x \in Moves(i) THEN None
        ELSE LET from == {j \in Moves(i) : MoveTarget(i, j) = <<b, x>>} IN
             IF from # {} THEN fast_locks[i][Max(from)] ELSE fast_locks[b][x]]]

ResizeMigrate ==
    LET i == resizer.i IN
    /\ ~crashed
    /\ resizer.pc = "grow" /\ fast_lock_count >= resizer.target
    /\ i < fast_lock_count \div SegLen
    /\ IF \E j \in Moves(i) : ~Valid(MoveTarget(i, j)[1], MoveTarget(i, j)[2]) THEN Panic ELSE
       /\ fast_locks' = Migrated(i)
       /\ resizer' = [resizer EXCEPT !.i = @ + 1]
       /\ UNCHANGED <<seglen, fast_lock_count, resizing_fast_lock_count, nresizes,
                      free_lock_managers, unalloc, mgr, key_count, proc, nlocks, crashed>>

\* db.go 271-333 under db.glock: the overflow map is empty, so its loops
\* do nothing, and the resize ends by clearing resizing_fast_lock_count.
ResizeFinish ==
    /\ ~crashed
    /\ resizer.pc = "grow" /\ fast_lock_count >= resizer.target
    /\ resizer.i >= fast_lock_count \div SegLen
    /\ resizing_fast_lock_count' = 0
    /\ resizer' = [resizer EXCEPT !.pc = "idle"]
    /\ UNCHANGED <<fast_locks, seglen, fast_lock_count, nresizes, free_lock_managers, unalloc,
                   mgr, key_count, proc, nlocks, crashed>>

\* Every command has been issued and answered, or the server panicked.
Terminated ==
    /\ crashed \/ /\ nlocks = MaxLocks
                  /\ \A p \in Procs : proc[p].pc = "idle"
                  /\ resizer.pc = "idle"
    /\ UNCHANGED vars

Next ==
    \/ \E p \in Procs :
          \/ \E k \in Keys : GetOrNewLockManager(p, k)
          \/ SetLockKey(p)
          \/ Attach(p)
          \/ UnLock(p)
          \/ Expire(p)
    \/ ResizeStart
    \/ ResizeGrow
    \/ ResizeMigrate
    \/ ResizeFinish
    \/ Terminated

Spec == Init /\ [][Next]_vars

-----------------------------------------------------------------------------
(* Properties *)

\* Managers a LOCK may currently be using: made, handed out and not freed.
InUse == {m \in Mgrs \ ToSet(unalloc) : ~mgr[m].freed /\ m \notin ToSet(free_lock_managers)}

TypeOK ==
    /\ fast_locks \in [Segs -> [Slots -> Mgrs \cup {None}]]
    /\ seglen \in [Segs -> 0 .. SegLen]
    /\ free_lock_managers \in Seq(Mgrs)
    /\ mgr \in [Mgrs -> [lock_key : Keys \cup {ZeroKey}, freed : BOOLEAN, ref_count : 0 .. Cardinality(Procs)]]
    /\ key_count \in 0 .. Len(Alloc)
    /\ proc \in [Procs -> [pc : Pcs, key : Keys \cup {ZeroKey}, m : Mgrs \cup {None}, held : Mgrs \cup {None}]]
    /\ nlocks \in 0 .. MaxLocks
    /\ crashed \in BOOLEAN

\* state.KeyCount, raised when GetOrNewLockManager hands out a manager and
\* lowered by RemoveLockManager on both the free-stack and the full-stack
\* paths, counts the managers in use.
KeyCountInv == key_count = Cardinality(InUse)

\* A goroutine that attached a lock record to a manager (db.go 707-712
\* checks freed under the shard mutex) never holds it on a manager that
\* RemoveLockManager has freed or put back on the free stack.
HeldManagerLive ==
    \A p \in Procs : proc[p].held # None =>
        /\ ~mgr[proc[p].held].freed
        /\ proc[p].held \notin ToSet(free_lock_managers)

\* The index never hands out a manager that is on the free stack: every
\* slot holds a manager in use (spec invariant 2: the index and the free
\* list are disjoint).
IndexFreeDisjoint ==
    \A b \in Segs, j \in Slots : At(b, j) # None => At(b, j) \in InUse

\* All the records held for one key are on one manager, so a LOCK on the
\* key sees every holder (spec invariant 2: one manager per key).
OneManagerPerKey ==
    \A p, q \in Procs :
        (proc[p].held # None /\ proc[q].held # None /\ proc[p].key = proc[q].key)
            => proc[p].held = proc[q].held
====
