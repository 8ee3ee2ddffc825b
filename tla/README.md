# TLA+ models of slock's lock engine

This directory holds TLA+ models of the slock lock server (`src/`) and the TLC
configurations that check them. `PROJECT.json` lists the components, the runs, the
mutants that show each property can fail, the map from every definition to the
source lines it models, the findings and the hazards.

## The system and its parts

| Part | Source | What it does | Status |
|---|---|---|---|
| WireCodec | `src/protocol/command.go` | 64-byte frames: `LockCommand`, `LockResultCommand`, result codes | every request and result frame except `LockResultCommand.Encode` and `AdminCommand.Decode` (`WireCodec`) |
| ServerProtocol | `src/server/protocol.go` | reads frames from one connection and dispatches them; `ProcessLockCommand` (416-430) routes LOCK and UNLOCK to a `LockDB`; per-connection `LockCommand` free lists; the reply buffer `wbuf` | dispatch, free lists (`CommandPool`), the text connection's Process loop and RESP parser (`CommandPool`, `TextParser`), the text line to `LockCommand` conversion (`TextCommand`), reply writes (`ReplyBuffer`) |
| SLock | `src/server/slock.go` | owns the dbs (`GetOrNewDB`, under `glock`) and the global `LockCommand` free list | `GetOrNewDB` against FLUSHDB, the global list (`CommandPool`) |
| LockEngine | `src/server/db.go` | `Lock`, `UnLock`, `DoLock`, `WakeUpWaitLock`, `DoTimeOut`, `DoExpried` | modelled for one key |
| TimerWheels | `src/server/db.go` | 16-slot timeout and expiry wheels per shard, dispatchers `CheckTimeOut` / `CheckExpried`, scans `CheckTimeTimeOut` / `CheckTimeExpried`, `AddTimeOut` / `AddExpried` | modelled |
| FastIndex | `src/server/db.go` | key → LockManager: direct slots, overflow map, online doubling (`CheckResizingFastLocks`), reclamation (`RemoveLockManager`) | segmented table with several keys and the online resize (`FastIndex`); overflow map unreachable |
| LockManager, Lock, LockQueue | `lock.go` (not in the sources) | holders, waiters, record pool | modelled from spec.md 4.5 |
| Admin | `src/server/admin.go` | text admin commands | FLUSHDB's hold on `slock.dbs` (`CommandPool`); FLUSHALL and the I/O commands not modelled |
| Benchmarks | `src/benchmarks/` | client load generator | not modelled |
| AOF | not in the sources | persistence hook | not modelled |

How the parts interact: every connection goroutine decodes a command and calls
`ProcessLockCommand`. That call finds the db and the key's `LockManager` under the
db-wide mutex `db.glock`, then runs `Lock` or `UnLock` under the manager's shard
mutex `manager_glocks[i]`. Once a second, two dispatcher goroutines advance
`check_timeout_time` / `check_expried_time` and spawn one scan goroutine per
elapsed tick. Under the shard mutex, a scan pops its wheel slot, drops the
references of records that are finished, and re-enrols records whose time has not
come. It then fires the rest outside the mutex through `DoTimeOut` / `DoExpried`.
`UnLock` and `DoExpried` end with a *wake cascade*: under the mutex they grant the
head waiter, release the mutex to reply, and re-take it for the next waiter.

## Module `LockDB` (the engine for one key)

State (VARIABLES):
- `db.m`: the key's LockManager (`locked`, `waited`, `current_lock`, holders, waiters, `ref_count`, `freed`, whether the fast index holds it).
- `db.lk`: the Lock record pool. Each record has its command, `locked`, `timeouted`, `expried`, `ref_count`, timeout/expiry times and checked counts.
- `db.tw`, `db.ew`: the key's column of the two wheels.
- `current_time`, `check_timeout_time`, `check_expried_time`.
- `glock`: the scan that holds the shard mutex across its pop loop.
- `th`: every goroutine's program counter and locals.
- `replies`: the results delivered for each request.
- `db_created`.
- `crashed`: a nil dereference killed the process.

Actions and the code they model:

- **Connection.** `ProcessLockCommand` covers `ProcessLockCommand`, `GetOrNewDB`, `GetOrNewLockManager` and `GetLockManager`. `LockHeld` is `Lock` from the mutex up to the held-key branches: the freed retry, flag 0x01 up to its unlock, refresh, re-entry and LOCKED_ERROR. `LockQueryReply` is the query's read of `current_lock` after the unlock. `LockAcquire` is `Lock` on a free or shareable key: grant, fire-and-forget, queue, or TIMEOUT. `UnlockBody` is `UnLock` up to the reply. `WakeCascade` / `CascadeEnd` are the cascades of `UnLock` (911-927) and `DoExpried` (685-700).
- **Background.** `UpdateCurrentTime`, `CheckTimeOut`, `CheckExpried` (one dispatcher iteration each). Each scan is `ScanLock`/`ScanEmpty` (lock the shard mutex), `TimeoutScanPop`/`ExpriedScanPop` (one pop), `ScanUnlock` (unlock and Reset), then `DoTimeOut`/`DoExpried` once per staged record.
- **lock.go methods**, as operators used inside the actions: `GetOrNewLock`, `FreeLock`, `AddLock`, `RemoveLock`, `AddWaitLock`, `GetWaitLock`, `UpdateLockedLock`.

### Modelling choices and why they are sound

- A critical section under the shard mutex is one step. Code after an `Unlock()` gets a step of its own, because other goroutines can run in between: the query read at 717-723 and `waited = false` at 698/924.
- `ProcessLockCommand` with the index lookup is one step. `db.glock` guards only the index, and every index change in the model happens inside steps that also change the manager, so the order is preserved.
- The dispatchers' wait loop, which waits until the scans of earlier ticks have run, is not modelled. A spawned scan cannot start before it gets the shard mutex, so the wait adds no ordering the steps do not already have.
- An empty wheel slot takes one scan step (`ScanEmpty`).
- **`GetWaitLock` peeks, it does not pop.** spec.md says it pops the head, but db.go calls it three times and throws the result away: `DoTimeOut` 592, `WakeUpWaitLock` 965 and 976. Under pop semantics each of those calls would lose a live waiter. The model therefore removes and dereferences the timed-out prefix and returns the first live waiter, leaving it queued. This is the only reading under which db.go's calls are consistent.
- **References.** A record holds one reference as holder, one as waiter, and one per wheel it sits in. The manager's `ref_count` counts the records in use. This matches spec.md invariant 4 and the `ref_count--` / `FreeLock` / `RemoveLockManager` calls in db.go.
- **`RemoveLock` and `current_lock`.** `RemoveLock` promotes the next holder to `current_lock`, or leaves `current_lock` nil when no holder is left.
- **Record pool.** The pool is a small set of records. Its exhaustion only stops new requests, which the runs' bounds keep from happening.
- **Crash.** A nil dereference sets `crashed` and ends every goroutine. Nothing is persisted, so there is no restart.
- **Integer width.** `Lock.locked` is kept modulo `LockedMod` (uint8). The other counters stay far below their widths within the bounds.

## Module `LockService` (what the engine promises) and the refinement

`LockService` is the abstract specification of one exclusive key, as spec 3 and
4.7 describe it for requests with count 0. Its state is the re-entry depth of
every lock id on the key and the replies delivered to every request. The key is
held by at most one lock id. The holder or its depth changes only in the step
that decides the result telling a client so:
- `Acquire`, `AcquireTransient` (a grant with expried 0, which ends at once) and
  `Reenter` answer SUCCED;
- `Release` takes one level or all levels off the holder and answers SUCCED;
- `Expire` takes all levels off and answers EXPRIED;
- `Refuse` is every other reply (TIMEOUT, LOCKED_ERROR, UNLOCK_ERROR, ...) and
  leaves the key as it is.

`LockDB` implements it under the refinement mapping
`LS == INSTANCE LockService WITH depth <- HeldDepth`, where `HeldDepth[l]` is the
sum of the `locked` levels of the holder records of lock id `l`. `replies` maps to
itself. The property `LockServiceRefined` is `LS!Spec` with its stuttering steps
written first, because most engine steps (scans, wheel pops, reference drops,
the first half of a cascade) leave both the holders and the replies unchanged.
It says that no timeout, scan, manager reclaim or cascade step changes the holders
without the matching reply, and that a grant, release or expiry always changes them
in the step that replies. This matters most for the wake cascades, which grant a
waiter only after re-taking the mutex and asking `DoLock` again. In the code every
result is decided under the shard mutex and sent by `SLock.Active` right after the
mutex is released. The model's `replies` records the decided result in the
critical section's step, so the refinement is about the linearisation point of
each request (when it takes effect), not about the order in which the replies
reach the socket. That order is the write path's (`ReplyBuffer`).
The run is `timers`, the only one where expiry and cascades both happen.

## Module `CommandPool` (the LockCommand free lists)

Every LOCK or UNLOCK frame is decoded into a pooled `protocol.LockCommand` struct. A connection's goroutine takes one from its own `free_commands` list. When that list is empty, the binary `GetLockCommand` tries SLock's global list under `free_lock_command_lock`, taking one struct and up to 8 more. Before that it tries `locked_free_commands` under the connection's glock. Only when both are empty does it allocate a new struct. The text protocol's `GetLockCommand` takes a single struct from the global list and refills nothing. Its `InitLockCommand` takes one struct, where the binary one takes four.

`FreeLockCommandLocked`, the only code that fills `locked_free_commands`, has no caller in either protocol. So that list is always empty, and the model leaves it out, together with the glock tier of `GetLockCommand` and the second loop of `UnInitLockCommand`.

The engine keeps a struct in a Lock record while its request holds or waits. It frees the struct to the connection's list from the connection's own goroutine. It frees it to the global list from the scan goroutines (`DoTimeOut`, `DoExpried`) and from cascades that wake another connection's waiter.

`Close` moves the connection's list to the global list (`UnInitLockCommand`). The model's structs are the model values of the sequence `Alloc`, allocated in order.

State:
- `free_lock_commands` and `free_lock_command_count`;
- `free_lock_command_lock`, TRUE only when a step returned with the mutex still locked;
- each connection's state and its `free_commands` list. `TextConns` says which connections are text ones;
- `cur`, the struct of the frame being processed;
- `held`, structs kept in Lock records;
- `unalloc`, structs not yet allocated.

Actions:
- binary: `InitLockCommand`, `ParseLocal` and `GetLockCommandGlobal`;
- text: `TextInitLockCommand` and `TextGetLockCommand`;
- both: `ProcessLockCommand`, `FreeLockCommand` and `Close`.
- `ProcessLockCommand` is how `LockDB.Lock` / `UnLock` end for the pools. The command is freed, kept, or freed together with the released holder's command and an own waiter's command (db.go 879-880, 904-905, 984).
- `LockCommandQueue` is not in the sources. Its `Push` fails at a capacity (spec 4.2). That capacity is the constant `GlobalCap` or `LocalCap`.

### The text connection (`CommandPool` with `TextParser`)

A text connection's goroutine runs `TextServerProtocol.Process` (868-903):
- it Reads when the parser's buffer is used up;
- it calls `Parse`;
- it runs the handler of a whole command;
- it clears `args`.

`TextRecv` is one iteration up to the handler. A LOCK or UNLOCK that passes
`ArgsToLockComand`'s length check stays in `args` until `TextGetLockCommand` takes
its struct. The goroutine is blocked in the handler until the engine replies
(`ProcessLockCommand`), so clearing `args` at that point is the same as clearing
it after the handler. Any other whole command (SELECT, admin, unknown) is answered
and cleared in `TextRecv`. A parse error ends `Process`, and `ProcessCommad`
(400-405) then runs `UnInitLockCommand` and marks the connection closed.

`TextParser` holds the parser as pure operators:
- `ParseStep` is one pass of `TextServerProtocolParser.Parse`'s outer loop
  (the switch on `stage`, 616-717), `ScanLine` one pass of the line loop of
  stages 1 and 3 and `ScanArgEnd` one of the loop after an argument; each
  returns `Ok`, `Fail` or `Go(loop, struct)`;
- `ParseLoop` runs them until one returns. It is a recursive function, not a
  recursive operator: TLC passes an operator's arguments unevaluated and, when
  it checks fairness, does not cache them, so a recursion 60 bytes deep
  re-evaluates its argument chain exponentially often; a function's argument
  is a value;
- `TakeData` is stage 4's copy of an argument's bytes;
- `LineDone` and `ArgDone` are the stage changes;
- `AfterCR` is the check that a `\n` follows a `\r`;
- `BuildArray` is `Build`'s array form (733-739), which is also how a client
  encodes a command.

A byte is a symbol. The parser never looks inside an argument, so a command name
is one symbol and lengths count symbols. The client's commands (`TextCmds`) are
LOCK kk, FLUSHDB 0 and UNLOCK kk: 56 bytes, with a two-byte key so that a Read
can end inside an argument.

A Read returns 4 bytes or the whole rest of the stream (`ReadSizes` {4, 64}).
Cuts every 4 bytes fall at every kind of place:
- inside a length line (12, after `$`; 32, before CR);
- inside an argument (16, between the two bytes of kk);
- inside a count line (20, after `*`);
- after a whole argument, before its CRLF (28, after FLUSHDB);
- between CR and LF (36, 40, 44).

A 4-byte buffer also holds the end of one command and the start of the next,
and a Read of the rest holds several whole commands, which `Process` must
handle before it reads again (`NeedRead`, 870).

### The text LOCK and UNLOCK line (`TextCommand`)

`TextCommand` is `ArgsToLockComand` and `ArgsToLockComandParseId` (protocol.go 1159-1271) as operators. An argument is the sequence of its bytes, because the conversions are what is checked:
- `ToUpper` folds ASCII lower case, as `strings.ToUpper` does for these inputs;
- `AtoiOk` and `AtoiOf` are `strconv.Atoi`: an optional sign, then decimal digits;
- `ArgsToLockComandParseId` keeps the code's four cases. 16 bytes are copied, 32 hex digits decoded, longer ids hashed, shorter ids right-aligned after zero bytes. `Md5` is a digest told apart only by its input;
- `OptionStep` is one pass of the option loop (1223-1261). A number `strconv.Atoi` refuses ends the loop with that option's error;
- `ArgsToLockComand(args, old, rid, db_id, lock_id)` starts from `old`, the pooled struct that `GetLockCommand` returned, and keeps its `Flag`, `Count` and `Rcount` unless the line has those options, as the code does.

`TextLockCommandAgrees` compares the result with a reference stated field by field: the last of repeated options wins; TIMEOUT and EXPRIED agree with their value modulo 2^32 as (value, flag) halves; COUNT and RCOUNT wrap; the first bad number names the error. It ranges over 4,792 lines: LOCK, `lock` and UNLOCK, six ids (empty, 1, 16, 17 bytes, 32 hex digits, 32 non-hex bytes), every option with 65537, -1, +7, `x` and the empty value, and two pooled structs. TLC's integers stop at 2^31, so no value past 32 bits is tried. Like the codec properties, it is a constant formula checked once in the pools run.

The stale `Flag`, `Count` and `Rcount` are hazard protocol.go:1206 and not a claim of the property. After a query `LOCK k FLAG 1`, the engine writes the holder's Count and Rcount into the struct and frees it to the connection's own list (db.go 719-726). A plain `UNLOCK k2` then carries flag 0x01 and releases k2's current holder whatever its lock id.

### slock.dbs and FLUSHDB (`CommandPool`)

`slock.dbs[0]` is `dbs`: nil or one of the `LockDB`s of `DbAlloc`, which
`GetOrNewDB` makes in order. A parsed LOCK or UNLOCK of either protocol reads
`dbs` without `slock.glock` (`DbRead`: ProcessParse 282-290 and 318-326,
CommandHandlerLock/Unlock 1295-1300 and 1330-1336):
- a db found: `ProcessLockCommand` on it (`ran` records which db);
- a LOCK finding nil: `GetOrNewDB` under `glock` (slock.go 82-89), which makes
  a db only if `dbs` is still nil;
- an UNLOCK finding nil: UNKNOWN_DB, and its struct is not freed (`UnknownDb`).

FLUSHDB (admin.go 81-106) is two steps of the text connection, with
`slock.glock` held between them: `FlushDbBegin` checks the arguments and the
db (each error is answered and the command cleared) and sets `dbs[0]` to nil;
`FlushDbEnd` puts the db back, on FlushDB's error and success alike, and
releases `glock`. `LockDB.FlushDB` is not in the sources, so what it does to
the db's locks is not modelled. Which command a binary frame carries is the
nondeterministic `FrameType`.

## Modules `WireCodec` and `ReplyBuffer` (the reply write path)

`WireCodec` holds the frame operators. A frame is a function from the offsets 0..63 to bytes:
- `LockReplyWrites` lists the assignment statements of `ProcessLockResultCommand` (protocol.go 455-474), in order;
- `StateResultWrites` does the same for `ResultStateCommand.Encode` (command.go 526-593), where one counter's eight or four single-byte statements are one write;
- `LockResultDecode` and `ResultStateDecode` are the client's `Decode` methods;
- `ToLE` and `FromLE` are the little-endian conversions, written as RECURSIVE operators, truncating as Go's `byte(x >> 8k)` does.
- `LockCommandWrites` is the client's `LockCommand.Encode` (command.go 321-352), and `Frame` applies a list of writes to a zeroed buffer with `FoldLeft`;
- `LockCommandDecode` is `LockCommand.Decode` (292-319);
- `HeaderCheck` is the magic and version check at the top of `ProcessParse` (protocol.go 237-250), with `mv = buf[0] | buf[1] << 8`;
- `LockFields` and `ParseCopy` are the two inline copies `ProcessParse` makes of a LOCK (260-280) and an UNLOCK frame (297-317) into its pooled struct, instead of calling `Decode`.
- The other requests and their replies: `InitCommandWrites`, `StateCommandWrites` and `AdminCommandWrites` are the client's encoders, and `CommandDecode`, `InitCommandDecode` and `StateCommandDecode` are the server's decoders. `FrameReply` is what `ProcessParse`'s header check, its default branch (protocol.go 327-348) and `ProcessCommad` (354-412) answer: UNKNOWN_MAGIC or UNKNOWN_VERSION, an INIT result with init_type 1 when `slock.streams` already holds the client id, a STATE result, an ADMIN result, or UNKNOWN_COMMAND. The STATE reply is taken for an existing db. The INIT error path is left out: `BinaryServerProtocol.Init` (protocol.go 64-68) always returns nil.
- `ResultCommandWrites`, `InitResultWrites` and `ResultAdminWrites` are the three result encoders, each with its own blank loop. `FrameOn` applies a reply's writes over whatever `wbuf` holds, and `WbufInit` is `wbuf` as `NewBinaryServerProtocol` leaves it.

`BoundaryCmds` is the input set of the request properties: LOCK and UNLOCK commands whose uint16 fields take 1, 256 and 65535, so that the low and the high byte differ, with `Rcount`, `Flag` and `DbId` at 0 and 255, two ids that differ in their first and their last byte, and magic and version each right or off by one (864 commands). The frame properties are constant formulas. `MCCommandPool` checks each one as a state invariant of the pools run (`LockFrameRoundTripInv == TypeOK => LockFrameRoundTrip`, and so on), so that TLC reports a broken one against a state. TLC evaluates the constant formula once.

`ReplyFramesFresh` takes six requests: INIT, STATE, ADMIN and type 7, a STATE with a wrong magic, and an INIT with a wrong version. Their ids have bytes 1 and 255, and the STATE counters have every byte of a u32 set. Each request's reply is written over every reply another request leaves in `wbuf`. `Write` never clears `wbuf`, so a blank loop that starts one byte late shows up as a byte of the previous reply.

`ReplyBuffer` is one binary connection's write path:
- `wbuf`: the connection's one 64-byte buffer. `NewBinaryServerProtocol` presets its bytes 0 and 1, which `ProcessLockResultCommand` never writes.
- `glock`: the connection's glock.
- Goroutines, each with a script of replies:
  - the connection's own goroutine, whose LOCK results come from `db.Lock` and whose STATE result comes from `Write`;
  - the timeout and expiry goroutines, whose results come from `DoTimeOut` / `DoExpried` through `SLock.Active`, the ConnectionBinding's `deliver` (spec 4.8), which is not in the sources.
- Actions:
  - `ProcessLockResultCommandLock`: takes the glock;
  - `WriteBegin`: `Write`, which takes no lock;
  - `EncodeStep`: one statement into `wbuf`;
  - `SendFrame`: the socket write copies `wbuf` as it is then, and `ProcessLockResultCommand` releases the glock.

The STATE result's counters take offsets 23..62: two u64 and six u32 counters, 40 bytes. Spec 4.1 speaks of a 48-byte counter block; the model follows the code.

Coarsening the counter statements only removes interleavings, so a violation found at this grain also exists at the code's grain.

With only goroutines that hold the glock (the STATE reply replaced by a second LOCK reply), `ReplyIntegrity` holds over all 307 states: the encoders and the client's decoders agree on every field. With `Write` in the connection's script it fails (finding 7).

## Module `FastIndex` (the key index and the manager free stack)

State, as in `LockDB`'s struct (db.go 20-33):
- `fast_locks` and `seglen`: the segments of the slot table and their lengths, where 0 is nil. `NewLockDB` allocates only segment 0 (49-50).
- `fast_lock_count`, `resizing_fast_lock_count` and `resizer`: the resize's counts and its progress.
- `crashed`: a Go panic happened.
- `free_lock_managers`: the stack of free managers, with its top at the end.
- `unalloc`: the managers no batch has made yet. A batch is 4096 structs in the code and `BatchSize` in the model.
- `mgr`: each manager's `lock_key`, `freed` and `ref_count`.
- `key_count`: `state.KeyCount`.
- `proc`: each client goroutine's program counter, the key of its command, the manager it looked up, and the manager it holds a record on.

Key types disagree in the code. `db.go` uses `LockKey` as a `[2]uint64`: the map key at line 21, and the slot `LockKey[1] & fast_lock_count` at line 343. `command.go` declares a `[16]byte`. Spec 2 takes the slot from bytes 8..15 read little-endian, which is `db.go`'s reading, so the model follows `db.go`: a key is its second word.

Actions, one per step between mutex operations:
- `GetOrNewLockManager`: Lock's lookup under `db.glock` (340-424). It either hits the slot, or pops the free stack (allocating a batch when the stack is empty) and puts the popped manager in the slot.
- `SetLockKey`: the write of `lock_key` that follows, outside `db.glock` (383, 422).
- `Attach`: Lock's `freed` check under the shard mutex (707-712). It retries the lookup or adds a record.
- `UnLock`: the lookup of `GetLockManager`. When the manager found is the record's, the record is dropped; otherwise the command fails with UNOWN_ERROR and the record waits for its expiry.
- `Expire`: `DoExpried` reaching the record through `lock.manager`.
- `ResizeStart`, `ResizeGrow`, `ResizeMigrate`, `ResizeFinish`: `CheckResizingFastLocks` (229-337), taken at any time up to `MaxResizes`. The steps are:
  - the start, which sets `resizing_fast_lock_count` (234-240);
  - one step per new segment (241-245). These writes are made without `db.glock`, so lookups in between see every intermediate value;
  - one step per segment migrated under `db.glock` (247-269);
  - the rebuild of the overflow map and the reset of `resizing_fast_lock_count` (271-337).

While a resize runs, a lookup that finds its slot empty also tries the slot under the old count (`ResBase`, 353). `RemoveLockManager` does the same (503-508).

A Go panic (an index out of range, or a nil segment or manager dereferenced) sets `crashed`, which ends the behaviour, and `Terminated` then stutters. TLC reaches one such panic from the stale-index race (hazard db.go:507).

Dropping a record lowers the manager's `ref_count`. When the count reaches 0, `RemoveLockManager` runs in the same shard critical section (`DropRecord`). It clears the slot of `lock_key` whatever that slot holds, marks the manager freed, and either pushes it or, when the stack is full, drops it. It lowers `KeyCount` on both paths.

The lock semantics (holders, waiters, wheels) are `LockDB`'s. Here a record is only "a reference to the manager", which is what the index depends on.

Nothing ever marks a slot `conflict_maped`, because line 348 returns any non-conflicting slot's manager. The resize only copies slots and iterates the map. So the overflow map stays empty and `RemoveFastLockManager` is unreachable. Keys are model values whose `LockKey[1]` is the constant `Hash`. `SegBits` 2 (4 slots) stands for 23. An `ASSUME` keeps every key's bit `SegBits` clear, because a key with that bit set indexes the nil `fast_locks[1]` (a hazard in `PROJECT.json`).

## Runs

The `LockDB` runs use `MCLockDB`:
- model values `p1 p2` (connections), `r1 r2 r3` (records) and `l1 l2 l3` (lock ids);
- symmetry over each set;
- one db and one key;
- `WheelLen` 16, as in the code.

| Run | cfg | Bounds | Checks | Result |
|---|---|---|---|---|
| timers | MCTimers | 2 conns, 3 records, 2 lock ids, count 0, 3 commands, timeout 1, expried 1, rcount 1, clock to 1 (scans, expiry, re-enrolment) | TypeOK, HolderCountInv, RefCountInv, LiveManagerInv, HolderLimitInv, LockServiceRefined | pass (~380k states, about 2.5 minutes) |
| flags_shared | MCFlagsShared | as timers with the clock at 0 and `LockCmds <- MCFlagSharedCmds`: exclusive LOCKs with flags 0/1/2, a plain LOCK with timeout 0, a shared LOCK (count 1) without re-entry and one with expried 0 and re-entry; UNLOCK flags 0/1, rcount 0/1 | HolderCountInv, RefCountInv, LiveManagerInv | pass (~413k states, about 2.5 minutes) |
| query_nil | MCQueryNil | query racing an UNLOCK | NoNilDereference | violation |
| shared_limit | MCSharedLimit | 3 lock ids, counts 1/2 | HolderLimitInv | violation |
| double_reply | MCDoubleReply | as timers, with expried 0/1 and rcount 0 | ReplyInv | violation (depth 19, ~950k states) |
| overtaking | MCFifo | 4 commands, timeout 0/1 | NoOvertaking | violation |
| pools | MCPool | 1 binary and 1 text conn (its client sends LOCK, FLUSHDB 0 and UNLOCK, Reads of 4 bytes or the rest), 13 structs, InitCount 1, RefillCount 8 as in the code, LocalCap 2, GlobalCap 13 (never full, see pool_lock_leak), 2 binary frames, 2 LockDBs | TypeOK, CommandOwnershipInv, TextCommandsInOrder, DbIdentity, LockFrameRoundTripInv, ProcessParseAgreesInv, TextLockCommandAgreesInv, ReplyFramesFreshInv, TextCommandsHandled (under `FairSpec`) | pass (116,188 distinct states, about 35 seconds) |
| pool_lock_leak | MCPoolLeak | GlobalCap 4, 2 frames | PoolLockReleased | violation |
| reply_race | MCReplyRace | the connection's LOCK then STATE reply, one TIMEOUT and one EXPRIED reply from the scan goroutines | ReplyIntegrity | violation (21 states) |
| fastindex | MCFastIndex | 3 goroutines (symmetric), 3 keys in distinct slots, 4 managers in batches of 2, free stack of 2, 4 LOCKs, up to 4 segments, 1 resize | TypeOK, KeyCountInv, HeldManagerLive | pass (~150k states) |
| manager_reuse | MCFastIndexReuse | as fastindex | OneManagerPerKey | violation |
| stale_index | MCFastIndexStale | as fastindex | IndexFreeDisjoint | violation |

The pool runs use `MCCommandPool`. With `InitCount` 1 (the code's binary value is 4), two frames empty the binary connection's list, and the text connection's UNLOCK finds its one struct still kept for its LOCK. This sends both `GetLockCommand`s to the global list and to a new allocation, and the binary one through its refill loop; a larger `InitCount` needs more frames for the same tiers, and five frames take the run past twenty minutes. Two LockDBs are enough for a second db to be made when the first is hidden by FLUSHDB. Two binary connections add nothing the pools tell apart, and they take the run past ten minutes. A local capacity of 2 makes the three frees of a release that also frees an own waiter overflow the connection's list.

The FastIndex runs use `MCFastIndex`:
- Three goroutines are what the reuse race needs: one that looked up a manager, one that frees it, and one that takes it for another key.
- Four managers in batches of two make the second batch and the reuse of freed managers happen.
- A free stack of two fills once three managers have been in use, so the full-stack branch of `RemoveLockManager` runs.
- Keys sit in distinct slots and none in the zero key's slot, so each violation shows its own race and no collision.

The flags_shared run takes its commands from `MCFlagSharedCmds` rather than from the product of every field set, which passes a million states. The commands are chosen so that every branch of `DoLock`, `Lock` and `UnLock` that the flags and the shared counts reach is taken. `HolderLimitInv` is checked only in timers: a shared LOCK next to an exclusive one breaks it, and that is the shared_limit finding. The timers run keeps expried 1, so no record is freed by a timeout while a cascade holds it. With expried 0 a new LOCK reuses such a record at once, and the double_reply run shows what then goes wrong.

**Why these bounds are enough.**
- Two connections and three commands reach every interleaving of two requests with a third arriving in a window: a grant, a waiter, a release and its cascade.
- Three records cover a holder, a waiter and a record still referenced by a wheel after its request ended.
- A clock of 0..1 with timeout and expiry 1 makes every scan fire, re-enrol and race a cascade.
- Larger values only repeat these shapes.
- For `FastIndex`, four LOCKs over three goroutines are enough for both races: the reuse race needs a free, a pop for another key and a late freed check, and the stale-index race needs two LOCKs and one release before the `lock_key` write. Four managers in batches of 2, with a free stack of 2, reach both the batch allocation and the full-stack drop. One resize, growing to 4 segments, interleaves each of its steps with these races.

### Properties

- **HolderCountInv**: spec invariant 3, `locked` = the sum of the holders' `locked`.
- **RefCountInv**: spec invariants 4 and 5. Every reference is counted, no referenced record is free, and the manager counts its records.
- **LiveManagerInv**: a manager with a record in use is never reclaimed.
- **HolderLimitInv**: no holder shares the key with more holders than its count admits.
- **ReplyInv** (double_reply, a violation): every request is answered once, except that a granted lock may later get EXPRIED.
- **CommandOwnershipInv**: a LockCommand struct is in at most one list, frame or Lock record.
- **PoolLockReleased**: no function of the global list returns with its mutex locked.
- **LockFrameRoundTripInv** (`LockFrameRoundTrip`): a request encoded by `LockCommand.Encode` decodes to the same command through `LockCommand.Decode`.
- **ProcessParseAgreesInv** (`ProcessParseAgrees`): `ProcessParse` accepts an encoded request exactly when its magic and version are the server's, and its inline copy then yields the fields the client encoded. A swapped pair of fields or a big-endian `mv` breaks it, and only for values whose two bytes differ.
- **TextLockCommandAgreesInv** (`TextLockCommandAgrees`): `ArgsToLockComand` yields, for every line of the input set, the command the per-field reference gives, or the error the first bad option names.
- **ReplyFramesFreshInv** (`ReplyFramesFresh`): every INIT, STATE, ADMIN or unknown request, or one with a wrong magic or version, is answered with a frame that echoes its type and request id, carries the result it is owed, and decodes as the client reads that reply. The frame does not depend on the reply `wbuf` held before.
- **NoNilDereference** and **NoOvertaking**: the query path never dereferences a nil `current_lock`, and (spec.md 3) `waited` preserves wake order.
- **KeyCountInv**: `KeyCount` equals the number of managers handed out and not freed, on both of `RemoveLockManager`'s paths.
- **HeldManagerLive**: no goroutine holds a record on a freed manager or on one in the free stack.
- **ReplyIntegrity**: every frame a connection writes decodes, by the client's decoder, to the reply it was written for (spec 4.1: a result shares bytes 0..18 with its request).
- **LockServiceRefined**: `LockDB` implements `LockService`. The key's holders and their depths change only in the critical section that decides the SUCCED or EXPRIED result reporting the change.
- **TextCommandsInOrder**: the text connection runs the handlers of exactly the commands its client sent, whole and in order, however the Reads cut the stream; once every byte has been read and parsed, every command has been handled.
- **DbIdentity**: every command runs on the first LockDB made, and FLUSHDB saves and restores that one: a LOCK that reads `slock.dbs[0]` nil during FLUSHDB's window never makes a second db (GetOrNewDB's re-check under `glock`).
- **TextCommandsHandled** (liveness, under `FairSpec`): the text connection eventually handles every command its client sent, or is closed; a Read that returns several commands does not leave them in the buffer.
- **OneManagerPerKey** and **IndexFreeDisjoint**: spec invariant 2. All records of a key are on one manager, and no slot points at a freed manager.

**Fairness.** Only the pools run assumes fairness (`FairSpec`): weak fairness
of each text connection's goroutine, the disjunction of its steps
(`TextFairness`). The goroutine runs `Process` sequentially, so at most one
of its steps is enabled at a time, and Go's preemptive scheduler runs a
goroutine that can run. A step blocked on `slock.glock` (`GetOrNewDB`,
`FlushDbBegin`) is enabled again once `FlushDbEnd` releases it, which is the
only holder. The client's `Close` is not fair: a client may stay connected.
The binary connection, the engine's frees and Close get no fairness, so
`TextCommandsHandled` holds whatever they do.

`TextFairness` is `WF_vars(TextStep(t))` written out as `[]<>~E \/ []<><<TextStep(t)>>_vars`. In `E`, the enabledness of `TextRecv(t)` is given by its guard `RecvReady(t)`, because every Read size and every Parse outcome is a step. This keeps TLC from running `Parse` for each enabledness test, which took the run from about 3 minutes to 35 seconds. Over all 116,188 states of the pools run, TLC confirms that `RecvReady(t) => ENABLED <<TextRecv(t)>>_vars` holds (the converse holds by construction). It holds because the global list never fills there, so a failed Parse always finds `free_lock_command_lock` free.

The `LockDB` runs assume no fairness and check no liveness. Go's scheduler and the
starvation mode of `sync.Mutex` would justify weak fairness for every goroutine:
the scans, the dispatchers, the clock and a connection goroutine inside
`Lock`/`UnLock`. Clients issue commands at will, so that fairness would not cover
`ProcessLockCommand`. The property such fairness would support is "every waiter is
eventually answered by a grant, TIMEOUT or EXPRIED". The models cannot check it
soundly, for two reasons:
- **The clock is bounded.** A scan that re-enrols a waiter puts it in the slot of
  `check_timeout_time`. Once the clock has stopped at `MaxTime`, the dispatcher
  may never reach that slot. In the code the tick is scanned a second later, but
  in the model a waiter can stay unanswered only because of the bound.
- **The runs need symmetry.** TLC's liveness checking is not sound under
  symmetry. Without symmetry, the `LockDB` runs exceed two million states in five
  minutes.

## Findings

The eight violation runs record real disagreements; `PROJECT.json` gives the lines.

1. **query_nil.** The flag 0x01 query reads `current_lock` after releasing the mutex.
2. **shared_limit.** `DoLock` honours only `current_lock`'s count.
3. **overtaking.** A new LOCK overtakes the waiter that `UnLock` is about to wake.
4. **pool_lock_leak.** `SLock.FreeLockCommand` returns with `free_lock_command_lock` locked when the global list is full, and every later user of the list blocks.
5. **manager_reuse.** Lock checks `freed` only after taking the shard mutex. A manager freed and popped for another key in between passes the check, so a LOCK on k1 lands on k2's manager while a new manager serves k1. The key then has two managers, and each grants it.
6. **stale_index.** `GetOrNewLockManager` writes `lock_key` after releasing `db.glock`. A second LOCK of the key can attach and release first, and `RemoveLockManager` then clears the zero key's slot. The freed manager stays in the key's slot, and later LOCKs of the key retry until another key reuses the manager.
7. **reply_race.** `BinaryServerProtocol.Write` encodes the INIT, STATE and ADMIN results into the connection's `wbuf` without its glock (protocol.go 192-202). Meanwhile the timeout and expiry goroutines encode LOCK results into the same `wbuf` under the glock (448-474). A STATE request answered while a waiting LOCK of the same connection times out sends a frame that mixes the two replies. Spec 5 puts connection writes under `conn.glock`.
8. **double_reply.** A wake cascade carries the waiter it read under an earlier hold of the mutex (`UnLock` 911-927, `DoExpried` 685-700) into `WakeUpWaitLock` (950-993). Meanwhile `DoTimeOut` can answer that waiter TIMEOUT and free its record, and a new LOCK with expried 0 can take the record from the pool and be granted. The cascade then wakes the reused record and sends the new request a second SUCCED. Spec 4.7.1 says each command gets one reply. TLC finds this at depth 19: a granted lock expires, its cascade holds the head waiter, the waiter times out, and a third request reuses its record.

Three more divergences were met while modelling. Each is reached by a single unit test, so none has a run of its own:
- A flag 0x01 query on a free key is granted (db.go 714 tests the flag only when `locked > 0`; spec 6.3 says a query never grants).
- A flag 0x02 refresh by the holder is answered LOCKED_ERROR (the branch at 733-739 falls through to 768; spec 4.7.1 says SUCCESS).
- A 256th re-entry at rcount 255 wraps the uint8 `Lock.locked` (740, 755) while the manager counts 256. This breaks HolderCountInv, which TLC confirms with one client and 257 commands.

Four more were found in code no run reaches:
- **A text command inherits the flags of the struct's last command.** `ArgsToLockComand` writes `Flag`, `Count` and `Rcount` only when the line names them (protocol.go 1206, 1228-1259). After `LOCK k FLAG 1`, a plain `UNLOCK k2` releases k2's current holder, and a plain `LOCK` becomes a query (see `TextCommand`). Every run slot is in use, so this is recorded as a hazard.
- **Text ids collide.** `ArgsToLockComandParseId` pads short ids with leading zero bytes and decodes 32 hex digits. So `k` and a zero byte followed by `k` name one key, and so do a 32-digit hex id and its 16 raw bytes.
- **The cascade stops too early.** `WakeUpWaitLock`'s expried > 0 branch returns nil after one grant (db.go 972), and `UnLock` then clears `waited` (924). Spec 4.7.3 says the cascade pops the next waiter and continues, and that `waited` is cleared only when the queue is drained. Shared waiters that could join the holder stay queued until the next release.
- **FLUSHALL leaves every db nil.** `CommandHandleFlushAllCommand` (admin.go 108-135) nils every db and keeps them in a map. Both of its restore loops then range over `self.slock.dbs`, which is all nil by then, instead of over that map. Afterwards an UNLOCK answers UNKNOWN_DB, and the next LOCK creates a new `LockDB` with `GetOrNewDB` while the old db's timer goroutines keep running. `FLUSHDB` restores its db correctly.

`UnInitLockCommand` counts pushes that failed, so `free_lock_command_count` exceeds the global list once it fills (protocol.go 535). No run checks this: the global list can fill only in a run that also reaches pool_lock_leak, so no passing run sees the over-count. Only the admin statistics are affected, so it is listed as a hazard.

## Not modelled yet, and the plan

Module order for later work:

1. **`FastIndex`**, extended with:
   - a run with keys sharing a slot (hazard db.go:346);
   - keys whose bit 23 is set, for the migration into nil segments (hazard db.go:264).
2. **`MultiKeyDB`**: composes `LockDB` per key with `FastIndex`, for `UnLock`'s missing `freed` check (833) on a reused manager.
3. **`CommandPool`**, extended to the ADMIN upgrade, which uninitialises a binary connection's list without its glock (406-407).
4. **`LockService`** (done for exclusive keys): extend it to shared counts, where the abstract key holds a set of lock ids bounded by their counts. `HolderLimitInv` already fails in the code for mixed counts, so the abstract bound would be stated as the code's (`current_lock`'s count) and the spec's bound kept as a separate property.
5. **Admin**: FLUSHDB against in-flight commands is modelled (`CommandPool`). An UNLOCK that reads `slock.dbs` nil during FLUSHDB's window is answered UNKNOWN_DB for a lock the client holds (hazard protocol.go:320); a property for it needs a run slot of its own. FLUSHALL and what FlushDB does to a db need `LockDB.FlushDB`, which is not in the sources.
6. **`WireCodec`** (every request and its reply are done): a passing `ReplyBuffer` run with only glock-holding writers, which TLC passes over 307 states but which has no run of its own.
7. **Liveness**: every waiter is answered, once the clock bound can be lifted by an abstraction of time that keeps the wheel slots (see Properties). Also shared-count runs for the unprotected `waited` writes and for `waited` never being cleared by `DoTimeOut`.
