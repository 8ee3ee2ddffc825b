---------------------------- MODULE CommandPool ----------------------------
(***************************************************************************)
(* The LockCommand free lists of slock: the global list of SLock          *)
(* (slock.go, guarded by free_lock_command_lock) and the two lists of     *)
(* every connection (protocol.go): free_commands, used only by the        *)
(* connection's own goroutine.  A BinaryServerProtocol also has           *)
(* locked_free_commands, filled only by FreeLockCommandLocked, which no   *)
(* code calls (the engine frees through FreeLockCommand of the protocol   *)
(* or of SLock), so that list stays empty and is left out, and so are the *)
(* tiers of GetLockCommand and UnInitLockCommand that read it.  A         *)
(* TextServerProtocol takes one struct at init and refills nothing.       *)
(*                                                                         *)
(* A LockCommand struct is a model value.  A struct leaves the pools when *)
(* a frame is parsed into it, is owned by the connection goroutine while  *)
(* LockDB.Lock / UnLock runs, and is then either freed at once or kept by *)
(* the engine in a Lock record (a holder or a waiter) until UnLock, a     *)
(* wake cascade, DoTimeOut or DoExpried frees it.                         *)
(*                                                                         *)
(* Every section under free_lock_command_lock is one step.  The variable  *)
(* free_lock_command_lock is TRUE only when a step returned with the      *)
(* mutex still locked; every later step that needs it then blocks.        *)
(* LockCommandQueue is not among the sources: Push fails, and the struct  *)
(* is dropped to the garbage collector, once a list is at its capacity    *)
(* (spec.md 4.2: segments grow up to a capacity ceiling).                 *)
(***************************************************************************)
EXTENDS Integers, Sequences, FiniteSets, SequencesExt, TextParser

CONSTANTS
    Conns,        \* connections
    TextConns,    \* those that are TextServerProtocol, the rest binary
    Alloc,        \* LockCommand structs, in the order they are allocated
    GlobalCap,    \* capacity of SLock.free_lock_commands
    LocalCap,     \* capacity of a connection's free lists
    InitCount,    \* InitLockCommand fills the connection list with 4
    RefillCount,  \* GetLockCommand moves up to 8 more from the global list
    MaxRequests,  \* bound on the LOCK / UNLOCK frames binary connections parse
    TextCmds,     \* the commands a text client sends, each its arguments
    ReadSizes,    \* how many bytes a Read of a text connection returns
    DbAlloc,      \* LockDB objects, in the order NewLockDB makes them
    None          \* nil

Cmds == ToSet(Alloc)
DbObjs == ToSet(DbAlloc)

VARIABLES
    free_lock_commands,      \* SLock.free_lock_commands (PopRight = Last)
    free_lock_command_count, \* SLock.free_lock_command_count
    free_lock_command_lock,  \* the mutex was left locked
    conn,    \* conn[c]: [state, free: free_commands]
    cur,     \* cur[c]: the struct of the frame c's goroutine is processing
    held,    \* structs kept by the engine in Lock records
    unalloc, \* structs not yet allocated by &protocol.LockCommand{}
    nreq,
    parser,  \* parser[t]: the TextServerProtocolParser of text connection t
    rpos,    \* rpos[t]: the bytes of t's stream its Reads have returned
    handled, \* handled[t]: the commands t's handlers have run, in order
    dbs,     \* slock.dbs[0]: a LockDB or nil
    ndbs,    \* the LockDBs NewLockDB has made
    slock_glock, \* slock.glock, held by a FLUSHDB handler across FlushDB
    flushing,    \* flushing[t]: the db t's FLUSHDB handler took out of dbs
    ctype,   \* ctype[c]: LOCK or UNLOCK, the type of the command in cur[c]
    dpc,     \* dpc[c]: "read" before slock.dbs is read, "getdb" in GetOrNewDB
    ran      \* the LockDBs that commands have been run on

text_vars == <<parser, rpos, handled>>
db_vars == <<dbs, ndbs, slock_glock, flushing, ctype, dpc, ran>>
vars == <<free_lock_commands, free_lock_command_count, free_lock_command_lock,
          conn, cur, held, unalloc, nreq, text_vars, db_vars>>

\* The bytes a text client writes: its commands, each encoded as an array.
TextStream == FlattenSeq([i \in DOMAIN TextCmds |-> BuildArray(TextCmds[i])])

-----------------------------------------------------------------------------
(* LockCommandQueue (not in the sources: modelled from spec 4.2).          *)

\* Push of each element of s in turn; those beyond the capacity are lost.
PushAll(q, s, cap) == q \o SubSeq(s, 1, Min({Len(s), cap - Len(q)}))

\* The last k elements, in the order PopRight returns them.
PopRightN(q, k) == Reverse(SubSeq(q, Len(q) - k + 1, Len(q)))

DropRightN(q, k) == SubSeq(q, 1, Len(q) - k)

-----------------------------------------------------------------------------
Init ==
    /\ free_lock_commands = <<>>
    /\ free_lock_command_count = 0
    /\ free_lock_command_lock = FALSE
    /\ conn = [c \in Conns |-> [state |-> "new", free |-> <<>>]]
    /\ cur = [c \in Conns |-> None]
    /\ held = {}
    /\ unalloc = Alloc
    /\ nreq = 0
    /\ parser = [t \in TextConns |-> NewParser]
    /\ rpos = [t \in TextConns |-> 0]
    /\ handled = [t \in TextConns |-> <<>>]
    /\ dbs = None
    /\ ndbs = 0
    /\ slock_glock = FALSE
    /\ flushing = [t \in TextConns |-> None]
    /\ ctype = [c \in Conns |-> "LOCK"]
    /\ dpc = [c \in Conns |-> "read"]
    /\ ran = {}

\* NewBinaryServerProtocol -> InitLockCommand: InitCount structs from the
\* global list, new ones once it is empty.
InitLockCommand(c) ==
    /\ conn[c].state = "new" /\ c \notin TextConns
    /\ ~free_lock_command_lock
    /\ LET k == Min({InitCount, Len(free_lock_commands)})
           n == InitCount - k
       IN  /\ n <= Len(unalloc)
           /\ conn' = [conn EXCEPT ![c].state = "open",
                          ![c].free = PushAll(@, PopRightN(free_lock_commands, k)
                                                 \o SubSeq(unalloc, 1, n),
                                              LocalCap)]
           /\ free_lock_commands' = DropRightN(free_lock_commands, k)
           /\ free_lock_command_count' = free_lock_command_count - k
           /\ unalloc' = SubSeq(unalloc, n + 1, Len(unalloc))
    /\ UNCHANGED <<text_vars, db_vars, free_lock_command_lock, cur, held, nreq>>

\* The command type byte of the frame (buf[2], 252-254).
FrameType(c) == \E ty \in {"LOCK", "UNLOCK"} : ctype' = [ctype EXCEPT ![c] = ty]

\* ProcessParse, LOCK or UNLOCK frame: free_commands.PopRight().
ParseLocal(c) ==
    /\ conn[c].state = "open" /\ cur[c] = None /\ nreq < MaxRequests
    /\ c \notin TextConns
    /\ conn[c].free # <<>>
    /\ cur' = [cur EXCEPT ![c] = Last(conn[c].free)]
    /\ conn' = [conn EXCEPT ![c].free = Front(@)]
    /\ nreq' = nreq + 1
    /\ FrameType(c)
    /\ UNCHANGED <<text_vars, dbs, ndbs, slock_glock, flushing, dpc, ran,
                   free_lock_commands, free_lock_command_count,
                   free_lock_command_lock, held, unalloc>>

RefillFromTop(g, k) == PopRightN(g, k)

\* The refill loop of GetLockCommand: up to k more structs popped from the
\* global list after the one returned.
Refill(g, k) == PopRightN(Front(g), k)

\* The structs the global list loses: the one returned (570) and the k
\* of the refill loop (576).
Taken(k) == k + 1

\* GetLockCommand with free_commands empty (the locked_free_commands tier
\* under glock finds nothing), under free_lock_command_lock: one struct
\* from the global list and up to RefillCount more into free_commands, or
\* a new struct.
GetLockCommandGlobal(c) ==
    /\ conn[c].state = "open" /\ cur[c] = None /\ nreq < MaxRequests
    /\ conn[c].free = <<>> /\ c \notin TextConns
    /\ ~free_lock_command_lock
    /\ IF free_lock_commands # <<>>
       THEN LET g == free_lock_commands
                k == Min({RefillCount, Len(g) - 1})
            IN  /\ cur' = [cur EXCEPT ![c] = Last(g)]
                /\ conn' = [conn EXCEPT ![c].free =
                               PushAll(<<>>, Refill(g, k), LocalCap)]
                /\ free_lock_commands' = DropRightN(g, k + 1)
                /\ free_lock_command_count' = free_lock_command_count - Taken(k)
                /\ UNCHANGED unalloc
       ELSE /\ unalloc # <<>>
            /\ cur' = [cur EXCEPT ![c] = Head(unalloc)]
            /\ unalloc' = Tail(unalloc)
            /\ UNCHANGED <<conn, free_lock_commands, free_lock_command_count>>
    /\ nreq' = nreq + 1
    /\ FrameType(c)
    /\ UNCHANGED <<text_vars, dbs, ndbs, slock_glock, flushing, dpc, ran,
                   free_lock_command_lock, held>>

FreeLocalUncapped(c, s) == [conn EXCEPT ![c].free = @ \o s]

\* FreeLockCommand of either protocol: free_commands.Push, error ignored
\* (the text one under its glock).
FreeLocal(c, s) == [conn EXCEPT ![c].free = PushAll(@, s, LocalCap)]

\* LockDB.Lock / UnLock run on c's goroutine with cur[c] on the LockDB d;
\* how they end:
\*  - a reply that frees the command (the early returns of Lock and
\*    UnLock, db.go 726-861, and the partial release 890);
\*  - a LOCK kept in a Lock record: a grant with expried > 0 or a queued
\*    waiter (db.go 774-808);
\*  - an UNLOCK removing a holder h: the UNLOCK command and h's command
\*    are freed to c's list (db.go 879-880, 904-905), and a waiter w of c
\*    that the cascade wakes with expried = 0 is freed there too (984).
ProcessLockCommand(c, d) ==
    /\ \/ conn' = FreeLocal(c, <<cur[c]>>) /\ UNCHANGED held
       \/ /\ ctype[c] = "LOCK"
          /\ held' = held \cup {[cmd |-> cur[c], conn |-> c]} /\ UNCHANGED conn
       \/ /\ ctype[c] = "UNLOCK"
          /\ \E h \in held :
               /\ held' = held \ {h}
               /\ conn' = FreeLocal(c, <<cur[c], h.cmd>>)
       \/ /\ ctype[c] = "UNLOCK"
          /\ \E h, w \in held :
               /\ h # w /\ w.conn = c
               /\ held' = held \ {h, w}
               /\ conn' = FreeLocal(c, <<cur[c], h.cmd, w.cmd>>)
    /\ cur' = [cur EXCEPT ![c] = None]
    /\ dpc' = [dpc EXCEPT ![c] = "read"]
    /\ ran' = ran \cup {d}
    /\ UNCHANGED <<text_vars, slock_glock, flushing, ctype,
                   free_lock_commands, free_lock_command_count,
                   free_lock_command_lock, unalloc, nreq>>

\* An UNLOCK that finds slock.dbs[db_id] nil is answered UNKNOWN_DB (binary
\* 319-321, text 1330-1332); the command popped for it is not freed.
UnknownDb(c) ==
    /\ cur' = [cur EXCEPT ![c] = None]
    /\ UNCHANGED <<text_vars, db_vars, free_lock_commands, free_lock_command_count,
                   free_lock_command_lock, conn, held, unalloc, nreq>>

\* The dispatch of a parsed LOCK or UNLOCK (ProcessParse 282-290 and
\* 318-326; CommandHandlerLock 1295-1300, CommandHandlerUnlock 1330-1336):
\* slock.dbs[db_id] is read without slock.glock; a LOCK that finds it nil
\* goes on to GetOrNewDB.
DbRead(c) ==
    /\ cur[c] # None /\ dpc[c] = "read"
    /\ \/ dbs # None /\ ProcessLockCommand(c, dbs) /\ UNCHANGED <<dbs, ndbs>>
       \/ /\ dbs = None /\ ctype[c] = "LOCK"
          /\ dpc' = [dpc EXCEPT ![c] = "getdb"]
          /\ UNCHANGED <<text_vars, dbs, ndbs, slock_glock, flushing, ctype, ran,
                         free_lock_commands, free_lock_command_count,
                         free_lock_command_lock, conn, cur, held, unalloc, nreq>>
       \/ dbs = None /\ ctype[c] = "UNLOCK" /\ UnknownDb(c)

\* Mutant: GetOrNewDB makes a LockDB without looking at dbs again.
GetOrNewDBNoRecheck(c) ==
    /\ dpc[c] = "getdb" /\ ~slock_glock
    /\ ndbs < Len(DbAlloc)
    /\ dbs' = DbAlloc[ndbs + 1]
    /\ ndbs' = ndbs + 1
    /\ ProcessLockCommand(c, DbAlloc[ndbs + 1])

\* SLock.GetOrNewDB (slock.go 80-88) under slock.glock, then db.Lock: a
\* LockDB is made only if dbs[db_id] is still nil.
GetOrNewDB(c) ==
    /\ dpc[c] = "getdb" /\ ~slock_glock
    /\ IF dbs = None
       THEN /\ ndbs < Len(DbAlloc)
            /\ dbs' = DbAlloc[ndbs + 1]
            /\ ndbs' = ndbs + 1
            /\ ProcessLockCommand(c, DbAlloc[ndbs + 1])
       ELSE /\ ProcessLockCommand(c, dbs)
            /\ UNCHANGED <<dbs, ndbs>>

\* SLock.FreeLockCommand, called by DoTimeOut (db.go 604), DoExpried
\* (677) and a cascade waking a waiter of another connection (987).
\* When Push fails it returns without unlocking the mutex.
FreeLockCommand(h) ==
    /\ h \in held
    /\ ~free_lock_command_lock
    /\ held' = held \ {h}
    /\ IF Len(free_lock_commands) = GlobalCap
       THEN /\ free_lock_command_lock' = TRUE
            /\ UNCHANGED <<free_lock_commands, free_lock_command_count>>
       ELSE /\ free_lock_commands' = Append(free_lock_commands, h.cmd)
            /\ free_lock_command_count' = free_lock_command_count + 1
            /\ UNCHANGED free_lock_command_lock
    /\ UNCHANGED <<text_vars, db_vars, conn, cur, unalloc, nreq>>

\* UnInitLockCommand: every struct of free_commands, in PopRight order,
\* pushed to the global list under free_lock_command_lock, and the count
\* raised for each Push whether or not it succeeded.
UnInitLockCommand(f) ==
    /\ free_lock_commands' =
           PushAll(free_lock_commands, PopRightN(f, Len(f)), GlobalCap)
    /\ free_lock_command_count' = free_lock_command_count + Len(f)

\* BinaryServerProtocol.Close between two frames: under the connection's
\* glock, UnInitLockCommand, then closed is set.  TextServerProtocol.Close
\* does the same with its UnInitLockCommand.
Close(c) ==
    /\ conn[c].state = "open" /\ cur[c] = None
    /\ c \in TextConns => flushing[c] = None
    /\ ~free_lock_command_lock
    /\ UnInitLockCommand(conn[c].free)
    /\ conn' = [conn EXCEPT ![c] = [state |-> "closed", free |-> <<>>]]
    /\ UNCHANGED <<text_vars, db_vars, free_lock_command_lock, cur, held, unalloc, nreq>>

-----------------------------------------------------------------------------
(* TextServerProtocol.                                                      *)

\* NewTextServerProtocol -> InitLockCommand: one struct from the global
\* list, or a new one.
TextInitLockCommand(c) ==
    /\ conn[c].state = "new" /\ c \in TextConns
    /\ ~free_lock_command_lock
    /\ IF free_lock_commands # <<>>
       THEN /\ conn' = [conn EXCEPT ![c] = [state |-> "open",
                          free |-> PushAll(<<>>, <<Last(free_lock_commands)>>, LocalCap)]]
            /\ free_lock_commands' = Front(free_lock_commands)
            /\ free_lock_command_count' = free_lock_command_count - 1
            /\ UNCHANGED unalloc
       ELSE /\ unalloc # <<>>
            /\ conn' = [conn EXCEPT ![c] = [state |-> "open",
                          free |-> PushAll(<<>>, <<Head(unalloc)>>, LocalCap)]]
            /\ unalloc' = Tail(unalloc)
            /\ UNCHANGED <<free_lock_commands, free_lock_command_count>>
    /\ UNCHANGED <<text_vars, db_vars, free_lock_command_lock, cur, held, nreq>>

\* A LOCK or UNLOCK line that ArgsToLockComand accepts: its length check
\* (1201-1203) comes before its GetLockCommand.
IsLockLine(args) ==
    /\ args[1] \in {<<"LOCK">>, <<"UNLOCK">>}
    /\ Len(args) >= 2 /\ Len(args) % 2 = 0

\* The handler table (admin.go 27-42, merged into the text protocol's at
\* 768-770) sends FLUSHDB to CommandHandleFlushDBCommand.
IsFlushLine(args) == args[1] = <<"FLUSHDB">>

\* A whole command whose handler this module runs as steps of its own.
KeptLine(args) == IsLockLine(args) \/ IsFlushLine(args)

\* Process clears the command after its handler returned (899-900).
ResetArgs(p) == [p EXCEPT !.args = <<>>, !.args_count = 0]

\* Mutant: Process reads whatever is left in the buffer.
NeedReadAlways(p) == TRUE

\* Process reads only when Parse has used up the buffer (870).
NeedRead(p) == p.buf_index = p.buf_len

\* The loop of Process (869-870) is at a Read or a Parse: the connection is
\* open, no command is being handled and the buffer holds no whole
\* command; a Read blocks until the client has sent more.
RecvReady(c) ==
    /\ c \in TextConns /\ conn[c].state = "open" /\ cur[c] = None
    /\ ~Complete(parser[c])
    /\ NeedRead(parser[c]) => rpos[c] < Len(TextStream)

\* One iteration of TextServerProtocol.Process (868-903) up to the handler:
\* a Read when the buffer is used up (of a size in ReadSizes, or what is
\* left of the stream if that is less), then Parse.  A parse error
\* ends Process, and ProcessCommad (400-405) runs UnInitLockCommand and
\* sets closed.  A whole command that is not a LOCK line (SELECT, an admin
\* or unknown command, or a LOCK the length check refuses) is answered and
\* cleared here; a LOCK line stays in args for TextGetLockCommand.
TextRecv(c) ==
    LET p == parser[c] IN
    /\ RecvReady(c)
    /\ \E s \in ReadSizes :
         LET n == IF ~NeedRead(p) THEN 0
                  ELSE Min({s, Len(TextStream) - rpos[c]})
             r == Parse(IF n = 0 THEN p
                        ELSE [p EXCEPT !.buf = SubSeq(TextStream, rpos[c] + 1, rpos[c] + n),
                                       !.buf_index = 0, !.buf_len = n])
         IN  /\ rpos' = [rpos EXCEPT ![c] = @ + n]
             /\ parser' = [parser EXCEPT ![c] =
                              IF ~r.err /\ Complete(r.p) /\ ~KeptLine(r.p.args)
                              THEN ResetArgs(r.p) ELSE r.p]
             /\ handled' = IF ~r.err /\ Complete(r.p) /\ ~KeptLine(r.p.args)
                           THEN [handled EXCEPT ![c] = Append(@, r.p.args)]
                           ELSE handled
             /\ IF r.err
                THEN /\ ~free_lock_command_lock
                     /\ UnInitLockCommand(conn[c].free)
                     /\ conn' = [conn EXCEPT ![c] = [state |-> "closed", free |-> <<>>]]
                ELSE UNCHANGED <<conn, free_lock_commands, free_lock_command_count>>
    /\ UNCHANGED <<db_vars, free_lock_command_lock, cur, held, unalloc, nreq>>

\* CommandHandlerLock / CommandHandlerUnlock -> ArgsToLockComand ->
\* GetLockCommand of the parsed LOCK line: free_commands.PopRight(); when
\* that is nil, one struct from the global list under
\* free_lock_command_lock (no refill), or a new one.
TextGetLockCommand(c) ==
    /\ conn[c].state = "open" /\ cur[c] = None
    /\ c \in TextConns
    /\ Complete(parser[c]) /\ IsLockLine(parser[c].args)
    /\ parser' = [parser EXCEPT ![c] = ResetArgs(@)]
    /\ handled' = [handled EXCEPT ![c] = Append(@, parser[c].args)]
    /\ ctype' = [ctype EXCEPT ![c] = IF parser[c].args[1] = <<"LOCK">> THEN "LOCK" ELSE "UNLOCK"]
    /\ \/ /\ conn[c].free # <<>>
          /\ cur' = [cur EXCEPT ![c] = Last(conn[c].free)]
          /\ conn' = [conn EXCEPT ![c].free = Front(@)]
          /\ UNCHANGED <<free_lock_commands, free_lock_command_count, unalloc>>
       \/ /\ conn[c].free = <<>> /\ ~free_lock_command_lock
          /\ free_lock_commands # <<>>
          /\ cur' = [cur EXCEPT ![c] = Last(free_lock_commands)]
          /\ free_lock_commands' = Front(free_lock_commands)
          /\ free_lock_command_count' = free_lock_command_count - 1
          /\ UNCHANGED <<conn, unalloc>>
       \/ /\ conn[c].free = <<>> /\ ~free_lock_command_lock
          /\ free_lock_commands = <<>> /\ unalloc # <<>>
          /\ cur' = [cur EXCEPT ![c] = Head(unalloc)]
          /\ unalloc' = Tail(unalloc)
          /\ UNCHANGED <<conn, free_lock_commands, free_lock_command_count>>
    /\ UNCHANGED <<dbs, ndbs, slock_glock, flushing, dpc, ran,
                   free_lock_command_lock, held, rpos, nreq>>

\* The db id argument of FLUSHDB: uint8(strconv.Atoi(args[1])).  Only
\* slock.dbs[0] is modelled; every other entry stays nil.
DbId(args) == Atoi(args[2]) % 256
FlushTarget(args) == IF DbId(args) = 0 THEN dbs ELSE None

\* The command is answered and cleared, and slock.glock is released when
\* the handler returns (the deferred Unlock of 83 and 110).
FlushDone(c) ==
    /\ parser' = [parser EXCEPT ![c] = ResetArgs(@)]
    /\ handled' = [handled EXCEPT ![c] = Append(@, parser[c].args)]

\* CommandHandleFlushDBCommand up to FlushDB (admin.go 81-97), under
\* slock.glock: a short command, a db id that is not a number and a nil
\* db are answered with an error; otherwise dbs[db_id] is set to nil.
FlushDbBegin(c) ==
    LET a == parser[c].args IN
    /\ c \in TextConns /\ conn[c].state = "open" /\ cur[c] = None
    /\ flushing[c] = None
    /\ Complete(parser[c]) /\ IsFlushLine(a)
    /\ ~slock_glock
    /\ IF Len(a) >= 2 /\ IsNumber(a[2]) /\ FlushTarget(a) # None
       THEN /\ slock_glock' = TRUE
            /\ dbs' = None
            /\ flushing' = [flushing EXCEPT ![c] = dbs]
            /\ UNCHANGED <<parser, handled>>
       ELSE /\ FlushDone(c)
            /\ UNCHANGED <<dbs, slock_glock, flushing>>
    /\ UNCHANGED <<rpos, ndbs, ctype, dpc, ran, free_lock_commands,
                   free_lock_command_count, free_lock_command_lock, conn, cur,
                   held, unalloc, nreq>>

\* db.FlushDB() and the rest of the handler (admin.go 98-106): on error
\* and on success alike the db is put back into dbs[db_id], and
\* slock.glock is released.  LockDB.FlushDB is not among the sources;
\* what it does to the db's locks is not modelled.
FlushDbEnd(c) ==
    /\ c \in TextConns /\ flushing[c] # None
    /\ dbs' = flushing[c]
    /\ flushing' = [flushing EXCEPT ![c] = None]
    /\ slock_glock' = FALSE
    /\ FlushDone(c)
    /\ UNCHANGED <<rpos, ndbs, ctype, dpc, ran, free_lock_commands,
                   free_lock_command_count, free_lock_command_lock, conn, cur,
                   held, unalloc, nreq>>

\* Every connection closed and every kept command freed.
Terminated ==
    /\ \A c \in Conns : conn[c].state = "closed"
    /\ held = {}
    /\ UNCHANGED vars

Next ==
    \/ \E c \in Conns :
          \/ InitLockCommand(c) \/ ParseLocal(c) \/ GetLockCommandGlobal(c)
          \/ TextInitLockCommand(c) \/ TextRecv(c) \/ TextGetLockCommand(c)
          \/ DbRead(c) \/ GetOrNewDB(c) \/ FlushDbBegin(c) \/ FlushDbEnd(c)
          \/ Close(c)
    \/ \E h \in held : FreeLockCommand(h)
    \/ Terminated

Spec == Init /\ [][Next]_vars

\* A goroutine that can run eventually runs: each step of a text
\* connection's goroutine (its Process loop and the handlers it calls) is
\* weakly fair.  At most one of them is enabled at a time, as the
\* goroutine is sequential.  The client's Close is not fair.
TextHandlerStep(t) ==
    \/ TextInitLockCommand(t) \/ TextGetLockCommand(t)
    \/ DbRead(t) \/ GetOrNewDB(t) \/ FlushDbBegin(t) \/ FlushDbEnd(t)

TextStep(t) == TextHandlerStep(t) \/ TextRecv(t)

\* WF_vars(TextStep(t)), written out with RecvReady(t) for the enabledness
\* of TextRecv(t): every Read size and every Parse outcome is a step, so
\* TextRecv is enabled exactly where its guard holds (given that a failed
\* Parse finds free_lock_command_lock free, which holds while the global
\* list never fills), and TLC need not run Parse to decide it.
TextFairness(t) ==
    \/ []<>~(ENABLED <<TextHandlerStep(t)>>_vars \/ RecvReady(t))
    \/ []<><<TextStep(t)>>_vars

FairSpec == Spec /\ \A t \in TextConns : TextFairness(t)

-----------------------------------------------------------------------------
(* Properties.                                                             *)

SeqCount(s, x) == Cardinality({i \in DOMAIN s : s[i] = x})

\* The number of places holding struct x.
Places(x) ==
    SeqCount(free_lock_commands, x) + SeqCount(unalloc, x)
    + MapThenSumSet(LAMBDA c : SeqCount(conn[c].free, x), Conns)
    + Cardinality({c \in Conns : cur[c] = x})
    + Cardinality({h \in held : h.cmd = x})

TypeOK ==
    /\ free_lock_commands \in Seq(Cmds) /\ Len(free_lock_commands) <= GlobalCap
    /\ free_lock_command_count \in Nat
    /\ free_lock_command_lock \in BOOLEAN
    /\ \A c \in Conns :
         /\ conn[c].state \in {"new", "open", "closed"}
         /\ conn[c].free \in Seq(Cmds) /\ Len(conn[c].free) <= LocalCap
    /\ cur \in [Conns -> Cmds \cup {None}]
    /\ held \subseteq [cmd : Cmds, conn : Conns]
    /\ nreq \in 0..MaxRequests
    /\ \A t \in TextConns :
         /\ parser[t].stage \in 0..4
         /\ parser[t].buf_index \in 0..parser[t].buf_len
         /\ rpos[t] \in 0..Len(TextStream)
         /\ Len(handled[t]) <= Len(TextCmds)
         /\ flushing[t] \in DbObjs \cup {None}
    /\ dbs \in DbObjs \cup {None}
    /\ ndbs \in 0..Len(DbAlloc)
    /\ slock_glock \in BOOLEAN
    /\ ctype \in [Conns -> {"LOCK", "UNLOCK"}]
    /\ dpc \in [Conns -> {"read", "getdb"}]
    /\ ran \subseteq DbObjs

\* A LockCommand struct is in at most one place: one free list, one frame
\* being processed, one Lock record.  A struct in two places is parsed into
\* by two requests, and one request's reply carries the other's ids.  The
\* struct moves between the lists of GetLockCommand's three tiers, the
\* refill loop, InitLockCommand, UnInitLockCommand and the frees of the
\* engine's goroutines.
CommandOwnershipInv == \A x \in Cmds : Places(x) <= 1

\* A text connection runs the handlers of exactly the commands its client
\* sent, in order and whole, however the stream is cut into Reads: every
\* command handled so far is the next one sent, and once every byte has
\* been read and parsed (and a parsed LOCK line has reached its handler)
\* every command has been handled.  Parse keeps a half-read count line,
\* length line or argument in the struct across Reads (stages 1, 3, 4),
\* and returns after a whole command with the rest still in the buffer.
TextCommandsInOrder ==
    \A t \in TextConns :
       /\ IsPrefix(handled[t], TextCmds)
       /\ (/\ rpos[t] = Len(TextStream)
          /\ parser[t].buf_index = parser[t].buf_len
          /\ ~Complete(parser[t]))
          => handled[t] = TextCmds

\* Every LOCK and UNLOCK is run on the one LockDB of its db id, the first
\* NewLockDB made: a FLUSHDB that has taken the db out of slock.dbs never
\* leads a LOCK that read nil to make a second one (GetOrNewDB looks at
\* dbs again under slock.glock, which the flush holds until it has put
\* the db back), and the db put back is the one taken out.  A second
\* LockDB would grant a key that the first still holds.
DbIdentity ==
    \A d \in ran \cup {dbs} \cup {flushing[t] : t \in TextConns} :
        d # None => d = DbAlloc[1]

\* Every command a text client has written is eventually handled, unless
\* the connection is closed: Process parses the bytes still in its buffer
\* before it blocks in Read again, so commands that one Read brought in
\* together are all run although the client, waiting for their replies,
\* sends nothing more.
TextCommandsHandled ==
    \A t \in TextConns : <>(handled[t] = TextCmds \/ conn[t].state = "closed")

\* No goroutine returns from a function of the global free list with
\* free_lock_command_lock still locked: every later GetLockCommand with
\* empty connection lists, every Close, DoTimeOut and DoExpried would
\* block on it for ever.
PoolLockReleased == ~free_lock_command_lock
====
