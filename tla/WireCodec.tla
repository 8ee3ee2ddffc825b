----------------------------- MODULE WireCodec -----------------------------
(***************************************************************************)
(* The 64-byte frames of the binary protocol (src/protocol/command.go and *)
(* the hand-written reply encoder of BinaryServerProtocol): a frame is a  *)
(* function from the byte offsets 0..63 to bytes.  An encoder is the      *)
(* sequence of its assignment statements, each a write of some bytes at   *)
(* an offset, so that a model of a goroutine can perform them one step at *)
(* a time; a decoder is the record the Decode method fills.  Integers are *)
(* little-endian and truncated to their width as Go's byte(x >> 8k) does. *)
(***************************************************************************)
EXTENDS Integers, Sequences, SequencesExt

MAGIC == 86          \* 0x56
VERSION == 1
COMMAND_LOCK == 1
COMMAND_UNLOCK == 2
COMMAND_STATE == 3

Offsets == 0..63

ZeroFrame == [i \in Offsets |-> 0]

Byte == 0..255

\* The n bytes of x, least significant first.
RECURSIVE ToLE(_, _)
ToLE(x, n) == IF n = 0 THEN <<>> ELSE <<x % 256>> \o ToLE(x \div 256, n - 1)

\* uint16(b[0]) | uint16(b[1])<<8 | ...
RECURSIVE FromLE(_)
FromLE(s) == IF s = <<>> THEN 0 ELSE Head(s) + 256 * FromLE(Tail(s))

\* buf[off], ..., buf[off + n - 1].
Bytes(buf, off, n) == [i \in 1..n |-> buf[off + i - 1]]

\* One assignment statement: the bytes w.bytes written from offset w.off.
Apply(buf, w) ==
    [i \in Offsets |-> IF i - w.off + 1 \in 1..Len(w.bytes)
                       THEN w.bytes[i - w.off + 1] ELSE buf[i]]

-----------------------------------------------------------------------------
(* LOCK / UNLOCK results.                                                  *)

\* NewLockResultCommand as ProcessLockResultCommand sends it: the request's
\* type, ids and counts with the result and lcount of the reply; the flag
\* byte is always 0.
LockReplyRecord(cmd, result, lcount) ==
    [Magic |-> MAGIC, Version |-> VERSION, CommandType |-> cmd.CommandType,
     RequestId |-> cmd.RequestId, Result |-> result, Flag |-> 0,
     DbId |-> cmd.DbId, LockId |-> cmd.LockId, LockKey |-> cmd.LockKey,
     Lcount |-> lcount, Count |-> cmd.Count, Rcount |-> cmd.Rcount]

\* The statements of BinaryServerProtocol.ProcessLockResultCommand that
\* fill wbuf, in order.  Bytes 0 and 1 are not written: NewBinaryServerProtocol
\* set them to MAGIC and VERSION.
LockReplyWrites(cmd, result, lcount) ==
    << [off |-> 2,  bytes |-> <<cmd.CommandType>>],
       [off |-> 3,  bytes |-> cmd.RequestId],
       [off |-> 19, bytes |-> <<result, 0, cmd.DbId>>],
       [off |-> 22, bytes |-> cmd.LockId],
       [off |-> 38, bytes |-> cmd.LockKey],
       [off |-> 54, bytes |-> ToLE(lcount, 2) \o ToLE(cmd.Count, 2)
                              \o <<cmd.Rcount, 0, 0, 0>>],
       [off |-> 62, bytes |-> <<0, 0>>] >>

\* LockResultCommand.Decode, the client's reading of a LOCK result.
LockResultDecode(buf) ==
    [Magic |-> buf[0], Version |-> buf[1], CommandType |-> buf[2],
     RequestId |-> Bytes(buf, 3, 16), Result |-> buf[19], Flag |-> buf[20],
     DbId |-> buf[21], LockId |-> Bytes(buf, 22, 16),
     LockKey |-> Bytes(buf, 38, 16), Lcount |-> FromLE(Bytes(buf, 54, 2)),
     Count |-> FromLE(Bytes(buf, 56, 2)), Rcount |-> buf[58]]

-----------------------------------------------------------------------------
(* STATE results.                                                          *)

Counters == <<"LockCount", "UnLockCount", "LockedCount", "WaitCount",
              "TimeoutedCount", "ExpriedCount", "UnlockErrorCount", "KeyCount">>

\* LockDBState: two uint64 counters, then six uint32 ones.
CounterWidth(i) == IF i <= 2 THEN 8 ELSE 4

CounterOffset(i) == IF i <= 2 THEN 23 + 8 * (i - 1) ELSE 39 + 4 * (i - 3)

\* SLock.GetState -> NewStateResultCommand: db_state is 1 when the db
\* exists, and the counters are those of db.GetState() (all 0 otherwise).
StateReplyRecord(cmd, db_state, state) ==
    [Magic |-> MAGIC, Version |-> VERSION, CommandType |-> cmd.CommandType,
     RequestId |-> cmd.RequestId, Result |-> 0, Flag |-> 0,
     DbState |-> db_state, DbId |-> cmd.DbId, State |-> state]

\* The statements of ResultStateCommand.Encode, in order; the eight (or
\* four) single-byte statements of one counter are one write.
StateResultWrites(r) ==
    << [off |-> 0,  bytes |-> <<r.Magic, r.Version, r.CommandType>>],
       [off |-> 3,  bytes |-> r.RequestId],
       [off |-> 19, bytes |-> <<r.Result, r.Flag, r.DbState, r.DbId>>] >>
    \o [i \in 1..8 |-> [off |-> CounterOffset(i),
                        bytes |-> ToLE(r.State[Counters[i]], CounterWidth(i))]]
    \o << [off |-> 63, bytes |-> <<0>>] >>

\* ResultStateCommand.Decode.
ResultStateDecode(buf) ==
    [Magic |-> buf[0], Version |-> buf[1], CommandType |-> buf[2],
     RequestId |-> Bytes(buf, 3, 16), Result |-> buf[19], Flag |-> buf[20],
     DbState |-> buf[21], DbId |-> buf[22],
     State |-> [c \in {Counters[i] : i \in 1..8} |->
                  LET i == CHOOSE j \in 1..8 : Counters[j] = c
                  IN  FromLE(Bytes(buf, CounterOffset(i), CounterWidth(i)))]]
-----------------------------------------------------------------------------
(* INIT, ADMIN and error results.                                         *)

COMMAND_INIT  == 0
COMMAND_ADMIN == 4

RESULT_SUCCED          == 0
RESULT_UNKNOWN_MAGIC   == 1
RESULT_UNKNOWN_VERSION == 2
RESULT_UNKNOWN_COMMAND == 4

\* copy(buf[n:], make([]byte, k)) and the blank loops: k zero bytes.
Zeros(k) == [i \in 1..k |-> 0]

\* NewResultCommand (118-120), and the ResultCommand part of
\* NewInitResultCommand (228) and NewAdminResultCommand (649): the server's
\* magic and version with the request's type and id.
ResultRecord(cmd, result) ==
    [Magic |-> MAGIC, Version |-> VERSION, CommandType |-> cmd.CommandType,
     RequestId |-> cmd.RequestId, Result |-> result]

\* The first 19 bytes every encoder writes.
HeaderWrites(r) ==
    << [off |-> 0, bytes |-> <<r.Magic, r.Version, r.CommandType>>],
       [off |-> 3, bytes |-> r.RequestId] >>

\* ResultCommand.Encode (137-151).
ResultCommandWrites(r) ==
    HeaderWrites(r) \o << [off |-> 19, bytes |-> <<r.Result>>], [off |-> 20, bytes |-> Zeros(44)] >>

\* ResultCommand.Decode (122-135); ResultAdminCommand.Decode (653-666)
\* reads the same bytes.
ResultCommandDecode(buf) ==
    [Magic |-> buf[0], Version |-> buf[1], CommandType |-> buf[2],
     RequestId |-> Bytes(buf, 3, 16), Result |-> buf[19]]

\* NewInitResultCommand (227-230).
InitReplyRecord(cmd, result, init_type) ==
    ResultRecord(cmd, result) @@ [InitType |-> init_type]

\* InitResultCommand.Encode (249-268).
InitResultWrites(r) ==
    HeaderWrites(r) \o << [off |-> 19, bytes |-> <<r.Result, r.InitType>>], [off |-> 21, bytes |-> Zeros(43)] >>

\* InitResultCommand.Decode (232-247).
InitResultDecode(buf) == ResultCommandDecode(buf) @@ [InitType |-> buf[20]]

\* Mutant: the blank loop is InitResultCommand's, buf[21 + i], and byte 20
\* keeps what the buffer held.
ResultAdminWritesFrom21(r) ==
    HeaderWrites(r) \o << [off |-> 19, bytes |-> <<r.Result>>], [off |-> 21, bytes |-> Zeros(43)] >>

\* ResultAdminCommand.Encode (668-686).
ResultAdminWrites(r) ==
    HeaderWrites(r) \o << [off |-> 19, bytes |-> <<r.Result>>], [off |-> 20, bytes |-> Zeros(44)] >>

-----------------------------------------------------------------------------
(* LOCK / UNLOCK requests.                                                 *)

\* The frame a sequence of assignment statements leaves in buf, and in a
\* zeroed buffer.
FrameOn(buf, writes) == FoldLeft(Apply, buf, writes)

Frame(writes) == FrameOn(ZeroFrame, writes)

\* Mutant: Encode writes Expried's bytes where TimeoutFlag belongs and the
\* other way round.
LockCommandWritesSwapped(cmd) ==
    << [off |-> 0,  bytes |-> <<cmd.Magic, cmd.Version, cmd.CommandType>>],
       [off |-> 3,  bytes |-> cmd.RequestId],
       [off |-> 19, bytes |-> <<cmd.Flag, cmd.DbId>>],
       [off |-> 21, bytes |-> cmd.LockId],
       [off |-> 37, bytes |-> cmd.LockKey],
       [off |-> 53, bytes |-> ToLE(cmd.Timeout, 2) \o ToLE(cmd.Expried, 2)
                              \o ToLE(cmd.TimeoutFlag, 2) \o ToLE(cmd.ExpriedFlag, 2)],
       [off |-> 61, bytes |-> ToLE(cmd.Count, 2) \o <<cmd.Rcount>>] >>

\* LockCommand.Encode (command.go 321-352), the client's request frame.
LockCommandWrites(cmd) ==
    << [off |-> 0,  bytes |-> <<cmd.Magic, cmd.Version, cmd.CommandType>>],
       [off |-> 3,  bytes |-> cmd.RequestId],
       [off |-> 19, bytes |-> <<cmd.Flag, cmd.DbId>>],
       [off |-> 21, bytes |-> cmd.LockId],
       [off |-> 37, bytes |-> cmd.LockKey],
       [off |-> 53, bytes |-> ToLE(cmd.Timeout, 2) \o ToLE(cmd.TimeoutFlag, 2)
                              \o ToLE(cmd.Expried, 2) \o ToLE(cmd.ExpriedFlag, 2)],
       [off |-> 61, bytes |-> ToLE(cmd.Count, 2) \o <<cmd.Rcount>>] >>

\* The fields of a LockCommand after Magic and Version, as Decode and
\* ProcessParse read them.
LockFields(buf) ==
    [CommandType |-> buf[2], RequestId |-> Bytes(buf, 3, 16),
     Flag |-> buf[19], DbId |-> buf[20], LockId |-> Bytes(buf, 21, 16),
     LockKey |-> Bytes(buf, 37, 16),
     Timeout |-> FromLE(Bytes(buf, 53, 2)), TimeoutFlag |-> FromLE(Bytes(buf, 55, 2)),
     Expried |-> FromLE(Bytes(buf, 57, 2)), ExpriedFlag |-> FromLE(Bytes(buf, 59, 2)),
     Count |-> FromLE(Bytes(buf, 61, 2)), Rcount |-> buf[63]]

\* LockCommand.Decode (command.go 292-319).
LockCommandDecode(buf) ==
    [Magic |-> buf[0], Version |-> buf[1]] @@ LockFields(buf)

\* Mutant: mv is assembled with the bytes in big-endian order.
HeaderCheckBigEndian(buf) ==
    LET mv == buf[1] + 256 * buf[0] IN
    IF mv = 342 THEN "ok"
    ELSE IF mv % 256 # MAGIC THEN "UNKNOWN_MAGIC"
    ELSE IF (mv \div 256) % 256 # VERSION THEN "UNKNOWN_VERSION"
    ELSE "ok"

\* The header check of BinaryServerProtocol.ProcessParse (237-250):
\* mv = buf[0] | buf[1] << 8 must be 0x0156, else the magic byte and then
\* the version byte decide the error reply.
HeaderCheck(buf) ==
    LET mv == buf[0] + 256 * buf[1] IN
    IF mv = 342 THEN "ok"
    ELSE IF mv % 256 # MAGIC THEN "UNKNOWN_MAGIC"
    ELSE IF (mv \div 256) % 256 # VERSION THEN "UNKNOWN_VERSION"
    ELSE "ok"

\* ProcessParse's inline copy of a LOCK or UNLOCK frame into the pooled
\* LockCommand (260-280 and 297-317); Magic and Version are not copied.
ParseCopy(buf) == LockFields(buf)

-----------------------------------------------------------------------------
(* Request frames at the field boundaries.                                *)

\* 16-byte ids that differ in their first and their last byte.
IdA == [i \in 1..16 |-> IF i = 1 THEN 1 ELSE 0]
IdB == [i \in 1..16 |-> IF i = 16 THEN 255 ELSE 0]

\* uint16 values whose low and high bytes differ.
Wide == {1, 256, 65535}

\* LOCK and UNLOCK commands with every counter at a byte boundary and the
\* ids distinct, so a field read from the wrong offset changes the result.
BoundaryCmds ==
    { [Magic |-> m, Version |-> v, CommandType |-> ty, RequestId |-> IdA,
       Flag |-> fl, DbId |-> 255 - fl, LockId |-> IdB,
       LockKey |-> [i \in 1..16 |-> i], Timeout |-> t, TimeoutFlag |-> tf,
       Expried |-> e, ExpriedFlag |-> 1, Count |-> 256, Rcount |-> rc] :
      m \in {MAGIC, MAGIC + 1}, v \in {VERSION, VERSION + 1},
      ty \in {COMMAND_LOCK, COMMAND_UNLOCK}, fl \in {0, 255},
      t \in Wide, tf \in Wide, e \in Wide, rc \in {0, 255} }

\* A request the client builds with LockCommand.Encode reads back as the
\* same command through LockCommand.Decode, every byte of every field at
\* its offset.
LockFrameRoundTrip ==
    \A cmd \in BoundaryCmds :
        LockCommandDecode(Frame(LockCommandWrites(cmd))) = cmd

\* BinaryServerProtocol.ProcessParse accepts an encoded request exactly when
\* its Magic and Version are the server's, and its inline copy then yields
\* the fields Encode wrote: the server's copy agrees with the client's
\* encoder.
ProcessParseAgrees ==
    \A cmd \in BoundaryCmds :
        LET buf == Frame(LockCommandWrites(cmd)) IN
        /\ (HeaderCheck(buf) = "ok") <=> (cmd.Magic = MAGIC /\ cmd.Version = VERSION)
        /\ HeaderCheck(buf) = "ok" =>
               ParseCopy(buf) = [f \in DOMAIN cmd \ {"Magic", "Version"} |-> cmd[f]]

-----------------------------------------------------------------------------
(* INIT, STATE, ADMIN and unknown requests, and the reply each is owed.   *)

\* InitCommand.Encode (195-217).
InitCommandWrites(c) ==
    HeaderWrites(c) \o << [off |-> 19, bytes |-> c.ClientId], [off |-> 35, bytes |-> Zeros(29)] >>

\* StateCommand.Encode (462-480).
StateCommandWrites(c) ==
    HeaderWrites(c) \o << [off |-> 19, bytes |-> <<c.Flag, c.DbId>>], [off |-> 21, bytes |-> Zeros(43)] >>

\* AdminCommand.Encode (624-641).
AdminCommandWrites(c) ==
    HeaderWrites(c) \o << [off |-> 19, bytes |-> <<c.AdminType>>], [off |-> 20, bytes |-> Zeros(44)] >>

\* Command.Decode (75-86): the header, as NewCommand and ProcessParse's
\* default branch read it.
CommandDecode(buf) ==
    [Magic |-> buf[0], Version |-> buf[1], CommandType |-> buf[2], RequestId |-> Bytes(buf, 3, 16)]

\* InitCommand.Decode (175-193).
InitCommandDecode(buf) == CommandDecode(buf) @@ [ClientId |-> Bytes(buf, 19, 16)]

\* StateCommand.Decode (446-460).
StateCommandDecode(buf) == CommandDecode(buf) @@ [Flag |-> buf[19], DbId |-> buf[20]]

\* The reply a frame other than LOCK and UNLOCK gets: the header check of
\* ProcessParse (237-250), its default branch (327-348) and ProcessCommad
\* (354-412).  known says whether slock.streams already maps the INIT
\* frame's client id (init_type 1), state is the counters GetState reads
\* for a STATE frame (slock.go 108-120: db_state 1 when the db exists).
FrameReply(buf, known, state) ==
    LET h == HeaderCheck(buf)
        ty == buf[2]
    IN
    CASE h = "UNKNOWN_MAGIC" ->
             [kind |-> "result", rec |-> ResultRecord(CommandDecode(buf), RESULT_UNKNOWN_MAGIC)]
      [] h = "UNKNOWN_VERSION" ->
             [kind |-> "result", rec |-> ResultRecord(CommandDecode(buf), RESULT_UNKNOWN_VERSION)]
      [] ty = COMMAND_INIT ->
             [kind |-> "init",
              rec |-> InitReplyRecord(InitCommandDecode(buf), RESULT_SUCCED, IF known THEN 1 ELSE 0)]
      [] ty = COMMAND_STATE ->
             [kind |-> "state", rec |-> StateReplyRecord(StateCommandDecode(buf), 1, state)]
      [] ty = COMMAND_ADMIN ->
             [kind |-> "admin", rec |-> ResultRecord(CommandDecode(buf), RESULT_SUCCED)]
      [] OTHER ->
             [kind |-> "result", rec |-> ResultRecord(CommandDecode(buf), RESULT_UNKNOWN_COMMAND)]

\* The encoder BinaryServerProtocol.Write (192-202) runs for a reply, and
\* the client's decoder for it.
ReplyWrites(j) ==
    CASE j.kind = "result" -> ResultCommandWrites(j.rec)
      [] j.kind = "init"   -> InitResultWrites(j.rec)
      [] j.kind = "state"  -> StateResultWrites(j.rec)
      [] j.kind = "admin"  -> ResultAdminWrites(j.rec)

ReplyDecode(j, buf) ==
    CASE j.kind = "init"  -> InitResultDecode(buf)
      [] j.kind = "state" -> ResultStateDecode(buf)
      [] OTHER            -> ResultCommandDecode(buf)

\* wbuf as NewBinaryServerProtocol leaves it (protocol.go 54-56).
WbufInit == [ZeroFrame EXCEPT ![0] = MAGIC, ![1] = VERSION]

\* Requests of every other type, with a wrong magic or version, and an
\* unknown type 7.
OtherRequests ==
    LET hdr(m, v, ty) == [Magic |-> m, Version |-> v, CommandType |-> ty, RequestId |-> IdB]
    IN {<<"init", hdr(MAGIC, VERSION, COMMAND_INIT) @@ [ClientId |-> IdA]>>,
        <<"state", hdr(MAGIC, VERSION, COMMAND_STATE) @@ [Flag |-> 0, DbId |-> 255]>>,
        <<"admin", hdr(MAGIC, VERSION, COMMAND_ADMIN) @@ [AdminType |-> 255]>>,
        <<"admin", hdr(MAGIC, VERSION, 7) @@ [AdminType |-> 0]>>,
        <<"state", hdr(MAGIC + 1, VERSION, COMMAND_STATE) @@ [Flag |-> 255, DbId |-> 1]>>,
        <<"init", hdr(MAGIC, VERSION + 1, COMMAND_INIT) @@ [ClientId |-> IdA]>>}

\* The client's encoder for a request.
RequestWrites(q) ==
    CASE q[1] = "init" -> InitCommandWrites(q[2])
      [] q[1] = "state" -> StateCommandWrites(q[2])
      [] q[1] = "admin" -> AdminCommandWrites(q[2])

\* Counters with every byte of the widest one set.
FullState == [c \in {Counters[i] : i \in 1..8} |-> IF c = "LockCount" THEN 2147483647 ELSE 65536 + 255]

\* The replies wbuf can hold before the next one.
OtherReplies ==
    {FrameReply(Frame(RequestWrites(q)), k, FullState) : q \in OtherRequests, k \in BOOLEAN}

\* The result code a request is owed.
OwedResult(q) ==
    CASE q[2].Magic # MAGIC -> RESULT_UNKNOWN_MAGIC
      [] q[2].Version # VERSION -> RESULT_UNKNOWN_VERSION
      [] q[2].CommandType \in {COMMAND_INIT, COMMAND_STATE, COMMAND_ADMIN} -> RESULT_SUCCED
      [] OTHER -> RESULT_UNKNOWN_COMMAND

\* Every INIT, STATE, ADMIN or unknown request a client encodes is answered
\* with a frame that echoes its type and request id with the result code it
\* is owed (UNKNOWN_MAGIC, UNKNOWN_VERSION, UNKNOWN_COMMAND or SUCCED, with
\* init_type and the STATE fields), read back by the client's decoder for
\* that reply; and because Write encodes into the connection's one wbuf
\* without clearing it, the frame must not depend on the reply before it.
ReplyFramesFresh ==
    \A q \in OtherRequests, known \in BOOLEAN, prev \in OtherReplies :
        LET j == FrameReply(Frame(RequestWrites(q)), known, FullState)
            f == FrameOn(FrameOn(WbufInit, ReplyWrites(prev)), ReplyWrites(j))
            d == ReplyDecode(j, f)
        IN /\ f = FrameOn(WbufInit, ReplyWrites(j))
           /\ d.Magic = MAGIC /\ d.Version = VERSION
           /\ d.CommandType = q[2].CommandType /\ d.RequestId = q[2].RequestId
           /\ d.Result = OwedResult(q)
           /\ j.kind = "init" => d.InitType = IF known THEN 1 ELSE 0
           /\ j.kind = "state" => d.DbId = q[2].DbId /\ d.DbState = 1 /\ d.State = FullState

====
