---------------------------- MODULE TextCommand ----------------------------
(* The text protocol's conversion of a LOCK or UNLOCK line into a         *)
(* LockCommand: TextServerProtocol.ArgsToLockComand and                    *)
(* ArgsToLockComandParseId (protocol.go 1159-1271).  An argument is the   *)
(* sequence of its bytes, as the RESP parser hands it over; names are     *)
(* compared after strings.ToUpper, numbers go through strconv.Atoi, and   *)
(* ids through the padding, hex and md5 branches of ParseId.              *)
EXTENDS WireCodec

\* strings.ToUpper over ASCII bytes.
ToUpper(s) == [i \in DOMAIN s |-> IF s[i] \in 97..122 THEN s[i] - 32 ELSE s[i]]

\* The option names of the switch, as the bytes of "LOCK", "LOCK_ID", ...
LOCK_NAME    == <<76, 79, 67, 75>>
LOCK_ID_NAME == <<76, 79, 67, 75, 95, 73, 68>>
FLAG_NAME    == <<70, 76, 65, 71>>
TIMEOUT_NAME == <<84, 73, 77, 69, 79, 85, 84>>
EXPRIED_NAME == <<69, 88, 80, 82, 73, 69, 68>>
COUNT_NAME   == <<67, 79, 85, 78, 84>>
RCOUNT_NAME  == <<82, 67, 79, 85, 78, 84>>
NumericNames == {FLAG_NAME, TIMEOUT_NAME, EXPRIED_NAME, COUNT_NAME, RCOUNT_NAME}

\* strconv.Atoi: an optional sign, then one or more decimal digits.
AtoiDigits(s) == IF s # <<>> /\ s[1] \in {43, 45} THEN Tail(s) ELSE s
AtoiOk(s) == AtoiDigits(s) # <<>> /\ \A i \in DOMAIN AtoiDigits(s) : AtoiDigits(s)[i] \in 48..57
AtoiOf(s) ==
    LET n == FoldLeft(LAMBDA a, b : 10 * a + b - 48, 0, AtoiDigits(s))
    IN IF s[1] = 45 THEN -n ELSE n

\* hex.DecodeString of a 32-byte argument: it fails unless every byte is a
\* hex digit.
HexDigit == (48..57) \cup (65..70) \cup (97..102)
HexVal(b) == CASE b \in 48..57 -> b - 48 [] b \in 65..70 -> b - 55 [] b \in 97..102 -> b - 87
HexDecode(s) == [i \in 1..16 |-> 16 * HexVal(s[2 * i - 1]) + HexVal(s[2 * i])]

\* md5.Sum: a digest, told apart from others only by its input (the model
\* assumes no collisions).
Md5(s) == [md5 |-> s]

\* ArgsToLockComandParseId (1159-1198): 16 bytes are copied, 32 hex digits
\* decoded, other long ids hashed, and short ones copied right-aligned
\* after zero bytes.
ArgsToLockComandParseId(s) ==
    LET n == Len(s) IN
    CASE n = 16 -> s
      [] n = 32 /\ \A i \in 1..n : s[i] \in HexDigit -> HexDecode(s)
      [] n > 16 -> Md5(s)
      [] OTHER -> [i \in 1..16 |-> IF i <= 16 - n THEN 0 ELSE s[i - (16 - n)]]

\* The error of a line: none, its length, or the name of the option whose
\* value is not a number.
NoErr == <<>>
LenErr == <<0>>

\* One pass of the option loop (1223-1261) over the pair name, value; an
\* error ends the loop, and the command is then dropped.
OptionStep(st, pair) ==
    LET name == ToUpper(pair[1])
        v == pair[2]
    IN
    IF st.err # NoErr THEN st
    ELSE CASE name = LOCK_ID_NAME ->
                [st EXCEPT !.cmd.LockId = ArgsToLockComandParseId(v), !.has_lock_id = TRUE]
           [] name \in NumericNames /\ ~AtoiOk(v) -> [st EXCEPT !.err = name]
           [] name = FLAG_NAME -> [st EXCEPT !.cmd.Flag = AtoiOf(v) % 256]
           [] name = TIMEOUT_NAME ->
                [st EXCEPT !.cmd.Timeout = AtoiOf(v) % 65536,
                           !.cmd.TimeoutFlag = (AtoiOf(v) \div 65536) % 65536]
           [] name = EXPRIED_NAME ->
                [st EXCEPT !.cmd.Expried = AtoiOf(v) % 65536,
                           !.cmd.ExpriedFlag = (AtoiOf(v) \div 65536) % 65536]
           [] name = COUNT_NAME -> [st EXCEPT !.cmd.Count = AtoiOf(v) % 65536]
           [] name = RCOUNT_NAME -> [st EXCEPT !.cmd.Rcount = AtoiOf(v) % 256]
           [] OTHER -> st

\* The name, value pairs from the argument at index from on.
OptionPairs(args, from) ==
    [j \in 1..((Len(args) - from + 1) \div 2) |-> <<args[from + 2 * j - 2], args[from + 2 * j - 1]>>]

\* Mutant: the option loop starts one pair late.
OptionsFromSecond(args) == OptionPairs(args, 5)

\* The loop runs over the pairs after the command name and the key
\* (i := 2 in Go's 0-based index).
Options(args) == OptionPairs(args, 3)

\* ArgsToLockComand (1200-1271) for a line args, the pooled struct old that
\* GetLockCommand returned, the new request id rid, and the connection's
\* db_id and lock_id.  Flag, Count and Rcount are written only by their
\* options, so without one the field keeps old's value.
ArgsToLockComand(args, old, rid, db_id, lock_id) ==
    IF Len(args) < 2 \/ Len(args) % 2 # 0 THEN [err |-> LenErr, cmd |-> old]
    ELSE
    LET isLock == ToUpper(args[1]) = LOCK_NAME
        start == [old EXCEPT !.Magic = MAGIC, !.Version = VERSION,
                      !.CommandType = IF isLock THEN COMMAND_LOCK ELSE COMMAND_UNLOCK,
                      !.RequestId = rid, !.DbId = db_id,
                      !.Timeout = 3, !.TimeoutFlag = 0, !.Expried = 60, !.ExpriedFlag = 0,
                      !.LockKey = ArgsToLockComandParseId(args[2])]
        st == FoldLeft(OptionStep, [err |-> NoErr, has_lock_id |-> FALSE, cmd |-> start],
                       Options(args))
    IN IF st.err # NoErr \/ st.has_lock_id THEN [err |-> st.err, cmd |-> st.cmd]
       ELSE [err |-> NoErr,
             cmd |-> [st.cmd EXCEPT !.LockId = IF isLock THEN rid ELSE lock_id]]

-----------------------------------------------------------------------------
(* The reference: what each argument of a line means, stated per field.   *)

\* Indices of the option names of a line.
NameIndices(args) == {i \in 3..Len(args) : i % 2 = 1}

\* The index of the last option named name, or 0.
LastNamed(args, name) ==
    LET I == {i \in NameIndices(args) : ToUpper(args[i]) = name}
    IN IF I = {} THEN 0 ELSE CHOOSE i \in I : \A j \in I : j <= i

\* The numeric options whose value strconv.Atoi refuses.
BadOptions(args) ==
    {i \in NameIndices(args) : ToUpper(args[i]) \in NumericNames /\ ~AtoiOk(args[i + 1])}

\* The 16-byte id an argument names.
RefId(s) ==
    IF Len(s) <= 16 THEN [i \in 1..16 - Len(s) |-> 0] \o s
    ELSE IF Len(s) = 32 /\ \A i \in 1..32 : s[i] \in HexDigit THEN HexDecode(s)
    ELSE Md5(s)

\* The uint16 pair lo, hi holds the low 32 bits of v: lo + 65536 * hi and
\* v agree modulo 2^32.
Splits(lo, hi, v) ==
    /\ lo \in 0..65535 /\ hi \in 0..65535
    /\ (v - lo) % 65536 = 0
    /\ ((v - lo) \div 65536 - hi) % 65536 = 0

\* lo, hi carry option name's value when the line gives one, else the
\* defaults d, 0.
Wide32(args, name, lo, hi, d) ==
    IF LastNamed(args, name) = 0 THEN lo = d /\ hi = 0
    ELSE Splits(lo, hi, AtoiOf(args[LastNamed(args, name) + 1]))

\* A byte-sized or uint16 option carries its value modulo 2^bits when the
\* line gives it.  (Without it the field keeps what the pooled struct held;
\* that is recorded as a hazard, not claimed here.)
Narrow(args, name, x, bits) ==
    LastNamed(args, name) # 0 => x = AtoiOf(args[LastNamed(args, name) + 1]) % (2 ^ bits)

-----------------------------------------------------------------------------
(* Lines at the edges of every conversion.                                 *)

\* The decimal bytes of n >= 0.
RECURSIVE Dec(_)
Dec(n) == IF n < 10 THEN <<48 + n>> ELSE Dec(n \div 10) \o <<48 + (n % 10)>>

\* Option values: one past uint16, a negative number, a signed one, and two
\* that strconv.Atoi refuses ("x" and "").
OptionValues == {Dec(65537), <<45>> \o Dec(1), <<43>> \o Dec(7), <<120>>, <<>>}

\* Ids: empty, one byte, 16 bytes, 17 bytes, 32 hex digits ("0f" repeated)
\* and 32 bytes that are not hex ("z" repeated).
IdArgs == {<<>>, <<107>>, [i \in 1..16 |-> i], [i \in 1..17 |-> i],
           [i \in 1..32 |-> IF i % 2 = 1 THEN 48 ELSE 102], [i \in 1..32 |-> 122]}

\* The option pairs: every numeric name (TIMEOUT also in lower case), LOCK_ID
\* and a name the switch ignores.
OptionArgs ==
    {<<nm, v>> : nm \in NumericNames \cup {<<116, 105, 109, 101, 111, 117, 116>>}, v \in OptionValues}
    \cup {<<LOCK_ID_NAME, id>> : id \in IdArgs} \cup {<<<<88>>, <<49>>>>}

\* "LOCK", "lock" and "UNLOCK".
CommandNames == {LOCK_NAME, <<108, 111, 99, 107>>, <<85, 78, 76, 79, 67, 75>>}

\* Every key with no option or one, a one-byte key with two options, and
\* a line with a name and no value.
TextLockLines ==
    {<<n, k>> : n \in CommandNames, k \in IdArgs}
    \cup {<<n, k>> \o o : n \in CommandNames, k \in IdArgs, o \in OptionArgs}
    \cup {<<n, <<107>>>> \o o1 \o o2 : n \in CommandNames, o1, o2 \in OptionArgs}
    \cup {<<LOCK_NAME, <<107>>, FLAG_NAME>>}

\* A fresh struct and one a previous command left with Flag 1, Count 5 and
\* Rcount 3.
PooledCmds ==
    {[Magic |-> 0, Version |-> 0, CommandType |-> 0, RequestId |-> IdB, Flag |-> f,
      DbId |-> 0, LockId |-> IdB, LockKey |-> IdB, Timeout |-> 0, TimeoutFlag |-> 0,
      Expried |-> 0, ExpriedFlag |-> 0, Count |-> cn, Rcount |-> rc] :
      <<f, cn, rc>> \in {<<0, 0, 0>>, <<1, 5, 3>>}}

\* ArgsToLockComand turns a LOCK or UNLOCK line into the command its
\* arguments describe: a line of odd length, or with a numeric option that
\* is not a number, is refused and names the first such option; otherwise
\* the key and LOCK_ID follow ParseId's cases, the last of repeated options
\* wins, TIMEOUT and EXPRIED are split into their value and flag halves
\* (with the defaults 3 and 60), and a line without LOCK_ID uses the
\* request id for a LOCK and the connection's last lock id for an UNLOCK.
TextLockCommandAgrees ==
    \A args \in TextLockLines, old \in PooledCmds :
        LET r == ArgsToLockComand(args, old, IdA, 0, IdB)
            c == r.cmd
        IN
        IF Len(args) % 2 # 0 THEN r.err = LenErr
        ELSE IF BadOptions(args) # {} THEN
             LET i == CHOOSE i \in BadOptions(args) : \A j \in BadOptions(args) : i <= j
             IN r.err = ToUpper(args[i])
        ELSE /\ r.err = NoErr
             /\ c.CommandType = IF ToUpper(args[1]) = LOCK_NAME THEN COMMAND_LOCK ELSE COMMAND_UNLOCK
             /\ c.Magic = MAGIC /\ c.Version = VERSION /\ c.RequestId = IdA /\ c.DbId = 0
             /\ c.LockKey = RefId(args[2])
             /\ c.LockId = IF LastNamed(args, LOCK_ID_NAME) # 0
                           THEN RefId(args[LastNamed(args, LOCK_ID_NAME) + 1])
                           ELSE IF c.CommandType = COMMAND_LOCK THEN IdA ELSE IdB
             /\ Wide32(args, TIMEOUT_NAME, c.Timeout, c.TimeoutFlag, 3)
             /\ Wide32(args, EXPRIED_NAME, c.Expried, c.ExpriedFlag, 60)
             /\ Narrow(args, FLAG_NAME, c.Flag, 8)
             /\ Narrow(args, COUNT_NAME, c.Count, 16)
             /\ Narrow(args, RCOUNT_NAME, c.Rcount, 8)

====
