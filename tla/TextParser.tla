----------------------------- MODULE TextParser -----------------------------
(***************************************************************************)
(* The RESP parser of a TextServerProtocol (TextServerProtocolParser,      *)
(* protocol.go) and the array encoding of its Build.  Parse is one call:   *)
(* it consumes the bytes of the buffer the last Read filled, from          *)
(* buf_index, and returns either when the buffer is used up, in the middle *)
(* of a command if need be, or right after a whole command (args holds     *)
(* args_count arguments), or with an error.  Everything it has to keep     *)
(* across two Reads is in the struct, which is a record here.              *)
(*                                                                         *)
(* A byte is a symbol: "*", "$", CR, LF, the digits, and opaque symbols    *)
(* for the bytes of an argument.  The parser never looks inside an         *)
(* argument's bytes, so a command name such as "LOCK" is one symbol; every *)
(* length counts symbols.  buf_index is Go's 0-based index: the byte it    *)
(* points at is buf[buf_index + 1].                                        *)
(***************************************************************************)
EXTENDS Naturals, Sequences, SequencesExt

CR == "CR"
LF == "LF"
CRLF == <<CR, LF>>

DigitSyms == <<"0", "1", "2", "3", "4", "5", "6", "7", "8", "9">>

\* strconv.Atoi over unsigned decimal digits (the symbols have no sign).
IsNumber(s) == s # <<>> /\ \A i \in DOMAIN s : s[i] \in Range(DigitSyms)

Atoi(s) ==
    FoldLeft(LAMBDA n, ch : 10 * n + (CHOOSE d \in 0..9 : DigitSyms[d + 1] = ch),
             0, s)

\* fmt.Sprintf("%d", n)
RECURSIVE Itoa(_)
Itoa(n) == IF n < 10 THEN <<DigitSyms[n + 1]>>
           ELSE Itoa(n \div 10) \o <<DigitSyms[(n % 10) + 1]>>

\* Build with two or more results: "*<n>\r\n" and "$<len>\r\n<result>\r\n"
\* for each result.  A text client encodes its commands the same way.
BuildArray(results) ==
    <<"*">> \o Itoa(Len(results)) \o CRLF
    \o FlattenSeq([i \in DOMAIN results |->
                     <<"$">> \o Itoa(Len(results[i])) \o CRLF \o results[i] \o CRLF])

\* The struct as NewTextServerProtocol makes it (buf is the last chunk read).
NewParser == [buf |-> <<>>, buf_index |-> 0, buf_len |-> 0, stage |-> 0,
              args |-> <<>>, args_count |-> 0, carg |-> <<>>, carg_len |-> 0]

Ok(p) == [go |-> "ret", p |-> p, err |-> FALSE]
Fail(p) == [go |-> "ret", p |-> p, err |-> TRUE]

At(p) == p.buf[p.buf_index + 1]

\* The check before a '\n': buf_index > 0 && buf[buf_index-1] != '\r' fails.
AfterCR(p) == p.buf_index = 0 \/ p.buf[p.buf_index] = CR

\* Stages 1 and 3 share the loop that collects the digits of a line up to
\* '\n' (every byte but '\r' goes to carg) and stores its number as
\* args_count or carg_len.
LineDone(p) ==
    [p EXCEPT !.args_count = IF p.stage = 1 THEN Atoi(p.carg) ELSE @,
              !.carg_len = IF p.stage = 3 THEN Atoi(p.carg) ELSE @,
              !.carg = <<>>, !.buf_index = @ + 1, !.stage = @ + 1]

\* The whole argument read: it is appended to args; more arguments go back
\* to stage 2, the last one ends the command at stage 0 and Parse returns.
ArgDone(p) ==
    LET q == [p EXCEPT !.args = Append(@, p.carg), !.carg = <<>>,
                       !.carg_len = 0, !.buf_index = @ + 1]
    IN  IF Len(q.args) < q.args_count THEN [q EXCEPT !.stage = 2]
        ELSE [q EXCEPT !.stage = 0]

\* Mutant: the bytes of an argument a Read has cut short are skipped, not
\* kept in carg for the next Read.
TakeDataDropPartial(p) ==
    LET need == p.carg_len - Len(p.carg)
        short == p.buf_len - p.buf_index < need
    IN  IF need > 0
        THEN [p EXCEPT !.carg = IF short THEN @
                                ELSE @ \o SubSeq(p.buf, p.buf_index + 1, p.buf_index + need),
                       !.buf_index = IF short THEN p.buf_len ELSE @ + need]
        ELSE p

\* Stage 4: the bytes of the argument still missing, as many as the buffer
\* has (the rest when it has fewer, and Parse returns).
TakeData(p) ==
    LET need == p.carg_len - Len(p.carg)
        upto == IF p.buf_len - p.buf_index < need THEN p.buf_len
                ELSE p.buf_index + need
    IN  IF need > 0
        THEN [p EXCEPT !.carg = @ \o SubSeq(p.buf, p.buf_index + 1, upto),
                       !.buf_index = upto]
        ELSE p

\* One pass of the loop of Parse ends in one of these: Ok or Fail return
\* from Parse, Go(m, p) goes on with the loop m on struct p.
Go(m, p) == [go |-> m, p |-> p, err |-> FALSE]

\* The loop of stages 1 and 3 over the bytes of a line.
ScanLine(p) ==
    IF p.buf_index >= p.buf_len THEN Ok(p)
    ELSE IF At(p) = LF
         THEN IF ~AfterCR(p) \/ ~IsNumber(p.carg) THEN Fail(p)
              ELSE Go("parse", LineDone(p))
         ELSE Go("line", [p EXCEPT !.carg = IF At(p) # CR THEN Append(@, At(p)) ELSE @,
                                  !.buf_index = @ + 1])

\* After the argument's bytes, every byte up to '\n' is skipped.
ScanArgEnd(p) ==
    IF p.buf_index >= p.buf_len THEN Ok(p)
    ELSE IF At(p) = LF
         THEN IF ~AfterCR(p) THEN Fail(p)
              ELSE LET q == ArgDone(p)
                   IN  IF q.stage = 2 THEN Go("parse", q) ELSE Ok(q)
         ELSE Go("argend", [p EXCEPT !.buf_index = @ + 1])

\* One iteration of the outer for loop: the switch on stage.
ParseStep(p) ==
    IF p.buf_index >= p.buf_len THEN Ok(p)
    ELSE CASE p.stage = 0 ->
                IF At(p) # "*" THEN Fail(p)
                ELSE Go("parse", [p EXCEPT !.buf_index = @ + 1, !.stage = 1])
           [] p.stage = 2 ->
                IF At(p) # "$" THEN Fail(p)
                ELSE Go("parse", [p EXCEPT !.buf_index = @ + 1, !.stage = 3])
           [] p.stage \in {1, 3} -> Go("line", p)
           [] p.stage = 4 ->
                LET q == TakeData(p)
                IN  IF q.carg_len - Len(q.carg) > 0 THEN Ok(q)
                    ELSE Go("argend", q)

Loops == {"parse", "line", "argend"}

\* The structs Parse can be called on (the domain of ParseLoop).
ParserStates ==
    [buf : Seq(STRING), buf_index : Nat, buf_len : Nat, stage : 0..4,
     args : Seq(Seq(STRING)), args_count : Nat, carg : Seq(STRING), carg_len : Nat]

\* The loops run until one returns.  A recursive function rather than a
\* recursive operator: its argument is a value, so TLC evaluates each
\* pass once also when it checks fairness.
ParseLoop[m \in Loops, p \in ParserStates] ==
    LET s == CASE m = "parse" -> ParseStep(p)
               [] m = "line"  -> ScanLine(p)
               [] m = "argend" -> ScanArgEnd(p)
    IN  IF s.go = "ret" THEN s ELSE ParseLoop[s.go, s.p]

Parse(p) == ParseLoop["parse", p]

\* A command is complete (Process, 885).
Complete(p) == p.args_count > 0 /\ p.args_count = Len(p.args)
====
