---------------------------- MODULE ReplyBuffer ----------------------------
(***************************************************************************)
(* The write path of one BinaryServerProtocol connection (protocol.go):   *)
(* every reply is encoded into the connection's single 64-byte wbuf and   *)
(* then written to the socket.  Two functions do this:                    *)
(*  - ProcessLockResultCommand, the LOCK / UNLOCK results, called by the  *)
(*    connection's goroutine from db.Lock / UnLock and by the timeout and *)
(*    expiry goroutines from DoTimeOut / DoExpried through SLock.Active   *)
(*    (spec 4.8 "deliver"); it holds the connection's glock;              *)
(*  - Write, every other result (INIT, STATE, ADMIN, the magic and        *)
(*    version errors), called by the connection's goroutine only; it      *)
(*    takes no lock.                                                      *)
(* A writer is a goroutine with a script of replies.  Each assignment     *)
(* statement of an encoder is a step (the single-byte statements of one   *)
(* counter are one step, which only hides interleavings); the socket      *)
(* write copies wbuf in one step.                                         *)
(***************************************************************************)
EXTENDS Integers, Sequences, WireCodec

CONSTANTS
    Writers,   \* goroutines that reply on the connection
    Script,    \* Script[w]: the replies w delivers, in order
    None

\* A reply is a LOCK / UNLOCK result [kind |-> "lock", cmd, result, lcount]
\* or a STATE result [kind |-> "state", rec] written by Write.
Writes(j) ==
    IF j.kind = "lock" THEN LockReplyWrites(j.cmd, j.result, j.lcount)
                       ELSE StateResultWrites(j.rec)

\* What the client reads when it decodes the frame of reply j.
Meant(j) ==
    IF j.kind = "lock" THEN LockReplyRecord(j.cmd, j.result, j.lcount)
                       ELSE j.rec

Decoded(j, frame) ==
    IF j.kind = "lock" THEN LockResultDecode(frame) ELSE ResultStateDecode(frame)

VARIABLES
    wbuf,   \* BinaryServerProtocol.wbuf
    glock,  \* the writer holding the connection's glock, or None
    pc,     \* pc[w] = [job: index in Script[w], step: next statement]
    sent    \* the frames written to the socket, with the reply each was for

vars == <<wbuf, glock, pc, sent>>

Job(w) == Script[w][pc[w].job]

HasJob(w) == pc[w].job <= Len(Script[w])

-----------------------------------------------------------------------------
\* NewBinaryServerProtocol: wbuf is make([]byte, 64) with MAGIC and
\* VERSION in its first two bytes.
Init ==
    /\ wbuf = [i \in Offsets |-> IF i = 0 THEN MAGIC ELSE IF i = 1 THEN VERSION ELSE 0]
    /\ glock = None
    /\ pc = [w \in Writers |-> [job |-> 1, step |-> 0]]
    /\ sent = <<>>

\* ProcessLockResultCommand: self.glock.Lock() (the connection is open).
ProcessLockResultCommandLock(w) ==
    /\ HasJob(w) /\ Job(w).kind = "lock" /\ pc[w].step = 0
    /\ glock = None
    /\ glock' = w
    /\ pc' = [pc EXCEPT ![w].step = 1]
    /\ UNCHANGED <<wbuf, sent>>

\* Write: result.Encode(self.wbuf) begins, without the glock.
WriteBegin(w) ==
    /\ HasJob(w) /\ Job(w).kind = "state" /\ pc[w].step = 0
    /\ pc' = [pc EXCEPT ![w].step = 1]
    /\ UNCHANGED <<wbuf, glock, sent>>

\* One assignment statement of the encoder into wbuf.
EncodeStep(w) ==
    /\ HasJob(w) /\ pc[w].step \in 1..Len(Writes(Job(w)))
    /\ wbuf' = Apply(wbuf, Writes(Job(w))[pc[w].step])
    /\ pc' = [pc EXCEPT ![w].step = @ + 1]
    /\ UNCHANGED <<glock, sent>>

\* self.stream.conn.Write(buf) (ProcessLockResultCommand, then Unlock) or
\* self.stream.WriteBytes(self.wbuf) (Write): the socket gets wbuf as it
\* is now.
SendFrame(w) ==
    /\ HasJob(w) /\ pc[w].step = Len(Writes(Job(w))) + 1
    /\ sent' = Append(sent, [job |-> Job(w), frame |-> wbuf])
    /\ glock' = IF Job(w).kind = "lock" THEN None ELSE glock
    /\ pc' = [pc EXCEPT ![w] = [job |-> @.job + 1, step |-> 0]]
    /\ UNCHANGED wbuf

Terminated ==
    /\ \A w \in Writers : ~HasJob(w)
    /\ UNCHANGED vars

Next ==
    \/ \E w \in Writers :
          \/ ProcessLockResultCommandLock(w) \/ WriteBegin(w)
          \/ EncodeStep(w) \/ SendFrame(w)
    \/ Terminated

Spec == Init /\ [][Next]_vars

-----------------------------------------------------------------------------
TypeOK ==
    /\ wbuf \in [Offsets -> Byte]
    /\ glock \in Writers \cup {None}
    /\ \A w \in Writers : pc[w].job \in 1..Len(Script[w]) + 1
    /\ Len(sent) <= 64

\* Every frame the connection writes is the reply it was encoded for: the
\* client, decoding it as spec 4.1 lays the frame out, reads the request id,
\* the result and the fields of that reply and of no other.  Write encodes
\* into the wbuf that ProcessLockResultCommand fills under the glock from
\* the timeout and expiry goroutines (protocol.go 192-202 against 448-476).
ReplyIntegrity ==
    \A i \in DOMAIN sent : Decoded(sent[i].job, sent[i].frame) = Meant(sent[i].job)
====
