--------------------------- MODULE MCReplyBuffer ---------------------------
(* Instance of ReplyBuffer for TLC: the connection's goroutine answers a   *)
(* LOCK and then a STATE request, while the timeout goroutine answers an   *)
(* earlier LOCK of the same connection with TIMEOUT and the expiry          *)
(* goroutine a third with EXPRIED.  Ids are 16 equal bytes.                *)
EXTENDS ReplyBuffer, TLC

CONSTANTS conn, timer, expiry

Id(x) == [i \in 1..16 |-> x]

LockCmd(x) ==
    [CommandType |-> COMMAND_LOCK, RequestId |-> Id(x), DbId |-> 0,
     LockId |-> Id(16 + x), LockKey |-> Id(32 + x), Count |-> 0, Rcount |-> 0]

StateCmd == [CommandType |-> COMMAND_STATE, RequestId |-> Id(4), DbId |-> 0]

\* db.GetState() of the db: one lock held and one waiting.
DbState ==
    [c \in {Counters[i] : i \in 1..8} |->
        IF c \in {"LockCount", "LockedCount", "WaitCount", "KeyCount"} THEN 1 ELSE 0]

MCWriters == {conn, timer, expiry}

MCScript ==
    (conn :> << [kind |-> "lock", cmd |-> LockCmd(1), result |-> 0, lcount |-> 1],
                [kind |-> "state", rec |-> StateReplyRecord(StateCmd, 1, DbState)] >>)
    @@ (timer :> << [kind |-> "lock", cmd |-> LockCmd(2), result |-> 8, lcount |-> 1] >>)
    @@ (expiry :> << [kind |-> "lock", cmd |-> LockCmd(3), result |-> 9, lcount |-> 0] >>)
====
