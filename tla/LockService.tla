----------------------------- MODULE LockService -----------------------------
(***************************************************************************)
(* What the lock engine promises a client about one exclusive key (spec   *)
(* 3 and 4.7, every request with count 0): the key is held by at most one *)
(* lock id at a time, to some re-entry depth, and the holder changes only *)
(* together with the result that tells a client so (decided under the    *)
(* key's mutex; the engine sends it once it has released the mutex):      *)
(*  - a grant (SUCCED) makes a free key held, or is a grant that ends at  *)
(*    once (expried 0), or re-enters the holder;                          *)
(*  - a release (SUCCED to an UNLOCK) takes one level or all levels off   *)
(*    the holder;                                                         *)
(*  - an expiry (EXPRIED) takes all levels off the holder;                *)
(*  - every other reply (an error or TIMEOUT) leaves the key as it is.    *)
(* Which request gets the reply is left free: the client is not modelled  *)
(* here.                                                                  *)
(***************************************************************************)
EXTENDS Naturals, Sequences

CONSTANTS
    LockIds,   \* lock ids
    Reqs,      \* request numbers
    Codes      \* the result codes

VARIABLES
    depth,     \* depth[l]: the re-entry depth of lock id l on the key
    replies    \* replies[q]: the results delivered for request q

vars == <<depth, replies>>

Free == \A l \in LockIds : depth[l] = 0

Held(l) == depth[l] > 0

Answer(q, code) == replies' = [replies EXCEPT ![q] = Append(@, code)]

Init ==
    /\ depth = [l \in LockIds |-> 0]
    /\ replies = [q \in Reqs |-> <<>>]

Acquire(l, q) ==
    /\ Free
    /\ depth' = [depth EXCEPT ![l] = 1]
    /\ Answer(q, "SUCCED")

AcquireTransient(q) ==
    /\ Free
    /\ Answer(q, "SUCCED")
    /\ UNCHANGED depth

Reenter(l, q) ==
    /\ Held(l)
    /\ depth' = [depth EXCEPT ![l] = @ + 1]
    /\ Answer(q, "SUCCED")

Release(l, q) ==
    /\ Held(l)
    /\ depth' \in {[depth EXCEPT ![l] = @ - 1], [depth EXCEPT ![l] = 0]}
    /\ Answer(q, "SUCCED")

Expire(l, q) ==
    /\ Held(l)
    /\ depth' = [depth EXCEPT ![l] = 0]
    /\ Answer(q, "EXPRIED")

Refuse(q) ==
    /\ \E code \in Codes \ {"SUCCED", "EXPRIED"} : Answer(q, code)
    /\ UNCHANGED depth

Next ==
    \E q \in Reqs :
        \/ AcquireTransient(q)
        \/ Refuse(q)
        \/ \E l \in LockIds :
              Acquire(l, q) \/ Reenter(l, q) \/ Release(l, q) \/ Expire(l, q)

Spec == Init /\ [][Next]_vars
====
