--------------------------- MODULE MCCommandPool ---------------------------
(* Instance of CommandPool for TLC: one binary connection, one text       *)
(* connection, and enough LockCommand structs for every InitLockCommand   *)
(* fill and one new struct per frame.                                      *)
EXTENDS CommandPool, TextCommand, TLC

CONSTANTS c1, t1, k1, k2, k3, k4, k5, k6, k7, k8, k9, k10, k11, k12, k13, d1, d2

MCConns == {c1, t1}

MCTextConns == {t1}

MCAlloc == <<k1, k2, k3, k4, k5, k6, k7, k8, k9, k10, k11, k12, k13>>

MCDbAlloc == <<d1, d2>>

\* The text client LOCKs key kk, flushes db 0 and UNLOCKs kk (a two-byte
\* key, so that a Read can end inside an argument).
MCTextCmds == << << <<"LOCK">>, <<"k", "k">> >>,
                 << <<"FLUSHDB">>, <<"0">> >>,
                 << <<"UNLOCK">>, <<"k", "k">> >> >>

\* The request and reply frame properties of WireCodec and TextCommand are
\* constant formulas; each is checked here as a state invariant of the
\* pools run, so that a frame that breaks one is reported against a state.

\* A request LockCommand.Encode writes decodes to the same command through
\* LockCommand.Decode (WireCodec!LockFrameRoundTrip).
LockFrameRoundTripInv == TypeOK => LockFrameRoundTrip

\* ProcessParse accepts an encoded request exactly when its magic and
\* version are the server's, and its inline copy yields the encoded fields
\* (WireCodec!ProcessParseAgrees).
ProcessParseAgreesInv == TypeOK => ProcessParseAgrees

\* ArgsToLockComand turns every text LOCK or UNLOCK line of the input set
\* into the command the per-field reference gives, or the error the first
\* bad option names (TextCommand!TextLockCommandAgrees).
TextLockCommandAgreesInv == TypeOK => TextLockCommandAgrees

\* Every INIT, STATE, ADMIN or unknown request gets the reply it is owed,
\* whatever reply Write left in wbuf before it (WireCodec!ReplyFramesFresh).
ReplyFramesFreshInv == TypeOK => ReplyFramesFresh

====
