\* The connection's STATE reply written while the timeout and expiry goroutines write theirs.
CONSTANTS
    conn = conn  timer = timer  expiry = expiry
    None = None
    Writers <- MCWriters
    Script <- MCScript

SPECIFICATION Spec
INVARIANT ReplyIntegrity
