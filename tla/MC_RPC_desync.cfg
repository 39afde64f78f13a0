\* Two callers, one of them with a deadline, two calls, one known and one
\* unknown method.  The server decodes the options before the first request
\* reaches it (ReadAhead FALSE), a schedule of the real connection in which
\* json.Decoder reads nothing beyond the options.
CONSTANTS
    c1 = c1
    c2 = c2
    good = good
    bad = bad
    Nobody = nobody
    Callers <- MCCallers
    Methods <- MCMethods
    Known <- MCKnown
    MaxSeq = 2
    Deadline <- MCDeadline
    HandleTimeout = TRUE
    ReadAhead = FALSE

SPECIFICATION Spec

\* Once the callers have made their calls both read loops block on an idle
\* connection: the client and the server may stop there.
CHECK_DEADLOCK FALSE

INVARIANT ServesUntilClosed
