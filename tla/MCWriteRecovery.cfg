\* Three callers, two of them with QBO_RETRY_WRITES, one request id, two envelopes,
\* two crashes, failed appends or torn lines.
SPECIFICATION Spec
CONSTANTS
    Caller = {c1, c2, c3}
    Req = {r1}
    Env = {e1, e2}
    None = None
    RetryWrites = {c1, c2}
    MaxRetries = 1
    MaxCopies = 2
    MaxFaults = 2
SYMMETRY Symmetry
INVARIANTS TypeOK AtMostOnce BoundEnvelope OkMeansApplied
PROPERTY ResolvedNotResent
