\* Two callers that do not retry, one crash.
SPECIFICATION Spec
CONSTANTS
    Caller = {c1, c2}
    Req = {r1}
    Env = {e1, e2}
    None = None
    RetryWrites = {}
    MaxRetries = 1
    MaxCopies = 2
    MaxFaults = 1
SYMMETRY Symmetry
INVARIANT RejectedMeansNotApplied
