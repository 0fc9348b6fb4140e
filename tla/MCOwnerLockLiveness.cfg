\* Two processes, one crash at any step, no failed calls.  The pid of p2 is in use
\* again after its death.
SPECIFICATION FairSpec
CONSTANTS
    Proc = {p1, p2}
    Serial = {s1, s2}
    Dir = {d1, d2, d3}
    NoDir = NoDir
    NoToken = NoToken
    Remote = {}
    PidReused = {p2}
    Windows = FALSE
    FaultySteps <- NoSteps
    MaxFaults = 1
PROPERTIES CallEnds CrashRecovers
