\* Two processes that only stall: no crash, no failed call.
SPECIFICATION Spec
CONSTANTS
    Proc = {p1, p2}
    Serial = {s1, s2}
    Dir = {d1, d2, d3}
    NoDir = NoDir
    NoToken = NoToken
    Remote = {}
    PidReused = {}
    Windows = FALSE
    FaultySteps <- NoSteps
    MaxFaults = 0
SYMMETRY Symmetry
PROPERTY NoDelayedRmdir
