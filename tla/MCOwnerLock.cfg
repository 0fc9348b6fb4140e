\* Two processes on one host and one on another, one crash or failed call, every
\* kind of failed call but unlink.
SPECIFICATION Spec
CONSTANTS
    Proc = {p1, p2, p3}
    Serial = {s1, s2}
    Dir = {d1, d2, d3, d4}
    NoDir = NoDir
    NoToken = NoToken
    Remote = {p3}
    PidReused = {}
    Windows = TRUE
    FaultySteps <- AllButUnlink
    MaxFaults = 1
SYMMETRY Symmetry
INVARIANTS TypeOK MutualExclusion OwnerKeepsMarker ClaimPinsDirectory NoLiveLeftover
PROPERTIES OnlyOwnMarkersRemoved ImplementsExclusiveLock
