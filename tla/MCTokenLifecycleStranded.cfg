\* An import may be interrupted between saving its credential and removing its stage.
SPECIFICATION Spec
CONSTANTS
    Proc = {p1, p2}
    None = None
    PromotionInterrupted = TRUE
    MaxIssued = 4
SYMMETRY Symmetry
INVARIANT NoReplay
