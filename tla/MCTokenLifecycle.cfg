\* Two processes, five issued credentials; an import is not interrupted while it is promoted.
SPECIFICATION Spec
CONSTANTS
    Proc = {p1, p2}
    None = None
    PromotionInterrupted = FALSE
    MaxIssued = 5
SYMMETRY Symmetry
INVARIANTS TypeOK NoReplay SpentIsGuarded QuarantinedIsExpired
PROPERTIES SuccessorKept RecoveryMovesForward
