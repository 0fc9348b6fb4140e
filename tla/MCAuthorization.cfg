SPECIFICATION Spec
CONSTANTS
    Slug = {acme, bolt}
    Realm = {1, 2}
    Attempt = {a1}
    Proc = {p, q}
    None = None
    MaxGrant = 2
    Overtaken = FALSE
SYMMETRY Symmetry
INVARIANTS TypeOK UniqueRealm NoForeignRevocation NoRevocationReplay
           PortReleased LockOrder
PROPERTIES ReceiptKept ReportedCompanyLanded
