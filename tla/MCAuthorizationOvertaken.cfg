SPECIFICATION Spec
CONSTANTS
    Slug = {acme, bolt}
    Realm = {1, 2}
    Attempt = {a1, a2}
    Proc = {p}
    None = None
    MaxGrant = 2
    Overtaken = TRUE
SYMMETRY Symmetry
PROPERTY ReportedCompanyLanded
