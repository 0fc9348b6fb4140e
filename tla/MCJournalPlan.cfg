SPECIFICATION Spec
CONSTANTS
    acme = acme
    bolt = bolt
    Slug = {acme, bolt}
    Proc = {server, other}
    Server = server
    Patch <- MCPatch
    None = None
    MaxGen = 2
    Realm = {r1, r2}
    Call = {c, d}
    Plan = {1}
    Companies = {{acme, bolt}}
    Entry <- MCEntry
    MaxBooks = 1
SYMMETRY Symmetry
INVARIANTS TypeOK RulesKept BooksGuarded PlanPostedOnce
