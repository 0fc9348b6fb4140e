\* Two calls, three rows in chunks of two, two resolutions of the categories, two
\* crashes or failed appends.
SPECIFICATION Spec
CONSTANTS
    Proc = {p1, p2}
    RowCount = 3
    ChunkSize = 2
    Plan = {h1, h2}
    None = None
    MaxFaults = 2
SYMMETRY Symmetry
INVARIANTS TypeOK RowPostedOnce PostedIsInBooks RejectedIsNotInBooks
PROPERTY SentAsPreviewed
