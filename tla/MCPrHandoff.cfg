\* One operation at a time, any of which may crash half-way.
CONSTANTS
    c1 = c1
    c2 = c2
    r1 = r1
    r2 = r2
    h1 = h1
    h2 = h2
    Callers = {c1, c2}
    Runs = {r1, r2}
    Heads = {h1, h2}
    Overlap = FALSE
    MaxPulls = 3
SPECIFICATION Spec
SYMMETRY Symmetry
INVARIANTS
    TypeOK
    WithinAllowance
    CallsReserved
    RecordedPullIsOurs
PROPERTIES
    AllowanceNeverReset
