\* Two submissions at once, with no lock between them.
CONSTANTS
    c1 = c1
    c2 = c2
    r1 = r1
    r2 = r2
    h1 = h1
    h2 = h2
    Callers = {c1, c2}
    Runs = {r1, r2}
    Heads = {h1, h2}
    Overlap = TRUE
    MaxPulls = 1
SPECIFICATION Spec
SYMMETRY Symmetry
INVARIANTS
    WithinAllowance
