\* Two processes record three events with two ids and reconcile their runs.
CONSTANTS
    x1 = x1
    x2 = x2
    r1 = r1
    r2 = r2
    coder = coder
    reviewer = reviewer
    Procs = {p1, p2}
    Events <- ThreeEvents
    Prs = {pr1, pr2}
    Qualities = {none}
    Unknown = Unknown
    NoOne = NoOne
SPECIFICATION Spec
INVARIANTS
    TypeOK
    ReconciledOnceAndInFull
PROPERTIES
    ImplementsEventLog
    EveryCallEnds
