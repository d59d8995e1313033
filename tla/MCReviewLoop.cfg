\* Two commits, two engineers, two reviewers, two verifiers that share an id.
CONSTANTS
    hA = hA
    hB = hB
    g1 = g1
    g2 = g2
    r1 = r1
    r2 = r2
    w1 = w1
    w2 = w2
    x1 = x1
    x2 = x2
    v1 = v1
    v2 = v2
    Heads = {hA, hB}
    Uncommitted = Uncommitted
    Engineers = {g1, g2}
    Reviewers = {r1, r2}
    Verifiers = {v1, v2}
    Canary = canary
    WorkId <- WorkIds
    ReviewIds = {x1, x2}
    VerifierIds = {run}
    Payloads <- TwoReports
    Nothing = Nothing
SPECIFICATION Spec
SYMMETRY Symmetry
INVARIANTS
    TypeOK
    ShippedWasReviewed
    FindingsStayBound
    TelemetryGates
