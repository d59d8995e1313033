\* One dispatcher; two sign-offs of two reviewers on three commits.
CONSTANTS
    hA = hA
    hB = hB
    hC = hC
    e1 = e1
    e2 = e2
    s1 = s1
    s2 = s2
    Heads = {hA, hB, hC}
    Content <- ThreeCommits
    Reviewers = {s1, s2}
    EventIds = {e1, e2}
    Nothing = Nothing
    Requests <- SevenRequests
    Dispatchers = {d1}
    CodeReviewer = CodeReviewer
    Engineer = Engineer
    ReviewIds = {v1}
    EngineerId = EngineerId
    Availability <- SomeProfiles
    Fallbacks <- SomeFallbacks
    Uncommitted = Uncommitted
    MaxPreserved = 2
SPECIFICATION Spec
SYMMETRY Symmetry
INVARIANTS
    TypeOK
    SignedOff
    OneReviewer
    IndependentReviews
