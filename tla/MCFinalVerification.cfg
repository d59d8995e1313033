\* A plan of three commands against a worktree that others change.
CONSTANTS
    test = test
    lint = lint
    build = build
    Plan <- ThreeCommands
    Trees <- SmallTrees
    TreeLimit = 2
    Deadline = 3
    CommandTimeout = 2
    Grace = 1
    OutputLimit = 2
    TotalOutput = 4
    TextSize = 1
    ChunkSizes = {1, 2}
    Horizon = 6
SPECIFICATION Spec
INVARIANTS
    TypeOK
    PlanAccounted
    OutputBounded
    VerifiedOnTarget
    EndsByDeadline
PROPERTIES
    Ends
\* A finished invocation stops.
CHECK_DEADLOCK FALSE
