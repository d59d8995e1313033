\* Commands one after another, each of which may be killed; two targets in
\* scope, one outside it.
CONSTANTS
  p1 = p1  p2 = p2  c1 = c1  c2 = c2  c3 = c3  w1 = w1  w2 = w2
  Procs = {p1}
  Commits = {c1, c2, c3}
  InScope = {c1, c2}
  Base = Base
  Worktrees = {w1}
  Managed = w1
  None = None
  Limit = 2
  MaxSessions = 2
  Faulty = TRUE
  Reedited = TRUE
SPECIFICATION Spec
SYMMETRY Symmetry
INVARIANTS TypeOK ArtifactsStand
PROPERTIES ReadyStands ImplementsDelivery
