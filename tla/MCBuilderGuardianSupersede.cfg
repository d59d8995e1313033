CONSTANTS
  p1 = p1  p2 = p2  c1 = c1  c2 = c2  c3 = c3  w1 = w1  w2 = w2
  Procs = {p1, p2}
  Commits = {c1}
  InScope = {c1}
  Base = Base
  Worktrees = {w1}
  Managed = w1
  None = None
  Limit = 1
  MaxSessions = 1
  Faulty = FALSE
  Reedited = TRUE
SPECIFICATION Spec
PROPERTY ReadyStands
CHECK_DEADLOCK FALSE
