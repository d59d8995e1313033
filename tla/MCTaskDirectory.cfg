\* Any two calls interleave; t2 is a task of the old layout, t1 is not; a
\* file can be replaced by another identity and by a recycled one.
CONSTANTS
  p1 = p1  p2 = p2  t1 = t1  t2 = t2  r1 = r1  r2 = r2  i1 = i1  i2 = i2
  Procs = {p1, p2}
  Tasks = {t1, t2}
  LegacyTasks = {t2}
  Repos = {r1, r2}
  Inodes = {i1, i2}
  None = None
SPECIFICATION Spec
SYMMETRY Symmetry
INVARIANTS TypeOK DiscoveryTrue
PROPERTIES DestroysOnlyItsOwn
