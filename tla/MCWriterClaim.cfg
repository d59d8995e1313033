\* One operator orders takeovers; two invocations interleave, one may be
\* interrupted anywhere.
CONSTANTS
  p1 = p1  p2 = p2  a = a  b = b  c = c  h1 = h1  h2 = h2
  Procs = {p1, p2}
  Operators = {p1}
  Sessions = {a, b, c}
  Heads = {h1, h2}
  NoSession = NoSession
  NoEvidence = NoEvidence
  NoTxn = NoTxn
  Free = Free
  MaxDisplacements = 2
  MaxFaults = 1
SPECIFICATION Spec
SYMMETRY Symmetry
INVARIANTS TypeOK OnlyOwnerWrites ClaimConsistent
PROPERTIES IncompleteTakeoverFrozen InstallsOverReconciled ImplementsOwnership
\* An incomplete takeover stops everything until a human recovers the task.
CHECK_DEADLOCK FALSE
