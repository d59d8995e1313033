CONSTANTS
  p1 = p1  p2 = p2  a = a  b = b  c = c  h1 = h1  h2 = h2
  Procs = {p1, p2}
  Operators = {p1}
  Sessions = {a, b}
  Heads = {h1}
  NoSession = NoSession
  NoEvidence = NoEvidence
  NoTxn = NoTxn
  Free = Free
  MaxDisplacements = 1
  MaxFaults = 0
SPECIFICATION FairSpec
CHECK_DEADLOCK FALSE
PROPERTIES OwnerlessLockSettles TransactionSettles
