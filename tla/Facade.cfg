SPECIFICATION Spec
CONSTANTS
  Threads = {t1, t2}
  Conns = {c1, c2}
  None = None
  Controllers = {t1}
  Failures = TRUE
  MaxRows = 2
SYMMETRY Symmetry
CHECK_DEADLOCK FALSE
INVARIANTS
  ReturnsOwnRow
  ReturnedIsDurable
  FailedLeavesNothing
  NoAbandonedTransaction
PROPERTY
  NoResurrection
