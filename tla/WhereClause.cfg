SPECIFICATION Spec
CONSTANTS
  Predicates = {p1, p2, p3, p4}
  MaxLen = 8
SYMMETRY Symmetry
CHECK_DEADLOCK FALSE
INVARIANTS
  AcceptedParses
  MeansWhatWasCalled
  FreeTextConjoined
