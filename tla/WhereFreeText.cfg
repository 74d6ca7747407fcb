SPECIFICATION Spec
CONSTANTS
  Predicates = {p1, p2, p3}
  MaxLen = 4
SYMMETRY Symmetry
CHECK_DEADLOCK FALSE
INVARIANT FreeTextIsConjunct
