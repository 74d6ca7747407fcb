SPECIFICATION Spec
CONSTANTS
  Writes = {w1, w2, w3, w4}
  MultiRow = {w1, w2}
INVARIANTS
  TypeOK
  FailedIsExcused
  ResultIsExcused
PROPERTY
  KeepsAutocommit
