SPECIFICATION Spec
CONSTANTS
  MaxRows = 2
INVARIANTS
  TypeOK
  NothingLeft
  AnswerIsWhole
  AnswerIsTrue
PROPERTY
  NothingUsedDead
