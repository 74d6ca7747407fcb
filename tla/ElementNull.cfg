SPECIFICATION Spec
CONSTANTS
  Null = Null
  MaxInner = 0
  MaxOuter = 1
  MaxSets = 0
CHECK_DEADLOCK FALSE
PROPERTY TouchedIsComplete
