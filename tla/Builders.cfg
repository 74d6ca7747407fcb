SPECIFICATION Spec
CONSTANTS
  Null = Null
  MaxInner = 1
  MaxOuter = 2
  MaxSets = 3
CHECK_DEADLOCK FALSE
INVARIANTS
  TypeOK
  PlaceholdersMatch
  SameValuesEverywhere
  EveryOperandBound
  SetKeepsPlace
  OutPlaceholdersFollow
PROPERTY
  ComparatorsStartOver
