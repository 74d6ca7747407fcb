SPECIFICATION Spec
CONSTANTS
  Character <- MCCharacter
  Given <- MCGiven
  MaxNames = 2
  MaxFunctions = 3
  MaxOrderBy = 2
  MaxSets = 3
CHECK_DEADLOCK FALSE
INVARIANTS
  NamesSurvive
  ChainMeansCalls
  RowsAsAsked
  SetOperationsInCallOrder
