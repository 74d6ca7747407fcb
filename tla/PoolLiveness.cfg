SPECIFICATION BSpec
CONSTANTS
  Threads = {t1, t2, t3}
  Handles = {h1, h2, h3}
  Null = Null
  Size = 1
  MaxCalls = 1
PROPERTIES
  TryAcquireReturns
  FreeSlotServed
  AcquireReturns
