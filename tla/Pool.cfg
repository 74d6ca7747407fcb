SPECIFICATION HSpec
CONSTANTS
  Threads = {t1, t2, t3}
  Handles = {h1, h2, h3, h4, h5}
  Null = Null
  Size = 2
SYMMETRY Symmetry
INVARIANTS
  TypeOK
  SlotConservation
  OneOwner
  LeaseHasConnection
  NoLostWakeup
  OpenBound
PROPERTIES
  NoStaleHandout
  KeepsPermits
