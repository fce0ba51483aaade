CONSTANTS
  Ids = {a, b, c}
  Functions = {f, g}
  Unregistered = {}
  Flash = flash
  None = None
  AckSlots = 3
  CacheSize = 2
  DrainLimit = 1
  MaxDeliveries = 4
  MaxDepth = 2
  Outages = 0

SPECIFICATION Spec

SYMMETRY IdSymmetry

INVARIANTS
  TypeOK
  RunsOnce
  ToldWhatRan
