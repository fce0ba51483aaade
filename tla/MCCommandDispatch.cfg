CONSTANTS
  Ids = {a}
  Functions = {f}
  Unregistered = {m}
  Flash = flash
  None = None
  AckSlots = 3
  CacheSize = 1
  DrainLimit = 2
  MaxDeliveries = 3
  MaxDepth = 2
  Outages = 2

SPECIFICATION FairSpec

INVARIANTS
  AcksInOrder
  QueueNeverFull

PROPERTIES
  EveryCommandAnswered
