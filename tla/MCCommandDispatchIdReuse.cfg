CONSTANTS
  Ids = {a}
  Functions = {f}
  Unregistered = {}
  Flash = flash
  None = None
  AckSlots = 3
  CacheSize = 1
  DrainLimit = 1
  MaxDeliveries = 2
  MaxDepth = 2
  Outages = 0

SPECIFICATION Spec

PROPERTIES
  IdReuseFailsClosed
