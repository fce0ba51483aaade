CONSTANTS
  EspImages = {}
  McuImages = {m1, m2}
  OriginalApp = app
  Original = original
  Golden = golden
  Broken = broken
  None = None
  MaxCommands = 2
  MaxDepth = 1

SPECIFICATION Spec

INVARIANTS
  KnownGoodRestored
