CONSTANTS
  EspImages = {e}
  McuImages = {m1, m2}
  OriginalApp = app
  Original = original
  Golden = golden
  Broken = broken
  None = None
  MaxCommands = 4
  MaxDepth = 3

SPECIFICATION FairSpec

INVARIANTS
  TypeOK
  AppIsVerified
  SuccessMeansInstalled
  TargetRecoverable
  RestoredIsGood
PROPERTIES
  LinkResumes
