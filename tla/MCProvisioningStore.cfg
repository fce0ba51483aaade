CONSTANTS
  Wifi = {w1}
  Codes = {c1}
  Keys = {k1}
  CliIds = {i1}
  None = None
  Faults = TRUE

SPECIFICATION StoreSpec

INVARIANTS
  SettledWhenDone
  StageOutlivesFailure
PROPERTIES
  ImplementsAtomicIdentity
