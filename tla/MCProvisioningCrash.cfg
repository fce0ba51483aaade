CONSTANTS
  Wifi = {w1, w2}
  Codes = {c1, c2}
  Keys = {k1, k2}
  CliIds = {i1}
  None = None
  Faults = FALSE
  MaxClaimFailures = 2

SPECIFICATION Spec

INVARIANTS
  TypeOK
  AckedSurvives
  NoExchangeAfterCommit
  CommittedWifiWasJoined
  RamMatchesFlash

PROPERTIES
  ExchangeIsDurable
  SameCodeSameKey
