CONSTANTS
  Wifi = {w1}
  Codes = {c1}
  Keys = {k1, k2}
  CliIds = {i1}
  None = None
  Faults = TRUE
  MaxClaimFailures = 2

SPECIFICATION FairSpec

INVARIANTS
  IdentityNeverLost
PROPERTIES
  InstalledBeforeAck
  AckedDisplacedOnlyByStage
  CliClaimAnswered
