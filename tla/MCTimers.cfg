SPECIFICATION Spec
CONSTANTS
  Period = 14
  LoopMs = 1
  MaximumLineLength = 2
  FrameTimeoutMs = 3
  WorkLimit = 2
  InitialBackoffMs = 1
  MaximumBackoffMs = 4
  WifiConnectTimeoutMs = 2
  TimeSyncTimeoutMs = 3
  TimeSyncRetryBaseMs = 1
  TimeSyncRetryMaximumMs = 2
  TimeSyncMaximumAttempts = 2
  ClaimRetryBaseMs = 1
  ClaimRetryMaximumMs = 2
  MaxClaimFailures = 3
  HelloMs = 4
  FallbackPollMs = 2
  InvalidFrameBackoffMs = 1
  DrainLimit = 2
INVARIANTS
  LineForgotten
  BackoffKept
  WaitsKept
  SetupBounded
  PollGapBounded
  WaitsForDataReady
PROPERTIES
  LineIsWhole
