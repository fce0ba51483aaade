SPECIFICATION ScheduleSpec
CONSTANTS
  Period = 9
  LoopMs = 1
  HelloMs = 4
  FallbackPollMs = 2
  InvalidFrameBackoffMs = 1
  DrainLimit = 1
INVARIANTS
  PollIsBoundedFallback
