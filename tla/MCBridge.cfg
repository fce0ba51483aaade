CONSTANTS
  SeqMod = 2
  Kinds = {"telemetry", "status"}
  MaxMade = 3
  MaxResets = 1
  Slots = 3
  Capacity = 2
  Empty = Empty
  MaxOutages = 1
  MaxFaults = 1
  MaxTroubles = 1

SPECIFICATION BridgeFairSpec

INVARIANTS
  FramesInOrder
  OnlineAnnounced
  SamplesAccounted

PROPERTIES
  RetiredIsHandled
  OvertakesUnflushedOnly
  ImplementsTelemetryQueue
  AllGetsThrough
