SPECIFICATION Spec
CONSTANTS
  a = a
  b = b
  Names = {a, b}
  MaxHydrates = 2
  MaxStamp = 4
  Overlap = FALSE
  LateCalls = FALSE
  SyncInFlush = FALSE
  BoundOutlives = FALSE
INVARIANTS TypeOK CaptureIsCurrent QueueFinalized
PROPERTY Scrubbed
CHECK_DEADLOCK FALSE
