SPECIFICATION Spec
CONSTANTS
  s1 = s1
  s2 = s2
  Stores = {s1, s2}
  BadMerge = {s2}
  MaxKey = 4
  Persisted = {s1}
  LoadBehindWrites = FALSE
  HydrateAgain = FALSE
  RejectedSnapshots = FALSE
INVARIANTS TypeOK PolicyHolds SubscribersCaughtUp
PROPERTY AsIfImmediate
CHECK_DEADLOCK FALSE
