SPECIFICATION Spec
CONSTANTS
  s1 = s1
  s2 = s2
  b1 = b1
  b2 = b2
  f1 = f1
  f2 = f2
  Stores = {s1, s2}
  Subs = {b1, b2}
  Priority = {s1}
  ComputedOf <- MCComputedOf
  Modes = {"inline", "chunked"}
  SliceSize = 1
  Flights = {f1, f2}
  DeleteInInline = FALSE
  ReuseInFlight = FALSE
  MaxStamp = 3
SYMMETRY MCSymmetry
INVARIANTS TypeOK NoLostNotification FlushArmed ChunkedSnapshotIsCurrent
