SPECIFICATION FairSpec
CONSTANTS
  s1 = s1
  s2 = s2
  b1 = b1
  b2 = b2
  f1 = f1
  f2 = f2
  Stores = {s1}
  Subs = {b1, b2}
  Priority = {}
  ComputedOf <- MCNoComputed
  Modes = {"inline", "chunked"}
  SliceSize = 2
  Flights = {f1, f2}
  DeleteInInline = FALSE
  ReuseInFlight = FALSE
  MaxStamp = 4
PROPERTY EventuallyDelivered
