SPECIFICATION Spec
CONSTANTS
  s1 = s1
  s2 = s2
  Stores = {s1, s2}
  MaxDepth = 2
  MaxFrames = 3
  MaxStamp = 5
INVARIANTS TypeOK NoStrandedNotification
PROPERTIES BatchAtomic
