SPECIFICATION Spec
CONSTANTS
  Tabs = {1, 2, 3}
  MaxWrites = 3
  MaxRequests = 1
  Crowded = FALSE
  Recreate = FALSE
  Drops = TRUE
  Resolver = TRUE
INVARIANTS TypeOK Converged
PROPERTY NoRollback
CHECK_DEADLOCK FALSE
