SPECIFICATION ComputedSpec
CONSTANTS
  Leaves <- MCLeaves
  Computeds <- MCComputeds
  AutoDispose <- MCAutoDispose
  Definitions <- MCDefinitions
  Values <- MCValues
  Null = 2
  Output <- MCOutput
  MaxCalls = 4
  DirectWrites = FALSE
  RolledBack = FALSE
  RecreateCalled = FALSE
INVARIANTS
  ComputedTypeOK
  ConsistentWhenIdle
PROPERTY
  Settles
CHECK_DEADLOCK FALSE
