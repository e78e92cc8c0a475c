SPECIFICATION Spec
CONSTANTS
  MaxWrites = 4
  MaxCreates = 3
  MaxHides = 2
  Faults = TRUE
  HideWhileLoading = FALSE
  HideAgain = FALSE
  RecreateBusy = FALSE
INVARIANTS TypeOK SavedWhenIdle
PROPERTIES NeverGoesBack SavedEventually
CHECK_DEADLOCK FALSE
