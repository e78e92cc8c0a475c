SPECIFICATION SelSpec
CONSTANTS
  States <- MCStates
  Selectors <- MCSelectors
  Similar <- MCSimilar
  NewSelectors = FALSE
  EarlyRenders = FALSE
  OldSnapshots = FALSE
  Deletes = FALSE
  ObjectTests = FALSE
INVARIANTS SelTypeOK ShownIsCurrent MemoIsFresh
