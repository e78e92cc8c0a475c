SPECIFICATION Spec
CONSTANTS
  Values <- MCValues
  Partials <- MCPartials
  PathInputs <- MCPathInputs
  CacheSize = 2
  StagedPaths = FALSE
  MiddlewareCalls = FALSE
INVARIANTS TypeOK CacheIsFresh
PROPERTIES PathWriteIsLocal
