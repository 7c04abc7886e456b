SPECIFICATION ScopesSpec
CONSTANTS
  ScopeLists <- MCScopeLists
  OldRuns <- MCOldRuns
  NewRun <- MCNewRun
  DotEnv <- MCDotEnv
  RunModules <- MCRunModules
INVARIANTS
  ProviderPerScope
CHECK_DEADLOCK FALSE
