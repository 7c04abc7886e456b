SPECIFICATION AssessSpec
CONSTANTS
  Workspaces <- MCWorkspaces
  Cards <- MCCards
  MaxUnreadable = 1
  Scopes <- MCScopes
  PricePages <- MCPricePages
  MaxAttempts = 4
  BaseDelay = 2
  CapDelay = 3
  Hints <- MCHints
  CacheHours = 2
  MaxHours = 4
  MaxReports = 2
  RunLibrary <- MCRunLibrary
  Catalogue <- MCCatalogue
  MaxHistory = 2
  TableRows = 3
  MaxRenders = 2
  Runs = {r1, r2} MaxWrites = 5 SameTick = FALSE
  WaveA <- MCWaveA
  WaveB <- MCWaveB
  Inputs <- MCInputs
  OptIn <- MCOptIn
  MaxParallel = 2
  MaxCommands = 2
  FvSites <- MCFvSites OddNames <- MCOddNames FvMaxFailures = 2
INVARIANT OwnCostOnly
CHECK_DEADLOCK FALSE
