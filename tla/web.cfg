SPECIFICATION WebSpec
CONSTANTS
  Writers = {w1} Logins = {l1, l2} Saves <- PageSaves Boot <- Shell
  SourceTypes = {"synapse_workspace", "snowflake"} Accounts = {"a1"} Windows = {"7"}
  MaxSaves = 2 MaxStarts = 2 MaxRestarts = 1
  NumEvents = 4 LogCap = 2 QueueCap = 2 Conns = {c1, c2}
  ScopeLists <- MCScopeLists OldRuns <- MCOldRuns NewRun <- MCNewRun DotEnv <- MCDotEnv
  RunModules <- MCRunModules
INVARIANTS SettingsTrue  ScopesTrue
PROPERTIES SignInSettles DoneArrives
CHECK_DEADLOCK FALSE
