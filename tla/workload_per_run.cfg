SPECIFICATION DedSpec
CONSTANTS PoolCount = 2 PoolWorkers = 2 Databases <- MCDatabases MaxFailedParts = 1
  Commands <- MCCommands Garbage <- MCGarbage PoolObjects <- MCPoolObjects BufferSize = 1 LookbackDays = 1 TtlDays = 2
  SharedOutput = FALSE MaxRequests = 2 MaxDay = 3 MaxDamage = 1
INVARIANTS CacheSpansRuns
CHECK_DEADLOCK FALSE
