SPECIFICATION Spec
CONSTANTS p1 = p1 p2 = p2 Pools <- MCPools Histories <- MCHistories PageSize = 2 Limit = 5 Concurrency = 1 ReportsTotal = TRUE
  DayLength = 2 Days = 2 Windows = {1, 2} MaxArrivals = 1 MaxChanges = 1
  SfAccounts <- MCAccounts SfLookbackEnv = 28 SfJobLimit = 4 SfMaxFailures = 1
  DbWorkspaces <- MCWorkspaces QueryMax = 3 QueryPage = 2 DbWindows = {3, 6} Now = 9 QueryWindow = 7 Headroom = 4 FabricSkus = {2, 4, 8, 16}
  BqProjects <- MCProjects BqLookbackEnv = 28 BqWindows = {7, 14, 28}
  Factories <- MCFactories PlNow = 18 PlDay = 4 PlHour = 2 PlWindows = {1, 2} HardRunLimit = 8 BatchSize = 1 PlMaxFailures = 1
  PiSources <- MCPiSources PiMaxFailures = 2
 PoolCount = 2 PoolWorkers = 2 Databases <- MCDatabases MaxFailedParts = 1
  Commands <- MCCommands Garbage <- MCGarbage PoolObjects <- MCPoolObjects BufferSize = 1 LookbackDays = 1 TtlDays = 2
  SharedOutput = TRUE MaxRequests = 2 MaxDay = 3 MaxDamage = 1
  MonScopes <- MCMonScopes MonWorkers = 2 MonMaxFailures = 1 MonDay = 3
  SvEndpoints <- MCSvEndpoints SvWorkers = 2 SvMaxFailures = 2 TopLimit = 3 TopDays = 2 DailyDays = 2 DayHours = 2
  StSites <- MCStSites StWorkers = 2 StPoolWorkers = 2 StMaxFailures = 2
  Threads = {1, 2, 3} Scripts <- Analyzers FirstTotal = 3
INVARIANTS
  SparkReportMeasured SnowflakeReportHonest DatabricksMeasured  
  EveryPartAnswered   MeasuresTrue ProgressTrue
CHECK_DEADLOCK FALSE
