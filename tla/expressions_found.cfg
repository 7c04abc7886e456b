SPECIFICATION PipelinesSpec
CONSTANTS Factories <- MCFactories PlNow = 18 PlDay = 4 PlHour = 2 PlWindows = {1, 2} HardRunLimit = 8 BatchSize = 1 PlMaxFailures = 1
  PiSources <- MCPiSources PiMaxFailures = 2
INVARIANT ExpressionsFound
CHECK_DEADLOCK FALSE
