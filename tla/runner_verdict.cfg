SPECIFICATION Spec
CONSTANTS
    MaxRuns = 2
    NumModules = 2
    Windows = {}
    BaseWindow = 30
    MaxDeletes = 0
    MaxPurges = 1
    MaxCrashes = 1
INVARIANTS
    ReportTrue
    
PROPERTIES
    ImplementsBoard
