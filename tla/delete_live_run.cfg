SPECIFICATION Spec
CONSTANTS
    MaxRuns = 1
    NumModules = 1
    Windows = {}
    BaseWindow = 30
    MaxDeletes = 1
    MaxPurges = 0
    MaxCrashes = 0
INVARIANTS
    DeleteSparesLiveRuns
