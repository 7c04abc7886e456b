SPECIFICATION FairSpec
CONSTANTS
    MaxRuns = 2
    NumModules = 1
    Windows = {7}
    BaseWindow = 30
    MaxDeletes = 1
    MaxPurges = 0
    MaxCrashes = 1
INVARIANTS
    TypeOK
    SingleFlight
    BusyIffLive
    EnvScoped
    CancelRegistered
PROPERTIES
    SlotFreed
    RunSettles
