CONSTANTS
    Rooms <- MCRooms
    Extensions <- MCExtensions
    Extension <- MCExtension
    Inputs <- WakeUpInputs
    Handlers = {h1}
    MaxCalls = 2
    MaxTime = 1
    MaxFaults = 1
    MaxEvents = 3
    MaxBatchPerTick = 2
SPECIFICATION FairSpec
INVARIANTS TypeOK RingsOnce ClearAllClears
PROPERTIES CancelIsFinal OverdueSettles
CHECK_DEADLOCK FALSE
