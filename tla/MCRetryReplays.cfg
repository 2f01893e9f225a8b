CONSTANTS
    Rooms <- MCRooms
    Extensions <- MCExtensions
    Extension <- MCExtension
    Inputs <- LampInputs
    Handlers = {h1}
    MaxCalls = 1
    MaxTime = 0
    MaxFaults = 1
    MaxEvents = 1
    MaxBatchPerTick = 2
SPECIFICATION FairSpec
PROPERTY RetryReplays
CHECK_DEADLOCK FALSE
