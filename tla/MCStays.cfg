CONSTANTS
    Rooms <- MCRooms
    Extensions <- MCExtensions
    Extension <- MCExtension
    Inputs <- StayInputs
    Handlers = {h1}
    MaxCalls = 1
    MaxTime = 0
    MaxFaults = 1
    MaxEvents = 3
    MaxBatchPerTick = 2
SPECIFICATION FairSpec
INVARIANTS FailuresAreAudited CheckOutCleans SessionsBalance
CHECK_DEADLOCK FALSE
