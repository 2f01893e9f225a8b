CONSTANTS
    Rooms <- MCRooms
    Extensions <- MCExtensions
    Extension <- MCExtension
    Inputs <- NeighbourInputs
    Handlers = {h1}
    MaxCalls = 1
    MaxTime = 0
    MaxFaults = 0
    MaxEvents = 2
    MaxBatchPerTick = 2
SPECIFICATION Spec
INVARIANT CheckOutSilences
CHECK_DEADLOCK FALSE
