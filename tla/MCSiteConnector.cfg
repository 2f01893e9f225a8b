CONSTANTS
    None = None
    BatchSize = 2
    MaxEvents = 5
    MaxFaults = 3
SPECIFICATION FairSpec
INVARIANTS TypeOK InOrder NilIsKept LockedOutByFlush
PROPERTIES ClosedIsQuiet 
CHECK_DEADLOCK FALSE
