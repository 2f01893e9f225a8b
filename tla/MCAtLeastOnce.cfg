CONSTANTS
    Events <- MCEvents
    NoEvent = NoEvent
    Keys <- MCKeys
    IdemKey <- MCIdemKey
    Strategy <- MCStrategy
    Producers = {p1, p2}
    Workers = {w1}
    MaxRows = 2
    BatchSize = 2
    Concurrency = 2
    MaxAttempts = 2
    MaxFaults = 1
SPECIFICATION FairSpec
PROPERTY AtLeastOnce
