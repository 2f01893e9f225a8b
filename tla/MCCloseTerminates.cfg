CONSTANTS
    c1 = c1
    c2 = c2
    Conns <- MCConns
    Client = c1
    Capacity = 1
    MaxRecords = 2
    None = None
SPECIFICATION FairSpec

PROPERTY CloseTerminates
CHECK_DEADLOCK FALSE
