CONSTANTS
    t1 = t1
    w1 = w1
    w2 = w2
    s1 = s1
    fias = fias
    renamed = renamed
    moved = moved
    tiger = tiger
    Main = Main
    None = None
    TenantIds = {t1}
    Workers = {w1, w2}
    Systems = {s1}
    Configs <- MCConfigs
    PmsOf <- MCPmsOf
    ListenConfigs = {moved}
    TigerConfigs = {tiger}
    MaxRequests = 2
    MaxFailures = 1
    MaxTries = 1
    Capacity = 1
    MaxAdapters = 5
SPECIFICATION MCSpec
CONSTRAINTS OneSide W1First
INVARIANTS TypeOK ReadersAreLoaded OrphansHaveACause MapFollowsRows OnlyFailuresAbort
INVARIANTS AnsweredIsQueued CloseIsFinal ConnectedWasReported
PROPERTIES ReloadKeepsLinks StopsReturn
CHECK_DEADLOCK FALSE
