\* No symmetry, for the liveness.
SPECIFICATION FairSpec
CONSTANTS
    Searches = {s1, s2}
    Queries = {a, b}
    HostCount = 2
    ConnectTimeout = 1
    ReadTimeout = 2
    None = None
INVARIANTS AskedOnce GivesUpInTime
PROPERTIES EveryHostTried ImplementsService EverySearchEnds
\* Every search may have ended.
CHECK_DEADLOCK FALSE
