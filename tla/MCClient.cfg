SPECIFICATION MCSpec
\* Commands end and no more are started (MaxRuns); channels end.
CHECK_DEADLOCK FALSE
CONSTANTS
    Procs = {p1, p2}
    MaxSessions = 2
    Ttl = 2
    KeepAlive = 1
    ConnectTimeout = 1
    MaxTime = 4
    MaxRuns = 2
    MaxFaults = 1
    Channels = {c1, c2}
    MaxData = 2
INVARIANTS
    HeldToExpiry
    NamedKeyWhole
    DataPassed
PROPERTIES
    LiveKeyKept
    ChannelsEnd
