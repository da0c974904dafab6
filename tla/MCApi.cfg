SPECIFICATION MCSpec
SYMMETRY Symmetry
CONSTANTS
    Ips = {i1}
    Tokens = {x1}
    IpMax = 2
    Minute = 2
    Block = 4
    Keep = 4
    LimiterCap = 0
    Rate <- MCRate
    BurstMult <- MCBurst
    Tasks = {w1, w2, w3}
    Peers = {a1}
    MaxConns = 2
    ConnRate = 3
    RateWindow = 2
    BlockTime = 3
    Requests = {q1}
    DevMode = TRUE
    Life = 1
    Fractions = 3
    MaxClock = 3
    MaxTokens = 1
    Callers = {c1, c2, c3}
    FailureThreshold = 2
    Timeout = 2
    MaxFailures = 4
    PlanRequests = {r1, r2, r3}
    PlanIds = {p1, p2}
    Names = {n1, n2}
    Users = {u1}
    Attempts = 2
    QuotaRequests = {h1, h2, h3}
    Types = {tunnel, api}
    TunnelCreation = tunnel
    Limit = 2
    MaxResets = 1
    Ops = {"create", "check", "info"}
INVARIANTS
    IpRateBounded
    BreakerTrips
    NamesOverlap
    MigrationsSucceed
    QuotaTypeOK
    QuietResetSticks
PROPERTIES
    ExpiryAsPromised
    BlockHolds
    BlockedStayOut
    LoneAssignSingle
    DeniedOnlyAtLimit
