SPECIFICATION MCSpec
CONSTANTS
    Packets <- MCPackets
    Traffics <- MCTraffics
    Names <- MCNames
    V4 = {a4}
    V6 = {}
    Junk = {}
    NoAddr = NoAddr
    SlotTtl = 2
    CacheTtl = 2
    PurgePeriod = 1
    MaxDelay = 1
    Algs = {"hmac"}
    DefaultAlg = "hmac"
    HmacAlg = "hmac"
    Rotators = {r1}
    Interval = 2
    Grace = 1
    SigTtl = 2
    KeyIds = {0, 1, 2, 3, 4}
    MaxKeys = 3
    MaxHold = 1
    Tasks = {t1, t2}
    Responses <- MCResponses
    MinSize = 5
    PatternCap = 2
    EvictCount = 1
    Times = {1, 2, 3}
    WindowCap = 3
    MinSamples = 2
    MaxCalls = 3
INVARIANTS
    AnswersFresh
    ReplyEchoesQuery
    TagNamesSigner
    KeyUntilDue
    PatternsBounded
PROPERTIES
    ServerStops
    SignatureRecent
