SPECIFICATION FairSpec
CONSTANTS
    Creates = {t1, t2}
    Deletes = {d1}
    Users = {u1}
    Subdomains = {s1}
    ReqTtls = {}
    NoTtl = NoTtl
    DefaultTtl = 1
    MaxTtl = 1
    FallbackTtl = 1
    CertTtl = 1
    Grace = 1
    Second = 1
    PortStart = 1
    PortEnd = 2
    MaxAttempts = 2
    None = None
PROPERTIES
    LeftoversExpire
