SPECIFICATION Spec
CONSTANTS
    Creates = {t1, t2}
    Deletes = {d1}
    Users = {u1}
    Subdomains = {s1, s2}
    ReqTtls = {}
    NoTtl = NoTtl
    DefaultTtl = 1
    MaxTtl = 4
    FallbackTtl = 2
    CertTtl = 1
    Grace = 1
    Second = 1
    PortStart = 1
    PortEnd = 2
    MaxAttempts = 3
    None = None
SYMMETRY Symmetry
INVARIANT OneTunnelPerSlot
