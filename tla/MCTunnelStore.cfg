\* Two creates and a delete of two users over two ports, some of them leased
\* already: the last port, an exhausted range, lost claims, a lease shorter than
\* its tunnel, and expiry between any two commands.
SPECIFICATION Spec
CONSTANTS
    Creates = {t1, t2}
    Deletes = {d1}
    Users = {u1, u2}
    Subdomains = {s1}
    ReqTtls = {4}
    NoTtl = NoTtl
    DefaultTtl = 3
    MaxTtl = 3
    FallbackTtl = 3
    CertTtl = 2
    Grace = 2
    Second = 2
    PortStart = 1
    PortEnd = 2
    MaxAttempts = 2
    None = None
SYMMETRY Symmetry
INVARIANTS
    TypeOK
    LeasesExclusive
    RoutingKeyKept
    SessionUntilExpiry
PROPERTIES
    ImplementsRegistry
