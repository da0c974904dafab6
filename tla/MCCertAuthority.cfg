\* Two processes, two issuances of one client, one at a time in a process, over
\* more than one window, with two validate or revoke calls, a restart and failing
\* Redis commands at any point.  The router and another caller over one restart
\* of the edge, with a validity of two renewal periods.
SPECIFICATION MCSpec
CONSTANTS
    Replicas = {r1, r2}
    Certs = {s1, s2}
    Clients = {k1}
    Calls = {l1, l2}
    CertTtl = 3
    Second = 2
    Window = 1
    Limit = 1
    MaxRestarts = 1
    MaxInFlight = 1
    StoreFails = TRUE
    Callers = {router, other}
    Router = router
    Validity = 4
    RenewBefore = 2
    Poll = 2
    HourTicks = 3
    PerHour = 2
    MaxRoots = 2
SYMMETRY Symmetry
INVARIANTS RevokedNotStored PresentedUnexpired
PROPERTIES IssuedValidates
CHECK_DEADLOCK FALSE
