\* Two sessions, a viewer_idle and a ttl_only tunnel, one slot and two binds: the
\* slot is bound, reaped, cancelled, dropped and bound again.  Two addresses and
\* two connections against a lockout of three ticks, over three starts.
SPECIFICATION MCSpec
CONSTANTS
    Sessions = {s1, s2}
    Tunnels = {t1, t2}
    Slots = {p1}
    Binds = {b1, b2}
    ViewerIdle = {t1}
    IdleLimit = 1
    LiveTtl = 2
    MaxViewers = 1
    Nil = Nil
    MaxIds = 2
    Addrs = {a1, a2}
    AuthConns = {c1, c2}
    MaxAuthAttempts = 2
    LockoutTicks = 3
    MaxStarts = 3
SYMMETRY Symmetry
INVARIANTS
    ListenersInTable
    GuessesBounded
    HostKeyKept
PROPERTIES
    HealthyIsServed
