SPECIFICATION PlaneSpec
CONSTANTS
    Sessions = {s1}
    Tunnels = {t1, t2}
    Slots = {p1, p2}
    Binds = {b1, b2}
    ViewerIdle = {}
    IdleLimit = 1
    LiveTtl = 0
    MaxViewers = 1
    Viewers = {v1}
    Subdomains = {h1}
    Users = {u1}
    Protected = {t1}
    Nil = Nil
SYMMETRY Symmetry
INVARIANTS
    SlotServedByOwner
