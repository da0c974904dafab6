\* One slot, a viewer_idle and a ttl_only tunnel.
SPECIFICATION HubFairSpec
CONSTANTS
    Sessions = {s1, s2}
    Tunnels = {t1, t2}
    Slots = {p1}
    Binds = {b1, b2}
    ViewerIdle = {t1}
    IdleLimit = 1
    LiveTtl = 1
    MaxViewers = 1
    Nil = Nil
PROPERTIES
    NoZombies
    MarkersEnd
