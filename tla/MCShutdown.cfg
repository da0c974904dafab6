\* The daemon with signals from every source, at any time.
SPECIFICATION ShutdownFairSpec
CONSTANTS
    Servers = {https, ssh}
    Conns = {c1}
    Sources = {"os", "socket", "api"}
    OsSignals = {"SIGTERM", "SIGUSR1", "SIGUSR2"}
    Kinds = {"Graceful", "Immediate", "Force"}
    Tracking = TRUE
    GracefulTimeout = 3
    ImmediateTimeout = 2
    ForceTimeout = 1
    Nil = Nil
PROPERTIES
    DeliveredStops
