--------------------------- MODULE MCHubListeners ---------------------------
(* The hub alone, with viewers; the hub without viewers under the API's     *)
(* health endpoints; and the start and authentication of the hub, each a    *)
(* part of its own, for TLC.  Tunnels are not symmetric: their policies     *)
(* differ.                                                                  *)
EXTENDS TunnelHealth, HubAuth, TLC

VARIABLE part

Symmetry ==
    Permutations(Sessions) \cup Permutations(Slots) \cup Permutations(Binds)
        \cup Permutations(AuthConns) \cup Permutations(Addrs)

MCInit ==
    /\ HealthInit /\ AuthInit
    /\ part \in {"hub", "health", "auth"}
    /\ part # "auth" => config = [redis |-> TRUE, insecure |-> FALSE]

MCNext ==
    /\ UNCHANGED part
    /\ \/ part = "hub" /\ HubNext /\ UNCHANGED <<healthVars, authVars>>
       \/ part = "health" /\ HealthNext /\ UNCHANGED authVars
          /\ \A b \in Binds : active'[b] = 0
       \/ part = "auth" /\ AuthNext /\ UNCHANGED <<hubVars, healthVars>>

MCSpec == MCInit /\ [][MCNext]_<<hubVars, healthVars, authVars, part>>
=============================================================================
