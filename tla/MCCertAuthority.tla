--------------------------- MODULE MCCertAuthority ---------------------------
(* The authority and, as a system of its own, the router's certificate      *)
(* manager.  Processes, serials and calls are interchangeable.              *)
EXTENDS CertAuthority, EdgeCerts

VARIABLE part

Symmetry == Permutations(Replicas) \cup Permutations(Certs) \cup Permutations(Calls)

MCInit == Init /\ EdgeInit /\ part \in {"authority", "edge"}

MCNext ==
    /\ UNCHANGED part
    /\ \/ part = "authority" /\ Next /\ UNCHANGED edgeVars
       \/ part = "edge" /\ EdgeNext /\ UNCHANGED vars

MCSpec == MCInit /\ [][MCNext]_<<vars, edgeVars, part>>
=============================================================================
