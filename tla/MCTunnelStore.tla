--------------------------- MODULE MCTunnelStore ---------------------------
(* TunnelStore and its refinement for TLC: symmetric requests, users and    *)
(* subdomains.                                                              *)
EXTENDS TunnelStoreRefinement, TLC

Symmetry ==
    Permutations(Creates) \cup Permutations(Deletes)
        \cup Permutations(Users) \cup Permutations(Subdomains)
=============================================================================
