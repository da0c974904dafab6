--------------------------- MODULE MCTunnelPlane ---------------------------
(* TunnelPlane for TLC.                                                    *)
EXTENDS TunnelPlane, TLC

Symmetry == Permutations(Sessions) \cup Permutations(Slots) \cup Permutations(Binds)
                \cup Permutations(Users) \cup Permutations(Subdomains)
=============================================================================
