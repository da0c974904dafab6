----------------------- MODULE TunnelStoreRefinement -----------------------
(***************************************************************************)
(* TunnelStore implements Registry: however the commands of concurrent     *)
(* creates and deletes interleave, fail or run late, what a reader of the  *)
(* keyspace can observe changes the way Registry says.                     *)
(***************************************************************************)
EXTENDS TunnelStore

ASSUME SlotAssumption == None \notin Ports

\* A slot belongs to the tunnel while its lease runs, while the handler still
\* means to publish it, and for good once it was published.
SlotOf(t) ==
    IF resv[t] > 0 \/ storeTtl[t] > 0 \/ pc[t] = "store" THEN port[t] ELSE None

\* session:{id} authenticates until expires_at; see validate_public_key.
CanAuthenticate(t) == sessKey[t] > 0 /\ life[t] > 0

R == INSTANCE Registry WITH
        Tunnels   <- Creates,
        Slots     <- Ports,
        Nil       <- None,
        slot      <- [t \in Creates |-> SlotOf(t)],
        lease     <- {t \in Creates : resv[t] > 0},
        published <- {t \in Creates : storeTtl[t] > 0},
        live      <- {t \in Creates : tunnelKey[t] > 0},
        keys      <- {t \in Creates : CanAuthenticate(t)}

\* The create and delete handlers implement the registry the hub and the edge
\* rely on: a slot is granted only when no lease names it, a record is written
\* at most once and only with a slot that was granted, and a key only for a
\* record that was written.
ImplementsRegistry == R!RegSpec
=============================================================================
