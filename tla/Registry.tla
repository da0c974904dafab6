------------------------------ MODULE Registry ------------------------------
(***************************************************************************)
(* What the tunnel records in Redis amount to for the hub and the edge     *)
(* router, which only read them: the abstract specification of the control *)
(* API.  A tunnel is granted a slot that no running lease names; its       *)
(* record is published at most once; a hub key is issued for a published   *)
(* tunnel; leases, records and keys lapse in any order and at any time, by *)
(* their TTLs or by DELETE.  The detailed specification is TunnelStore.    *)
(***************************************************************************)

CONSTANTS Tunnels, Slots, Nil

VARIABLES
    slot,        \* the slot granted to each tunnel, Nil for none
    lease,       \* tunnels whose port:{p} lease runs
    published,   \* tunnels whose record was ever written
    live,        \* tunnels whose record exists
    keys         \* tunnels whose session:{id} can still authenticate

regVars == <<slot, lease, published, live, keys>>

RegTypeOK ==
    /\ slot \in [Tunnels -> Slots \cup {Nil}]
    /\ lease \in SUBSET Tunnels
    /\ published \in SUBSET Tunnels
    /\ live \in SUBSET published
    /\ keys \in SUBSET Tunnels

RegInit ==
    /\ slot = [t \in Tunnels |-> Nil]
    /\ lease = {}
    /\ published = {}
    /\ live = {}
    /\ keys = {}

\* SET port:{p} NX EX
Grant(t, p) ==
    /\ slot[t] = Nil
    /\ \A w \in lease : slot[w] # p
    /\ slot' = [slot EXCEPT ![t] = p]
    /\ lease' = lease \cup {t}
    /\ UNCHANGED <<published, live, keys>>

\* SETEX tunnel:{id}.  The lease may have run out in the meantime.
Publish(t) ==
    /\ slot[t] # Nil
    /\ t \notin published
    /\ published' = published \cup {t}
    /\ live' = live \cup {t}
    /\ UNCHANGED <<slot, lease, keys>>

\* SETEX session:{id}
IssueKey(t) ==
    /\ t \in published
    /\ keys' = keys \cup {t}
    /\ UNCHANGED <<slot, lease, published, live>>

\* Time passes, a record is deleted, or a create is abandoned with its slot.
Lapse ==
    /\ lease' \in SUBSET lease
    /\ live' \in SUBSET live
    /\ keys' \in SUBSET keys
    /\ \E dropped \in SUBSET (Tunnels \ (published \cup lease')) :
          slot' = [t \in Tunnels |-> IF t \in dropped THEN Nil ELSE slot[t]]
    /\ UNCHANGED published

RegNext ==
    \/ \E t \in Tunnels, p \in Slots : Grant(t, p)
    \/ \E t \in Tunnels : Publish(t) \/ IssueKey(t)
    \/ Lapse

RegSpec == RegInit /\ [][RegNext]_regVars
=============================================================================
