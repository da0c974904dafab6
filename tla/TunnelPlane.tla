----------------------------- MODULE TunnelPlane -----------------------------
(***************************************************************************)
(* The data plane: the hub's listeners and the edge router                 *)
(* (cmd/edgehub-bin/src/main.rs, one process with the hub) over the tunnel *)
(* records of the control API, which appear here through their abstract    *)
(* specification, Registry.  The hub resolves a slot to a tunnel, the      *)
(* router resolves an SNI to a tunnel and dials its slot; neither holds    *)
(* anything while the other or the API moves on.                           *)
(*                                                                         *)
(* Both look-ups scan the users' lists and return the first record that    *)
(* matches.  A list can miss a tunnel (AckedIsListed in TunnelStore) and   *)
(* Redis can fail, so a scan answers with any matching live record or with *)
(* none.                                                                   *)
(***************************************************************************)
EXTENDS HubListeners

CONSTANTS
    Viewers,       \* inbound HTTPS connections
    Subdomains,
    Users,
    Protected      \* tunnels that ask for a session grant

VARIABLES
    slot, lease, published, live, keys,  \* the registry
    sub,        \* each tunnel's subdomain
    user,       \* each tunnel's owner
    grants,     \* session_grant:{subdomain}:{token}: the tunnels minted for
    view        \* each viewer: where it is, its tunnel, bind and grant

R == INSTANCE Registry

recordVars == <<slot, lease, published, live, keys>>
attrVars == <<sub, user>>
edgeVars == <<grants, view>>
planeVars == <<hubVars, recordVars, attrVars, edgeVars>>

NoView == [pc |-> "new", tunnel |-> Nil, bind |-> Nil, grant |-> Nil]

PlaneTypeOK ==
    /\ HubTypeOK
    /\ R!RegTypeOK
    /\ sub \in [Tunnels -> Subdomains]
    /\ user \in [Tunnels -> Users]
    /\ grants \in SUBSET published
    /\ view \in [Viewers -> [pc : {"new", "head", "dial", "splice", "closed"},
                             tunnel : published \cup {Nil},
                             bind : Binds \cup {Nil},
                             grant : published \cup {Nil}]]

PlaneInit ==
    /\ HubInit
    /\ R!RegInit
    /\ sub \in [Tunnels -> Subdomains]
    /\ user \in [Tunnels -> Users]
    /\ grants = {}
    /\ view = [v \in Viewers |-> NoView]

-----------------------------------------------------------------------------
(* The registry's and the hub's own steps                                  *)

RegistryStep ==
    /\ R!RegNext
    /\ UNCHANGED <<hubVars, attrVars, edgeVars>>

\* validate_public_key: the session record exists and has not expired.
AuthenticateSession(s, t) ==
    /\ t \in keys
    /\ Authenticate(s, t)
    /\ UNCHANGED <<recordVars, attrVars, edgeVars>>

\* A record get_tunnel_by_slot may return for a port.
MatchesAnySlot(t, p) == t \in live
MatchesSlot(t, p) == t \in live /\ slot[t] = p

RequestForward(s, p) ==
    /\ \E found \in {t \in Tunnels : MatchesSlot(t, p)} : ForwardLookup(s, p, found)
    /\ UNCHANGED <<recordVars, attrVars, edgeVars>>

HubOwnStep ==
    /\ \/ \E s \in Sessions : \/ ForwardRefused(s) \/ Drop(s)
                              \/ \E b \in Binds : ForwardBind(s, b)
                              \/ \E p \in Slots : CancelForward(s, p)
       \/ \E b \in Binds : TaskStep(b) \/ Beat(b) \/ StampClose(b)
       \/ HubTick
    /\ UNCHANGED <<recordVars, attrVars, edgeVars>>

\* Hub and router die together, and every connection with them.
ProcessCrash ==
    /\ Crash
    /\ view' = [v \in Viewers |-> IF view[v].pc = "new" THEN NoView
                                  ELSE [view[v] EXCEPT !.pc = "closed"]]
    /\ UNCHANGED <<recordVars, attrVars, grants>>

-----------------------------------------------------------------------------
(* Session grants                                                          *)

\* create_tunnel_session: the owner of a live tunnel mints a grant.
MintGrant(t) ==
    /\ t \in live
    /\ grants' = grants \cup {t}
    /\ UNCHANGED <<hubVars, recordVars, attrVars, view>>

\* SESSION_GRANT_TTL_SECONDS pass.
GrantExpires(t) ==
    /\ t \in grants
    /\ grants' = grants \ {t}
    /\ UNCHANGED <<hubVars, recordVars, attrVars, view>>

\* check_session_grant: the key is made of the subdomain and the token.
GrantValid(g, t) == g \in grants /\ sub[g] = sub[t]

-----------------------------------------------------------------------------
(* handle_router_connection                                                *)

ViewStep(v, here, there) ==
    /\ view[v].pc = here
    /\ view' = [view EXCEPT ![v] = there]
    /\ UNCHANGED <<recordVars, attrVars, grants>>

\* SNI -> subdomain -> record.
RouteBySni(v, t) ==
    /\ t \in live
    /\ ViewStep(v, "new", [pc |-> IF t \in Protected THEN "head" ELSE "dial",
                           tunnel |-> t, bind |-> Nil, grant |-> Nil])
    /\ UNCHANGED hubVars

\* A protected tunnel: the cookie of the request head names a live grant.
VerifyGrant(v, g) ==
    /\ ViewStep(v, "head", [view[v] EXCEPT !.pc = "dial", !.grant = g])
    /\ GrantValid(g, view[v].tunnel)
    /\ UNCHANGED hubVars

\* The slot is dialled and accepted: bytes are spliced from here on.
DialSlot(v, b) ==
    /\ ViewStep(v, "dial", [view[v] EXCEPT !.pc = "splice", !.bind = b])
    /\ owner[b].slot = slot[view[v].tunnel]
    /\ ViewerOpen(b)

\* 400, 403, 404, 500, 502, 504: any hop before the splice may end it.
RouteRefused(v) ==
    /\ view[v].pc \in {"new", "head", "dial"}
    /\ ViewStep(v, view[v].pc, [view[v] EXCEPT !.pc = "closed"])
    /\ UNCHANGED hubVars

SpliceEnds(v) ==
    /\ ViewStep(v, "splice", [view[v] EXCEPT !.pc = "closed"])
    /\ ViewerClose(view[v].bind)

RouterStep(v) ==
    \/ \E t \in Tunnels : RouteBySni(v, t) \/ VerifyGrant(v, t)
    \/ \E b \in Binds : DialSlot(v, b)
    \/ RouteRefused(v) \/ SpliceEnds(v)

PlaneNext ==
    \/ RegistryStep
    \/ \E s \in Sessions, t \in Tunnels : AuthenticateSession(s, t)
    \/ \E s \in Sessions, p \in Slots : RequestForward(s, p)
    \/ HubOwnStep
    \/ ProcessCrash
    \/ \E t \in Tunnels : MintGrant(t) \/ GrantExpires(t)
    \/ \E v \in Viewers : RouterStep(v)

PlaneSpec == PlaneInit /\ [][PlaneNext]_planeVars

\* The hub's tasks are polled; clients, viewers and the API owe nothing.
PlaneFairSpec ==
    /\ PlaneSpec
    /\ \A b \in Binds :
          WF_planeVars(TaskStep(b) /\ UNCHANGED <<recordVars, attrVars, edgeVars>>)

\* The behaviours in which no two records ever share a subdomain, which is what
\* SET subdomain:{s} NX is for.
SubdomainsExclusive == \A t, w \in live : sub[t] = sub[w] => t = w
ExclusiveSpec == PlaneInit /\ [][PlaneNext /\ SubdomainsExclusive']_planeVars

-----------------------------------------------------------------------------
(* What the planes promise together                                        *)

\* e2e_slot_allocation_gate.rs and storage_isolation.rs together: as long as
\* the leases of two tunnels run, the listener of one is never on the slot of
\* the other, whatever was deleted, re-bound or looked up late in between.
SlotServedByOwner ==
    \A b \in Binds, t \in Tunnels :
        /\ accept[b] = "run"
        /\ owner[b].tunnel \in lease /\ t \in lease
        /\ slot[t] = owner[b].slot
        => owner[b].tunnel = t

\* e2e_concurrent_tunnels.rs: "NO cross-communication": a viewer is spliced to
\* the session of the tunnel its SNI resolved to.
ViewersReachTheirTunnel ==
    \A v \in Viewers :
        view[v].pc = "splice" => owner[view[v].bind].tunnel = view[v].tunnel

\* tunnels.rs on session grants: "Only the tunnel owner may mint grants": a
\* viewer of a protected tunnel was let in by a grant of that tunnel's owner,
\* even when the subdomain had another tunnel before.
GrantFromOwner ==
    \A v \in Viewers :
        view[v].pc = "splice" /\ view[v].grant # Nil =>
            user[view[v].grant] = user[view[v].tunnel]

\* TeardownPolicy: "The tunnel dies on TTL expiry, explicit DELETE, or SSH-side
\* disconnect only": a tunnel whose record is gone stops being served.
DeadTunnelUnserved ==
    \A b \in Binds :
        owner[b].tunnel \in published \ live ~> accept[b] # "run"
=============================================================================
