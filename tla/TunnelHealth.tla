--------------------------- MODULE TunnelHealth ---------------------------
(***************************************************************************)
(* The health and information endpoints of the control API                 *)
(* (crates/backendapi/src/handlers/tunnels.rs, storage.rs), run against    *)
(* the liveness markers the hub of HubListeners publishes.                 *)
(*                                                                         *)
(* A health request answers a list of tunnel ids (get_tunnel_health is     *)
(* given one).  For each id it reads the record, checks owner and expiry,  *)
(* asks the certificate authority, then reads the marker: three awaits,    *)
(* between which the hub, its clients and the clock go on.  What the       *)
(* record and the authority answer are inputs:                             *)
(* TunnelStore and CertAuthority model where they come from.               *)
(***************************************************************************)
EXTENDS HubListeners, Sequences

CONSTANT
    MaxIds      \* the limit of a bulk request, 100

ASSUME HealthAssumption ==
    /\ MaxIds \in Nat \ {0}
    /\ Nil \notin {"healthy", "degraded", "unhealthy", "error"}

VARIABLES
    check,      \* the health request being handled
    verdict,    \* what the last step reported, Nil when it reported nothing
    \* history, read by properties only
    since       \* ticks since a listener of the tunnel was bound, up to LiveTtl

healthVars == <<check, verdict, since>>

NoCheck == [ids |-> <<>>, pc |-> "idle", valid |-> FALSE]

HealthInit ==
    /\ HubInit
    /\ check = NoCheck
    /\ verdict = Nil
    /\ since = [t \in Tunnels |-> LiveTtl]

-----------------------------------------------------------------------------
\* get_tunnel_health, for one id; get_bulk_tunnel_health, for 1 to MaxIds.
Ask(ids) ==
    /\ check.pc = "idle"
    /\ Len(ids) \in 1 .. MaxIds
    /\ check' = [ids |-> ids, pc |-> "record", valid |-> FALSE]
    /\ verdict' = Nil

\* The id is dealt with: the next one, or the reply.
Advance ==
    IF Len(check.ids) = 1
    THEN NoCheck
    ELSE [ids |-> Tail(check.ids), pc |-> "record", valid |-> FALSE]

\* Bad format, no record, a Redis error, or another user's tunnel: an entry of
\* the errors list, or the error reply of the single endpoint.
RetrieveFails ==
    /\ check.pc = "record"
    /\ check' = Advance
    /\ verdict' = "error"

\* The record of the user's own tunnel; one past its expires_at is reported
\* without further questions.
Retrieve(isExpired) ==
    /\ check.pc = "record"
    /\ IF isExpired
       THEN check' = Advance /\ verdict' = "unhealthy"
       ELSE check' = [check EXCEPT !.pc = "cert"] /\ verdict' = Nil

\* validate_certificate(..).unwrap_or(false)
ValidateCertificate(valid) ==
    /\ check.pc = "cert"
    /\ check' = [check EXCEPT !.pc = "live", !.valid = valid]
    /\ verdict' = Nil

HealthStatus(connected, valid) ==
    IF ~connected THEN "unhealthy" ELSE IF valid THEN "healthy" ELSE "degraded"

\* is_tunnel_live(..).unwrap_or(false)
IsTunnelLive(t, answered) == answered /\ marker[t] > 0

\* The last question, and the verdict.  The stored status stays Creating, so a
\* connected tunnel is always shown as Connecting.
ReadLive(answered) ==
    /\ check.pc = "live"
    /\ verdict' = HealthStatus(IsTunnelLive(Head(check.ids), answered), check.valid)
    /\ check' = Advance

-----------------------------------------------------------------------------
ApiStep ==
    \/ \E t, u \in Tunnels : Ask(<<t>>) \/ Ask(<<t, u>>)
    \/ RetrieveFails
    \/ \E answer \in BOOLEAN :
            Retrieve(answer) \/ ValidateCertificate(answer) \/ ReadLive(answer)

Serving(t) == \E b \in Binds : accept[b] = "run" /\ owner[b].tunnel = t

HubMoves ==
    /\ HubEvent
    /\ verdict' = Nil
    /\ since' = [t \in Tunnels |-> IF Serving(t) THEN 0 ELSE since[t]]
    /\ UNCHANGED check

TimePasses ==
    /\ HubTick
    /\ verdict' = Nil
    /\ since' = [t \in Tunnels |-> IF Serving(t) THEN 0
                                   ELSE IF since[t] = LiveTtl THEN LiveTtl
                                   ELSE since[t] + 1]
    /\ UNCHANGED check

HealthNext == (ApiStep /\ UNCHANGED <<hubVars, since>>) \/ HubMoves \/ TimePasses

HealthSpec == HealthInit /\ [][HealthNext]_<<hubVars, healthVars>>

-----------------------------------------------------------------------------
(* What the endpoints promise                                              *)

\* tunnels.rs on the marker: "only while it holds a bound slot listener for
\* this tunnel, so this reflects an actual connection", and ssh_server.rs:
\* "liveness can lag a disconnect by up to TUNNEL_LIVE_TTL".  A tunnel called
\* healthy or degraded had a listener less than LiveTtl ago, whatever the
\* session, the hub process and the request did meanwhile.  It is stated of the
\* ttl_only tunnels: the reaper of a viewer_idle tunnel leaves the heartbeat.
HealthyIsServed ==
    [][\A t \in Tunnels \ ViewerIdle :
          check.pc = "live" /\ Head(check.ids) = t /\ verdict' \in {"healthy", "degraded"}
              => since[t] < LiveTtl]_<<hubVars, healthVars>>
=============================================================================
