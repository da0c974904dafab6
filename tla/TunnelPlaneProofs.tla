------------------------- MODULE TunnelPlaneProofs -------------------------
(***************************************************************************)
(* The hub for any number of sessions, slots and binds, and the data plane *)
(* for any number of tunnels and viewers: every accept loop is filed in    *)
(* its session's table and serves the tunnel its session authenticated     *)
(* for; the plane takes only steps the hub alone could take; and while     *)
(* leases run a slot is served by the tunnel it was leased to.             *)
(***************************************************************************)
EXTENDS TunnelPlane, TunnelHealth, TLAPS

-----------------------------------------------------------------------------
(* The hub                                                                 *)

HubTypes ==
    /\ conn \in [Sessions -> {"new", "up", "gone"}]
    /\ auth \in [Sessions -> Tunnels \cup {Nil}]
    /\ fwd \in [Sessions -> [slot : Slots \cup {Nil}, tunnel : Tunnels \cup {Nil}]]
    /\ table \in [Sessions -> [Slots -> Binds \cup {Nil}]]
    /\ owner \in [Binds -> [sess : Sessions \cup {Nil}, slot : Slots \cup {Nil},
                            tunnel : Tunnels \cup {Nil}]]
    /\ accept \in [Binds -> TaskState]
    /\ beat \in [Binds -> TaskState]
    /\ reaper \in [Binds -> TaskState]

\* A tcpip_forward in progress passed the gate of a session that is up.
ForwardGated ==
    \A s \in Sessions :
        fwd[s] # NoFwd => /\ conn[s] = "up"
                          /\ fwd[s].slot \in Slots
                          /\ fwd[s].tunnel \in Tunnels
                          /\ auth[s] = fwd[s].tunnel

\* A bind that was made has an owner: a session that authenticated for its
\* tunnel.  One that was not has no task.
BindOwned ==
    \A b \in Binds :
        IF accept[b] = "none"
        THEN beat[b] = "none" /\ reaper[b] = "none"
        ELSE /\ owner[b].sess \in Sessions
             /\ owner[b].slot \in Slots
             /\ owner[b].tunnel \in Tunnels
             /\ conn[owner[b].sess] # "new"
             /\ auth[owner[b].sess] = owner[b].tunnel

\* The table of a session holds binds of its own, under their slots.
TableOwned ==
    \A s \in Sessions, p \in Slots :
        table[s][p] # Nil => /\ conn[s] = "up"
                             /\ accept[table[s][p]] # "none"
                             /\ owner[table[s][p]].sess = s
                             /\ owner[table[s][p]].slot = p

HubInv == HubTypes /\ ForwardGated /\ BindOwned /\ TableOwned /\ ListenersInTable

\* A hub that has just started has no sessions, tasks or entries.
LEMMA HubInitially == HubInit => HubInv
BY HubAssumption
DEF HubInit, HubInv, HubTypes, ForwardGated, BindOwned, TableOwned,
    ListenersInTable, NoFwd, NoOwner, TaskState

\* The steps that leave tables, owners and tasks alone.
LEMMA HubFrame ==
    ASSUME HubInv, UNCHANGED <<conn, auth, fwd, table, owner, taskVars>>
    PROVE  HubInv'
BY DEF HubInv, HubTypes, ForwardGated, BindOwned, TableOwned,
       ListenersInTable, taskVars

\* auth_publickey opens a session, and touches no listener.
LEMMA AuthenticateKeeps ==
    ASSUME HubInv, NEW s \in Sessions, NEW t \in Tunnels, Authenticate(s, t)
    PROVE  HubInv'
<1> USE DEF Authenticate, bindVars, taskVars
<1>1. HubTypes'
  BY DEF HubInv, HubTypes
<1>2. ForwardGated'
  BY DEF HubInv, HubTypes, ForwardGated
<1>3. BindOwned'
  BY DEF HubInv, HubTypes, BindOwned
<1>4. TableOwned'
  BY DEF HubInv, HubTypes, TableOwned
<1>5. ListenersInTable'
  BY DEF HubInv, HubTypes, ListenersInTable
<1>6. QED
  BY <1>1, <1>2, <1>3, <1>4, <1>5 DEF HubInv

\* The slot gate decides on a forward; nothing is bound yet.
LEMMA LookupKeeps ==
    ASSUME HubInv, NEW s \in Sessions, NEW p \in Slots,
           NEW found \in Tunnels \cup {Nil}, ForwardLookup(s, p, found)
    PROVE  HubInv'
<1> USE DEF ForwardLookup, bindVars, taskVars
<1>1. HubTypes'
  BY DEF HubInv, HubTypes
<1>2. ForwardGated'
  BY DEF HubInv, HubTypes, ForwardGated, Ready, Gate
<1>3. QED
  BY <1>1, <1>2 DEF HubInv, BindOwned, TableOwned, ListenersInTable

\* A forward that is refused leaves no trace.
LEMMA RefusedKeeps ==
    ASSUME HubInv, NEW s \in Sessions, ForwardRefused(s)
    PROVE  HubInv'
<1> USE DEF ForwardRefused, bindVars, taskVars
<1>1. HubTypes'
  BY DEF HubInv, HubTypes, NoFwd
<1>2. ForwardGated'
  BY DEF HubInv, HubTypes, ForwardGated
<1>3. QED
  BY <1>1, <1>2 DEF HubInv, BindOwned, TableOwned, ListenersInTable

\* The slot is free, so the entry the new bind replaces is of no running loop.
LEMMA BindKeeps ==
    ASSUME HubInv, NEW s \in Sessions, NEW b \in Binds, ForwardBind(s, b)
    PROVE  HubInv'
<1> DEFINE p == fwd[s].slot
<1>1. /\ conn[s] = "up" /\ p \in Slots /\ fwd[s].tunnel \in Tunnels
      /\ auth[s] = fwd[s].tunnel
  BY DEF ForwardBind, HubInv, ForwardGated
<1>2. /\ accept[b] = "none"
      /\ owner' = [owner EXCEPT ![b] = [sess |-> s, slot |-> p, tunnel |-> fwd[s].tunnel]]
      /\ accept' = [accept EXCEPT ![b] = "run"]
      /\ beat' = [beat EXCEPT ![b] = "run"]
      /\ reaper' = [reaper EXCEPT ![b] =
                      IF fwd[s].tunnel \in ViewerIdle THEN "run" ELSE "none"]
      /\ table' = [table EXCEPT ![s] = [table[s] EXCEPT ![p] = b]]
      /\ fwd' = [fwd EXCEPT ![s] = NoFwd]
      /\ conn' = conn /\ auth' = auth
  BY DEF ForwardBind
<1>3. \A c \in Binds : owner[c].slot = p => accept[c] \notin {"run", "abort"}
  BY DEF ForwardBind, BindFree, Bound
<1>4. HubTypes'
  BY <1>1, <1>2 DEF HubInv, HubTypes, NoFwd, TaskState
<1>5. ForwardGated'
  BY <1>1, <1>2 DEF HubInv, HubTypes, ForwardGated
<1>6. BindOwned'
  BY <1>1, <1>2 DEF HubInv, HubTypes, BindOwned
<1>7. TableOwned'
  BY <1>1, <1>2, HubAssumption DEF HubInv, HubTypes, TableOwned
<1>8. ListenersInTable'
  BY <1>1, <1>2, <1>3 DEF HubInv, HubTypes, ListenersInTable
<1>9. QED
  BY <1>4, <1>5, <1>6, <1>7, <1>8 DEF HubInv

\* Cancel and Drop abort what they take out of the table.
LEMMA CancelKeeps ==
    ASSUME HubInv, NEW s \in Sessions, NEW p \in Slots, CancelForward(s, p)
    PROVE  HubInv'
<1> USE DEF CancelForward, AbortAll, Aborted
<1>1. table[s][p] \in Binds
  BY DEF HubInv, HubTypes
<1>2. HubTypes'
  BY <1>1 DEF HubInv, HubTypes, TaskState
<1>3. ForwardGated'
  BY DEF HubInv, ForwardGated
<1>4. BindOwned'
  BY <1>1 DEF HubInv, HubTypes, BindOwned
<1>5. TableOwned'
  BY <1>1 DEF HubInv, HubTypes, TableOwned
<1>6. ListenersInTable'
  BY <1>1 DEF HubInv, HubTypes, ListenersInTable
<1>7. QED
  BY <1>2, <1>3, <1>4, <1>5, <1>6 DEF HubInv

\* The session's Drop aborts what its table names.
LEMMA DropKeeps ==
    ASSUME HubInv, NEW s \in Sessions, Drop(s)
    PROVE  HubInv'
<1> USE DEF Drop, AbortAll, Aborted, Held
<1>1. HubTypes'
  BY DEF HubInv, HubTypes, TaskState, NoFwd
<1>2. ForwardGated'
  BY DEF HubInv, HubTypes, ForwardGated
<1>3. BindOwned'
  BY DEF HubInv, HubTypes, BindOwned
<1>4. TableOwned'
  BY DEF HubInv, HubTypes, TableOwned
<1>5. ListenersInTable'
  BY HubAssumption DEF HubInv, HubTypes, ListenersInTable
<1>6. QED
  BY <1>1, <1>2, <1>3, <1>4, <1>5 DEF HubInv

\* The death of the hub ends all sessions and tasks.
LEMMA CrashKeeps ==
    ASSUME HubInv, Crash
    PROVE  HubInv'
<1> USE DEF Crash, Killed
<1>1. HubTypes'
  BY DEF HubInv, HubTypes, TaskState, NoFwd
<1>2. ForwardGated'
  BY DEF HubInv, ForwardGated
<1>3. BindOwned'
  BY DEF HubInv, HubTypes, BindOwned
<1>4. TableOwned' /\ ListenersInTable'
  BY DEF TableOwned, ListenersInTable
<1>5. QED
  BY <1>1, <1>2, <1>3, <1>4 DEF HubInv

\* The tasks of a listener: heartbeats, reaper, viewers and their reclaim.
LEMMA TasksKeep ==
    ASSUME HubInv, NEW b \in Binds, TaskStep(b)
    PROVE  HubInv'
<1> USE DEF TaskStep, Reclaim, Reap, Aborted
<1>1. UNCHANGED <<conn, auth, fwd, table, owner>>
  OBVIOUS
<1>2. HubTypes'
  BY <1>1 DEF HubInv, HubTypes, TaskState
<1>3. ForwardGated'
  BY <1>1 DEF HubInv, ForwardGated
<1>4. \A c \in Binds : /\ accept'[c] = "none" <=> accept[c] = "none"
                       /\ accept'[c] = "run" => accept[c] = "run"
                       /\ beat[c] = "none" => beat'[c] = "none"
                       /\ reaper[c] = "none" => reaper'[c] = "none"
  BY DEF HubInv, HubTypes
<1>5. BindOwned'
  BY <1>1, <1>4 DEF HubInv, BindOwned
<1>6. TableOwned'
  BY <1>1, <1>4 DEF HubInv, HubTypes, TableOwned
<1>7. ListenersInTable'
  BY <1>1, <1>4 DEF HubInv, ListenersInTable
<1>8. QED
  BY <1>2, <1>3, <1>5, <1>6, <1>7 DEF HubInv

\* Every step of the hub keeps its invariant.
LEMMA HubKeeps == HubInv /\ [HubNext]_hubVars => HubInv'
<1> SUFFICES ASSUME HubInv, [HubNext]_hubVars PROVE HubInv'
  OBVIOUS
<1>1. CASE UNCHANGED hubVars
  BY <1>1, HubFrame DEF hubVars, bindVars
<1>2. CASE HubTick
  BY <1>2, HubFrame DEF HubTick
<1>3. ASSUME NEW b \in Binds, Beat(b) \/ ViewerOpen(b) \/ ViewerClose(b) \/ StampClose(b)
      PROVE  HubInv'
  BY <1>3, HubFrame DEF Beat, ViewerOpen, ViewerClose, StampClose, bindVars
<1>4. QED
  BY <1>1, <1>2, <1>3, AuthenticateKeeps, LookupKeeps, RefusedKeeps, BindKeeps,
     CancelKeeps, DropKeeps, CrashKeeps, TasksKeep
  DEF HubNext, HubEvent, HubStep

\* The inductive invariant of the hub: forwards in progress passed the gate,
\* binds have owners, and table and accept loops point at each other.
THEOREM HubInvariance == HubSpec => []HubInv
BY HubInitially, HubKeeps, PTL DEF HubSpec

\* forward_listeners holds every running accept loop, so cancel_tcpip_forward
\* and the session's Drop find it, across re-binds, reaps and crashes.
THEOREM ListenersFiled == HubSpec => []ListenersInTable
BY HubInvariance, PTL DEF HubInv

\* The slot gate of tcpip_forward: a listener belongs to a session that
\* authenticated for the tunnel it serves.
THEOREM ListenersGated == HubSpec => []ListenerOfItsTunnel
<1>1. HubInv => ListenerOfItsTunnel
  BY DEF HubInv, BindOwned, ListenerOfItsTunnel
<1>2. QED
  BY <1>1, HubInvariance, PTL

-----------------------------------------------------------------------------
(* Heartbeats, and the health endpoints that read their markers            *)

\* A bind without a reaper is a ttl_only tunnel's, and the other way round.
ReaperByPolicy ==
    \A b \in Binds :
        accept[b] # "none" /\ owner[b].tunnel \notin ViewerIdle => reaper[b] = "none"

BeatInv == HeartbeatWithListener /\ ReaperByPolicy

\* Every step of the hub keeps heartbeats and listeners together.
LEMMA BeatKeeps ==
    ASSUME HubInv, BeatInv, [HubNext]_hubVars
    PROVE  BeatInv'
<1> USE DEF HubInv, HubTypes, BeatInv, HeartbeatWithListener, ReaperByPolicy
<1>1. CASE UNCHANGED <<owner, taskVars>>
  BY <1>1 DEF taskVars
<1>2. ASSUME NEW s \in Sessions, NEW b \in Binds, ForwardBind(s, b) PROVE BeatInv'
  BY <1>2 DEF ForwardBind
<1>3. ASSUME NEW B, AbortAll(B), UNCHANGED owner PROVE BeatInv'
  <2>1. ASSUME NEW b \in Binds
        PROVE  \/ accept'[b] = accept[b] /\ beat'[b] = beat[b] /\ reaper'[b] = reaper[b]
               \/ /\ accept'[b] = Aborted(accept[b])
                  /\ beat'[b] = Aborted(beat[b])
                  /\ reaper'[b] = Aborted(reaper[b])
    BY <1>3 DEF AbortAll
  <2>2. QED
    BY <1>3, <2>1 DEF Aborted
<1>4. CASE Crash
  BY <1>4 DEF Crash, Killed, BindOwned
<1>5. ASSUME NEW b \in Binds, Reclaim(b) PROVE BeatInv'
  BY <1>5 DEF Reclaim
<1>6. ASSUME NEW b \in Binds, Reap(b) PROVE BeatInv'
  BY <1>6 DEF Reap, Aborted
<1>7. ASSUME NEW s \in Sessions, Drop(s) \/ \E p \in Slots : CancelForward(s, p)
      PROVE  BeatInv'
  <2>1. UNCHANGED owner /\ \E B : AbortAll(B)
    BY <1>7 DEF Drop, CancelForward
  <2>2. QED
    BY <1>3, <2>1
<1>8. QED
  BY <1>1, <1>2, <1>4, <1>5, <1>6, <1>7
  DEF HubNext, HubEvent, HubStep, TaskStep, HubTick, Authenticate, ForwardLookup,
      ForwardRefused, Beat, ViewerOpen, ViewerClose, StampClose, hubVars, bindVars

\* The heartbeat of a ttl_only tunnel runs exactly as long as its listener.
THEOREM HeartbeatsPaired == HubSpec => []HeartbeatWithListener
<1>1. HubInit => BeatInv
  BY DEF HubInit, BeatInv, HeartbeatWithListener, ReaperByPolicy
<1>2. HubInv /\ BeatInv /\ [HubNext]_hubVars => BeatInv'
  BY BeatKeeps
<1>3. QED
  BY <1>1, <1>2, HubInvariance, PTL DEF HubSpec, BeatInv

\* A marker has no more time left than its tunnel has been served lately.
MarkerRecent ==
    /\ marker \in [Tunnels -> Nat]
    /\ since \in [Tunnels -> Nat]
    /\ \A t \in Tunnels \ ViewerIdle : marker[t] > 0 => marker[t] + since[t] <= LiveTtl

HealthInv == HubInv /\ BeatInv /\ MarkerRecent

\* Every step keeps MarkerRecent: only the heartbeat of a running listener renews a
\* marker.
LEMMA MarkerKeeps ==
    ASSUME HealthInv, [HealthNext]_<<hubVars, healthVars>>
    PROVE  MarkerRecent'
<1> USE HubAssumption DEF HealthInv, MarkerRecent
<1>1. CASE UNCHANGED <<marker, since>>
  BY <1>1
<1>2. CASE TimePasses
  <2>1. /\ marker' = [t \in Tunnels |-> IF marker[t] > 0 THEN marker[t] - 1 ELSE 0]
        /\ since' = [t \in Tunnels |-> IF Serving(t) THEN 0
                                       ELSE IF since[t] = LiveTtl THEN LiveTtl
                                       ELSE since[t] + 1]
    BY <1>2 DEF TimePasses, HubTick
  <2>2. QED
    BY <2>1
<1>3. ASSUME HubMoves, UNCHANGED marker PROVE MarkerRecent'
  BY <1>3 DEF HubMoves
<1>4. ASSUME HubMoves, NEW b \in Binds, Beat(b) PROVE MarkerRecent'
  <2>1. /\ marker' = [marker EXCEPT ![owner[b].tunnel] = LiveTtl]
        /\ since' = [t \in Tunnels |-> IF Serving(t) THEN 0 ELSE since[t]]
    BY <1>4 DEF HubMoves, Beat
  <2>2. beat[b] = "run" /\ accept[b] # "none"
    BY <1>4 DEF Beat, HubInv, BindOwned
  <2>3. owner[b].tunnel \notin ViewerIdle => Serving(owner[b].tunnel)
    BY <2>2 DEF BeatInv, ReaperByPolicy, HeartbeatWithListener, Serving
  <2>4. owner[b].tunnel \in Tunnels
    BY <2>2 DEF HubInv, BindOwned
  <2>5. ASSUME NEW t \in Tunnels \ ViewerIdle, marker'[t] > 0
        PROVE  marker'[t] + since'[t] <= LiveTtl
    <3>1. CASE t = owner[b].tunnel
      BY <2>1, <2>3, <3>1
    <3>2. CASE t # owner[b].tunnel
      BY <2>1, <2>5, <3>2
    <3>3. QED
      BY <3>1, <3>2
  <2>6. marker' \in [Tunnels -> Nat] /\ since' \in [Tunnels -> Nat]
    BY <2>1, <2>4
  <2>7. QED
    BY <2>5, <2>6
<1>5. HubMoves => UNCHANGED marker \/ \E b \in Binds : Beat(b)
  BY DEF HubMoves, HubEvent, HubStep, TaskStep, Reclaim, Reap, Authenticate,
         ForwardLookup, ForwardRefused, ForwardBind, CancelForward, Drop, Crash,
         ViewerOpen, ViewerClose, StampClose
<1>6. QED
  BY <1>1, <1>2, <1>3, <1>4, <1>5 DEF HealthNext, hubVars, healthVars

\* Whatever the endpoints ask and however sessions and the hub process end, a
\* ttl_only tunnel they call healthy or degraded was served less than
\* TUNNEL_LIVE_TTL ago.
THEOREM HealthyServed == HealthSpec => HealthyIsServed
<1>1. HealthInit => HealthInv
  <2>1. HealthInit => BeatInv
    BY DEF HealthInit, HubInit, BeatInv, HeartbeatWithListener, ReaperByPolicy
  <2>2. HealthInit => MarkerRecent
    BY HubAssumption DEF HealthInit, HubInit, MarkerRecent
  <2>3. QED
    BY <2>1, <2>2, HubInitially DEF HealthInit, HealthInv
<1>2. HealthInv /\ [HealthNext]_<<hubVars, healthVars>> => HealthInv'
  <2> SUFFICES ASSUME HealthInv, [HealthNext]_<<hubVars, healthVars>> PROVE HealthInv'
    OBVIOUS
  <2>1. [HubNext]_hubVars
    BY DEF HealthNext, HubMoves, TimePasses, HubNext
  <2>2. QED
    BY <2>1, HubKeeps, BeatKeeps, MarkerKeeps DEF HealthInv
<1>3. ASSUME HealthInv, HealthNext, NEW t \in Tunnels \ ViewerIdle,
             check.pc = "live", Head(check.ids) = t, verdict' \in {"healthy", "degraded"}
      PROVE  since[t] < LiveTtl
  <2>1. PICK answered \in BOOLEAN : ReadLive(answered)
    BY <1>3, HealthAssumption
    DEF HealthNext, ApiStep, HubMoves, TimePasses, Ask, RetrieveFails, Retrieve,
        ValidateCertificate
  <2>2. marker[t] > 0
    BY <1>3, <2>1 DEF ReadLive, HealthStatus, IsTunnelLive
  <2>3. QED
    BY <1>3, <2>2, HubAssumption DEF HealthInv, MarkerRecent
<1>4. HealthInv /\ [HealthNext]_<<hubVars, healthVars>> =>
        [\A t \in Tunnels \ ViewerIdle :
           check.pc = "live" /\ Head(check.ids) = t /\ verdict' \in {"healthy", "degraded"}
              => since[t] < LiveTtl]_<<hubVars, healthVars>>
  BY <1>3
<1>5. QED
  BY <1>1, <1>2, <1>4, PTL DEF HealthSpec, HealthyIsServed

-----------------------------------------------------------------------------
(* The registry as the planes read it                                      *)

\* No two running leases name one slot, and whatever is leased or published
\* has one.
RegInv ==
    /\ R!RegTypeOK
    /\ lease \cup published \subseteq {t \in Tunnels : slot[t] \in Slots}
    /\ \A t, w \in lease : slot[t] = slot[w] => t = w

\* An empty registry has no leases to disagree about.
LEMMA RegInitially == R!RegInit => RegInv
BY DEF RegInv, R!RegInit, R!RegTypeOK

\* Every step of the registry keeps its leases apart.
LEMMA RegKeeps ==
    ASSUME RegInv, R!RegNext PROVE RegInv'
<1> USE HubAssumption DEF RegInv, R!RegTypeOK
<1>1. ASSUME NEW t \in Tunnels, NEW p \in Slots, R!Grant(t, p) PROVE RegInv'
  BY <1>1 DEF R!Grant
<1>2. ASSUME NEW t \in Tunnels, R!Publish(t) PROVE RegInv'
  BY <1>2 DEF R!Publish
<1>3. ASSUME NEW t \in Tunnels, R!IssueKey(t) PROVE RegInv'
  BY <1>3 DEF R!IssueKey
<1>4. ASSUME R!Lapse PROVE RegInv'
  <2>1. PICK dropped \in SUBSET (Tunnels \ (published \cup lease')) :
             slot' = [t \in Tunnels |-> IF t \in dropped THEN Nil ELSE slot[t]]
    BY <1>4 DEF R!Lapse
  <2>2. QED
    BY <1>4, <2>1 DEF R!Lapse
<1>5. QED
  BY <1>1, <1>2, <1>3, <1>4 DEF R!RegNext

\* A published tunnel keeps its slot.
LEMMA SlotStays ==
    ASSUME RegInv, R!RegNext
    PROVE  /\ published \subseteq published'
           /\ \A t \in published : slot'[t] = slot[t]
BY HubAssumption
DEF RegInv, R!RegTypeOK, R!RegNext, R!Grant, R!Publish, R!IssueKey, R!Lapse

-----------------------------------------------------------------------------
(* The planes together                                                     *)

ViewTypes ==
    /\ view \in [Viewers -> [pc : {"new", "head", "dial", "splice", "closed"},
                             tunnel : published \cup {Nil},
                             bind : Binds \cup {Nil},
                             grant : published \cup {Nil}]]
    /\ grants \subseteq published
    /\ \A v \in Viewers : view[v].pc = "splice" => view[v].bind \in Binds

\* What the hub found in the registry stays true of the registry: the tunnel of
\* a forward and of a bind is published and has that slot.
FoundStays ==
    /\ \A s \in Sessions :
          fwd[s] # NoFwd => /\ fwd[s].tunnel \in published
                            /\ slot[fwd[s].tunnel] = fwd[s].slot
    /\ \A b \in Binds :
          accept[b] # "none" => /\ owner[b].tunnel \in published
                                /\ slot[owner[b].tunnel] = owner[b].slot

PlaneInv == HubInv /\ RegInv /\ ViewTypes /\ FoundStays

\* Every step of the planes is one the hub alone could take, or does not touch
\* it.
LEMMA PlaneStepOfHub ==
    ASSUME PlaneInv, [PlaneNext]_planeVars
    PROVE  [HubNext]_hubVars
<1> USE DEF HubNext, HubEvent, HubStep
<1>1. CASE RegistryStep
  BY <1>1 DEF RegistryStep
<1>2. ASSUME NEW s \in Sessions, NEW t \in Tunnels, AuthenticateSession(s, t)
      PROVE  HubNext
  BY <1>2 DEF AuthenticateSession
<1>3. ASSUME NEW s \in Sessions, NEW p \in Slots, RequestForward(s, p)
      PROVE  HubNext
  BY <1>3 DEF RequestForward
<1>4. CASE HubOwnStep
  BY <1>4 DEF HubOwnStep
<1>5. CASE ProcessCrash
  BY <1>5 DEF ProcessCrash
<1>6. ASSUME NEW t \in Tunnels, MintGrant(t) \/ GrantExpires(t)
      PROVE  UNCHANGED hubVars
  BY <1>6 DEF MintGrant, GrantExpires
<1>7. ASSUME NEW v \in Viewers, RouterStep(v) PROVE [HubNext]_hubVars
  <2>1. ASSUME NEW t \in Tunnels, RouteBySni(v, t) \/ VerifyGrant(v, t)
        PROVE  UNCHANGED hubVars
    BY <2>1 DEF RouteBySni, VerifyGrant
  <2>2. ASSUME NEW b \in Binds, DialSlot(v, b) PROVE HubNext
    BY <2>2 DEF DialSlot
  <2>3. ASSUME RouteRefused(v) PROVE UNCHANGED hubVars
    BY <2>3 DEF RouteRefused
  <2>4. ASSUME SpliceEnds(v) PROVE HubNext
    <3>1. view[v].bind \in Binds
      BY <2>4 DEF SpliceEnds, ViewStep, PlaneInv, ViewTypes
    <3>2. QED
      BY <2>4, <3>1 DEF SpliceEnds
  <2>5. QED
    BY <1>7, <2>1, <2>2, <2>3, <2>4 DEF RouterStep
<1>8. CASE UNCHANGED planeVars
  BY <1>8 DEF planeVars
<1>9. QED
  BY <1>1, <1>2, <1>3, <1>4, <1>5, <1>6, <1>7, <1>8 DEF PlaneNext

\* Only a registry step touches the registry.
LEMMA PlaneStepOfRegistry ==
    ASSUME [PlaneNext]_planeVars
    PROVE  R!RegNext \/ UNCHANGED recordVars
BY DEF PlaneNext, RegistryStep, AuthenticateSession, RequestForward, HubOwnStep,
       ProcessCrash, MintGrant, GrantExpires, RouterStep, RouteBySni, VerifyGrant,
       DialSlot, RouteRefused, SpliceEnds, ViewStep, planeVars

\* What hub and router looked up before a step of the registry stays true after it.
LEMMA ViewsKeep ==
    ASSUME PlaneInv, [PlaneNext]_planeVars
    PROVE  ViewTypes'
<1>1. published \subseteq published'
  BY PlaneStepOfRegistry, SlotStays DEF PlaneInv, recordVars
<1>2. live \subseteq published
  BY DEF PlaneInv, RegInv, R!RegTypeOK
<1>3. CASE UNCHANGED <<grants, view>>
  BY <1>1, <1>3 DEF PlaneInv, ViewTypes
<1>4. CASE ProcessCrash
  BY <1>1, <1>4 DEF ProcessCrash, PlaneInv, ViewTypes, NoView
<1>5. ASSUME NEW t \in Tunnels, MintGrant(t) \/ GrantExpires(t) PROVE ViewTypes'
  BY <1>1, <1>2, <1>5 DEF MintGrant, GrantExpires, PlaneInv, ViewTypes
<1>6. ASSUME NEW v \in Viewers, RouterStep(v) PROVE ViewTypes'
  <2> USE DEF PlaneInv, ViewTypes, ViewStep
  <2>1. ASSUME NEW t \in Tunnels, RouteBySni(v, t) PROVE ViewTypes'
    BY <1>1, <1>2, <2>1 DEF RouteBySni
  <2>2. ASSUME NEW t \in Tunnels, VerifyGrant(v, t) PROVE ViewTypes'
    BY <1>1, <2>2 DEF VerifyGrant, GrantValid
  <2>3. ASSUME NEW b \in Binds, DialSlot(v, b) PROVE ViewTypes'
    BY <1>1, <2>3 DEF DialSlot
  <2>4. ASSUME RouteRefused(v) PROVE ViewTypes'
    BY <1>1, <2>4 DEF RouteRefused
  <2>5. ASSUME SpliceEnds(v) PROVE ViewTypes'
    BY <1>1, <2>5 DEF SpliceEnds
  <2>6. QED
    BY <1>6, <2>1, <2>2, <2>3, <2>4, <2>5 DEF RouterStep
<1>7. QED
  BY <1>3, <1>4, <1>5, <1>6
  DEF PlaneNext, RegistryStep, AuthenticateSession, RequestForward, HubOwnStep,
      planeVars, edgeVars

\* A forward is begun only with what the registry holds then; a bind takes over
\* what its forward found.
LEMMA FoundKeeps ==
    ASSUME PlaneInv, [PlaneNext]_planeVars
    PROVE  FoundStays'
<1>1. /\ published \subseteq published'
      /\ \A t \in published : slot'[t] = slot[t]
  BY PlaneStepOfRegistry, SlotStays DEF PlaneInv, recordVars
<1>2. CASE /\ \A s \in Sessions : fwd'[s] # NoFwd => fwd'[s] = fwd[s]
           /\ \A b \in Binds : accept'[b] # "none" =>
                  accept[b] # "none" /\ owner'[b] = owner[b]
  BY <1>1, <1>2 DEF PlaneInv, FoundStays
<1>3. ASSUME NEW s \in Sessions, NEW p \in Slots, RequestForward(s, p)
      PROVE  FoundStays'
  <2>1. PICK found \in Tunnels : found \in live /\ slot[found] = p /\ ForwardLookup(s, p, found)
    BY <1>3 DEF RequestForward, MatchesSlot
  <2>2. found \in published
    BY <2>1 DEF PlaneInv, RegInv, R!RegTypeOK
  <2>3. QED
    BY <1>1, <2>1, <2>2 DEF ForwardLookup, PlaneInv, FoundStays, HubInv, HubTypes,
                            bindVars, taskVars
<1>4. ASSUME NEW s \in Sessions, NEW b \in Binds, ForwardBind(s, b) PROVE FoundStays'
  BY <1>1, <1>4 DEF ForwardBind, PlaneInv, FoundStays, HubInv, HubTypes
<1>5. ASSUME NEW s \in Sessions,
             ForwardRefused(s) \/ Drop(s) \/ \E p \in Slots : CancelForward(s, p)
      PROVE  FoundStays'
  BY <1>2, <1>5
  DEF ForwardRefused, Drop, CancelForward, AbortAll, Aborted, bindVars, taskVars,
      PlaneInv, HubInv, HubTypes
<1>6. ASSUME NEW b \in Binds, TaskStep(b) PROVE FoundStays'
  BY <1>2, <1>6 DEF TaskStep, Reclaim, Reap, Aborted, PlaneInv, HubInv, HubTypes
<1>7. CASE Crash
  BY <1>2, <1>7 DEF Crash, Killed, PlaneInv, HubInv, HubTypes
<1>8. CASE UNCHANGED <<fwd, accept, owner>>
  BY <1>2, <1>8
<1>9. CASE HubOwnStep
  BY <1>4, <1>5, <1>6, <1>8, <1>9
  DEF HubOwnStep, Beat, StampClose, HubTick, bindVars, taskVars
<1>10. ASSUME NEW v \in Viewers, RouterStep(v) PROVE FoundStays'
  BY <1>8, <1>10
  DEF RouterStep, RouteBySni, VerifyGrant, DialSlot, RouteRefused, SpliceEnds,
      ViewerOpen, ViewerClose, hubVars, bindVars, taskVars
<1>11. QED
  BY <1>3, <1>7, <1>8, <1>9, <1>10
  DEF PlaneNext, RegistryStep, AuthenticateSession, Authenticate, ProcessCrash,
      MintGrant, GrantExpires, planeVars, hubVars, bindVars, taskVars

\* The inductive invariant of the planes.
THEOREM PlaneInvariance == PlaneSpec => []PlaneInv
<1>1. PlaneInit => PlaneInv
  <2>1. PlaneInit => HubInv /\ RegInv
    BY HubInitially, RegInitially DEF PlaneInit
  <2>2. PlaneInit => ViewTypes
    BY DEF PlaneInit, ViewTypes, NoView
  <2>3. PlaneInit => FoundStays
    BY DEF PlaneInit, HubInit, FoundStays
  <2>4. QED
    BY <2>1, <2>2, <2>3 DEF PlaneInv
<1>2. PlaneInv /\ [PlaneNext]_planeVars => PlaneInv'
  <2> SUFFICES ASSUME PlaneInv, [PlaneNext]_planeVars PROVE PlaneInv'
    OBVIOUS
  <2>1. HubInv'
    BY PlaneStepOfHub, HubKeeps DEF PlaneInv
  <2>2. RegInv'
    <3>1. CASE R!RegNext
      BY <3>1, RegKeeps DEF PlaneInv
    <3>2. CASE UNCHANGED recordVars
      BY <3>2 DEF PlaneInv, RegInv, R!RegTypeOK, recordVars
    <3>3. QED
      BY <3>1, <3>2, PlaneStepOfRegistry
  <2>3. QED
    BY <2>1, <2>2, ViewsKeep, FoundKeeps DEF PlaneInv
<1>3. QED
  BY <1>1, <1>2, PTL DEF PlaneSpec

\* The hub and the router in one process, over the registry, behave as the hub
\* alone: what is proved of HubSpec holds of the composition.
THEOREM PlaneImplementsHub == PlaneSpec => HubSpec
<1>1. PlaneInit => HubInit
  BY DEF PlaneInit
<1>2. PlaneInv /\ [PlaneNext]_planeVars => [HubNext]_hubVars
  BY PlaneStepOfHub
<1>3. QED
  BY <1>1, <1>2, PlaneInvariance, PTL DEF PlaneSpec, HubSpec

\* While leases run, the accept loop on a slot is of the tunnel the slot was
\* leased to, however late hub and router act on what they looked up.
THEOREM SlotsServedByOwners == PlaneSpec => []SlotServedByOwner
<1>1. PlaneInv => SlotServedByOwner
  BY DEF PlaneInv, RegInv, FoundStays, SlotServedByOwner
<1>2. QED
  BY <1>1, PlaneInvariance, PTL
=============================================================================
