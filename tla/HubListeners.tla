--------------------------- MODULE HubListeners ---------------------------
(***************************************************************************)
(* The hub's slot listeners (crates/edgehub/src/ssh_server.rs): an SSH     *)
(* session that authenticated for a tunnel asks for a reverse forward      *)
(* (tcpip_forward), which binds 127.0.0.1:slot and spawns up to three      *)
(* tasks: the accept loop that owns the listener, the heartbeat that       *)
(* publishes tunnel:live:{id}, and, for viewer_idle tunnels, the reaper    *)
(* that aborts the accept loop.  Their handles are kept in the session's   *)
(* forward_listeners table; cancel-tcpip-forward and the session's Drop    *)
(* abort what the table holds.                                             *)
(*                                                                         *)
(* A bind is one successful tcpip_forward.  The handlers of one session    *)
(* run one at a time; sessions, tasks and viewers interleave freely.  What *)
(* get_tunnel_by_slot answers is an argument of ForwardLookup, so that     *)
(* this module can be composed with the store that answers it.             *)
(***************************************************************************)
EXTENDS Integers, FiniteSets

CONSTANTS
    Sessions,      \* SSH connections
    Tunnels,       \* tunnel ids, also the session ids they authenticate with
    Slots,         \* ports a client may ask for
    Binds,         \* successful tcpip_forward requests
    ViewerIdle,    \* the tunnels whose teardown_policy is viewer_idle
    IdleLimit,     \* VIEWER_IDLE_TEARDOWN, in ticks
    LiveTtl,       \* TUNNEL_LIVE_TTL, in ticks
    MaxViewers,    \* bound on the connections of a listener at a time
    Nil            \* no tunnel, no bind, no request

ASSUME HubAssumption ==
    /\ Nil \notin Tunnels \cup Binds \cup Sessions \cup Slots
    /\ ViewerIdle \subseteq Tunnels
    /\ IdleLimit \in Nat \ {0} /\ LiveTtl \in Nat /\ MaxViewers \in Nat
    /\ IsFiniteSet(Binds) /\ IsFiniteSet(Slots)

VARIABLES
    conn,       \* state of each SSH connection
    auth,       \* client_certificate_serial: the tunnel it authenticated for
    fwd,        \* the tcpip_forward in progress: its slot, the tunnel found
    table,      \* forward_listeners: the bind under each slot, per session
    gauge,      \* edge_tunnels_open
    marker,       \* tunnel:live:{id} -> ticks left
    \* per bind
    owner,      \* session, slot and tunnel
    accept,     \* accept loop
    beat,       \* heartbeat task
    reaper,     \* viewer-idle reaper task
    active,     \* SlotActivity.active
    idle,       \* ticks since SlotActivity.last_event, up to IdleLimit
    closing,    \* connections counted out whose last_event is not written yet
    \* history, read by properties only
    quiet       \* ticks since a connection was last open, up to IdleLimit

taskVars == <<accept, beat, reaper>>
activityVars == <<active, idle, closing, quiet>>
bindVars == <<owner, taskVars, activityVars>>
hubVars == <<conn, auth, fwd, table, gauge, marker, bindVars>>

\* A task does not exist, runs, was aborted but still holds what it owns, or
\* is gone.
TaskState == {"none", "run", "abort", "dead"}

NoOwner == [sess |-> Nil, slot |-> Nil, tunnel |-> Nil]
NoFwd == [slot |-> Nil, tunnel |-> Nil]

HubTypeOK ==
    /\ conn \in [Sessions -> {"new", "up", "gone"}]
    /\ auth \in [Sessions -> Tunnels \cup {Nil}]
    /\ fwd \in [Sessions -> [slot : Slots \cup {Nil}, tunnel : Tunnels \cup {Nil}]]
    /\ table \in [Sessions -> [Slots -> Binds \cup {Nil}]]
    /\ gauge \in Nat
    /\ marker \in [Tunnels -> Nat]
    /\ owner \in [Binds -> [sess : Sessions \cup {Nil}, slot : Slots \cup {Nil},
                            tunnel : Tunnels \cup {Nil}]]
    /\ accept \in [Binds -> TaskState]
    /\ beat \in [Binds -> TaskState]
    /\ reaper \in [Binds -> TaskState]
    /\ active \in [Binds -> Nat]
    /\ idle \in [Binds -> Nat]
    /\ closing \in [Binds -> Nat]
    /\ quiet \in [Binds -> Nat]

HubInit ==
    /\ conn = [s \in Sessions |-> "new"]
    /\ auth = [s \in Sessions |-> Nil]
    /\ fwd = [s \in Sessions |-> NoFwd]
    /\ table = [s \in Sessions |-> [p \in Slots |-> Nil]]
    /\ gauge = 0
    /\ marker = [t \in Tunnels |-> 0]
    /\ owner = [b \in Binds |-> NoOwner]
    /\ accept = [b \in Binds |-> "none"]
    /\ beat = [b \in Binds |-> "none"]
    /\ reaper = [b \in Binds |-> "none"]
    /\ active = [b \in Binds |-> 0]
    /\ idle = [b \in Binds |-> 0]
    /\ closing = [b \in Binds |-> 0]
    /\ quiet = [b \in Binds |-> 0]

\* A session handles one request at a time.
Ready(s) == conn[s] = "up" /\ fwd[s] = NoFwd

\* The listener is closed when the aborted accept loop is dropped.
Bound(p) == \E b \in Binds : owner[b].slot = p /\ accept[b] \in {"run", "abort"}


-----------------------------------------------------------------------------
\* auth_publickey accepted the key stored under session:{t}.
Authenticate(s, t) ==
    /\ conn[s] = "new"
    /\ conn' = [conn EXCEPT ![s] = "up"]
    /\ auth' = [auth EXCEPT ![s] = t]
    /\ UNCHANGED <<fwd, table, gauge, marker, bindVars>>

\* The slot gate: the record found for the slot must be the session's own.
Gate(s, found) == found # Nil /\ auth[s] = found

\* tcpip_forward up to the bind.  found is the tunnel get_tunnel_by_slot
\* returned, Nil for none and for an error; both deny the forward.
ForwardLookup(s, p, found) ==
    /\ Ready(s)
    /\ Gate(s, found)
    /\ fwd' = [fwd EXCEPT ![s] = [slot |-> p, tunnel |-> found]]
    /\ UNCHANGED <<conn, auth, table, gauge, marker, bindVars>>

\* The slot cannot be bound.
ForwardRefused(s) ==
    /\ conn[s] = "up" /\ fwd[s] # NoFwd
    /\ Bound(fwd[s].slot)
    /\ fwd' = [fwd EXCEPT ![s] = NoFwd]
    /\ UNCHANGED <<conn, auth, table, gauge, marker, bindVars>>

\* What TcpListener::bind refuses.
BindFreeWithReuse(p) == TRUE
BindFree(p) == ~Bound(p)

\* The bind succeeds: count it, spawn the tasks, file their handles under the
\* slot.  HashMap::insert replaces what the table held there.
ForwardBind(s, b) ==
    LET p == fwd[s].slot IN
    /\ conn[s] = "up" /\ fwd[s] # NoFwd
    /\ BindFree(p)
    /\ accept[b] = "none"
    /\ owner' = [owner EXCEPT ![b] = [sess |-> s, slot |-> p, tunnel |-> fwd[s].tunnel]]
    /\ accept' = [accept EXCEPT ![b] = "run"]
    /\ beat' = [beat EXCEPT ![b] = "run"]
    /\ reaper' = [reaper EXCEPT ![b] =
                    IF fwd[s].tunnel \in ViewerIdle THEN "run" ELSE "none"]
    /\ gauge' = gauge + 1
    /\ table' = [table EXCEPT ![s] = [table[s] EXCEPT ![p] = b]]
    /\ fwd' = [fwd EXCEPT ![s] = NoFwd]
    /\ UNCHANGED <<conn, auth, marker, activityVars>>

Aborted(x) == IF x = "run" THEN "abort" ELSE x
Killed(x)  == IF x = "none" THEN "none" ELSE "dead"

\* JoinHandle::abort on every task of the binds in B.
AbortAcceptLoops(B) ==
    /\ accept' = [b \in Binds |-> IF b \in B THEN Aborted(accept[b]) ELSE accept[b]]
    /\ UNCHANGED <<beat, reaper>>
AbortAll(B) ==
    /\ accept' = [b \in Binds |-> IF b \in B THEN Aborted(accept[b]) ELSE accept[b]]
    /\ beat' = [b \in Binds |-> IF b \in B THEN Aborted(beat[b]) ELSE beat[b]]
    /\ reaper' = [b \in Binds |-> IF b \in B THEN Aborted(reaper[b]) ELSE reaper[b]]

\* cancel_tcpip_forward; an unknown slot changes nothing.
CancelForward(s, p) ==
    /\ Ready(s)
    /\ table[s][p] # Nil
    /\ AbortAll({table[s][p]})
    /\ table' = [table EXCEPT ![s] = [table[s] EXCEPT ![p] = Nil]]
    /\ gauge' = gauge - 1
    /\ UNCHANGED <<conn, auth, fwd, marker, owner, activityVars>>

Held(s) == {p \in Slots : table[s][p] # Nil}

\* The SSH connection ends, for whatever reason and at whatever point of a
\* tcpip_forward, and the session is dropped.
DropKeepingTasks(s) ==
    /\ conn[s] # "gone"
    /\ conn' = [conn EXCEPT ![s] = "gone"]
    /\ fwd' = [fwd EXCEPT ![s] = NoFwd]
    /\ table' = [table EXCEPT ![s] = [p \in Slots |-> Nil]]
    /\ gauge' = gauge - Cardinality(Held(s))
    /\ UNCHANGED <<auth, marker, bindVars>>
Drop(s) ==
    /\ conn[s] # "gone"
    /\ conn' = [conn EXCEPT ![s] = "gone"]
    /\ fwd' = [fwd EXCEPT ![s] = NoFwd]
    /\ AbortAll({table[s][p] : p \in Held(s)})
    /\ table' = [table EXCEPT ![s] = [p \in Slots |-> Nil]]
    /\ gauge' = gauge - Cardinality(Held(s))
    /\ UNCHANGED <<auth, marker, owner, activityVars>>

\* The hub process dies: every connection, task and metric with it.
Crash ==
    /\ \E s \in Sessions : conn[s] = "up"
    /\ conn' = [s \in Sessions |-> IF conn[s] = "up" THEN "gone" ELSE conn[s]]
    /\ fwd' = [s \in Sessions |-> NoFwd]
    /\ table' = [s \in Sessions |-> [p \in Slots |-> Nil]]
    /\ gauge' = 0
    /\ accept' = [b \in Binds |-> Killed(accept[b])]
    /\ beat' = [b \in Binds |-> Killed(beat[b])]
    /\ reaper' = [b \in Binds |-> Killed(reaper[b])]
    /\ active' = [b \in Binds |-> 0]
    /\ closing' = [b \in Binds |-> 0]
    /\ UNCHANGED <<auth, marker, owner, idle, quiet>>

\* The runtime drops the aborted tasks of a bind, closing the listener.
Reclaim(b) ==
    /\ "abort" \in {accept[b], beat[b], reaper[b]}
    /\ accept' = [accept EXCEPT ![b] = IF @ = "abort" THEN "dead" ELSE @]
    /\ beat' = [beat EXCEPT ![b] = IF @ = "abort" THEN "dead" ELSE @]
    /\ reaper' = [reaper EXCEPT ![b] = IF @ = "abort" THEN "dead" ELSE @]
    /\ UNCHANGED <<conn, auth, fwd, table, gauge, marker, owner, activityVars>>

\* A viewer connection is accepted, possibly by an aborted loop that is still
\* being polled.  connection_opened counts it before it writes last_event, so
\* no reader sees the old instant with no connection open: one step.
ViewerOpen(b) ==
    /\ accept[b] \in {"run", "abort"}
    /\ active[b] + closing[b] < MaxViewers
    /\ active' = [active EXCEPT ![b] = @ + 1]
    /\ idle' = [idle EXCEPT ![b] = 0]
    /\ quiet' = [quiet EXCEPT ![b] = 0]
    /\ UNCHANGED <<conn, auth, fwd, table, gauge, marker, owner, taskVars, closing>>

\* It ends, closed by the viewer, the client or the session: connection_closed
\* counts it out ...
ViewerClose(b) ==
    /\ active[b] > 0
    /\ active' = [active EXCEPT ![b] = @ - 1]
    /\ closing' = [closing EXCEPT ![b] = @ + 1]
    /\ quiet' = [quiet EXCEPT ![b] = 0]
    /\ UNCHANGED <<conn, auth, fwd, table, gauge, marker, owner, taskVars, idle>>

\* ... and writes last_event.
StampClose(b) ==
    /\ closing[b] > 0
    /\ closing' = [closing EXCEPT ![b] = @ - 1]
    /\ idle' = [idle EXCEPT ![b] = 0]
    /\ UNCHANGED <<conn, auth, fwd, table, gauge, marker, owner, taskVars, active, quiet>>

\* One round of the heartbeat.
Beat(b) ==
    /\ beat[b] = "run"
    /\ marker' = [marker EXCEPT ![owner[b].tunnel] = LiveTtl]
    /\ UNCHANGED <<conn, auth, fwd, table, gauge, bindVars>>

\* should_teardown_idle
ShouldTeardownIdle(b) == active[b] = 0 /\ idle[b] >= IdleLimit

\* The reaper aborts the accept loop, and only that, and ends.
Reap(b) ==
    /\ reaper[b] = "run"
    /\ ShouldTeardownIdle(b)
    /\ accept' = [accept EXCEPT ![b] = Aborted(@)]
    /\ reaper' = [reaper EXCEPT ![b] = "dead"]
    /\ UNCHANGED <<conn, auth, fwd, table, gauge, marker, owner, beat, activityVars>>

Clock(b, n) == IF reaper[b] = "run" /\ n < IdleLimit THEN n + 1 ELSE n

\* Time passes for the markers in Redis and for the idle clocks of the binds
\* that have a reaper to read them.
HubTick ==
    /\ marker' = [t \in Tunnels |-> IF marker[t] > 0 THEN marker[t] - 1 ELSE 0]
    /\ idle' = [b \in Binds |-> Clock(b, idle[b])]
    /\ quiet' = [b \in Binds |-> IF active[b] = 0 THEN Clock(b, quiet[b]) ELSE 0]
    /\ UNCHANGED <<conn, auth, fwd, table, gauge, owner, taskVars, active, closing>>

TaskStep(b) == Reclaim(b) \/ Reap(b)

HubStep ==
    \/ \E s \in Sessions : \/ ForwardRefused(s)
                           \/ \E b \in Binds : ForwardBind(s, b)
                           \/ \E p \in Slots : CancelForward(s, p)
                           \/ Drop(s)
    \/ \E b \in Binds : \/ TaskStep(b) \/ Beat(b)
                        \/ ViewerOpen(b) \/ ViewerClose(b) \/ StampClose(b)

\* On its own the hub meets every answer the store could give.
HubEvent ==
    \/ \E s \in Sessions, t \in Tunnels : Authenticate(s, t)
    \/ \E s \in Sessions, p \in Slots, found \in Tunnels \cup {Nil} :
            ForwardLookup(s, p, found)
    \/ HubStep
    \/ Crash

HubNext == HubEvent \/ HubTick

HubSpec == HubInit /\ [][HubNext]_hubVars

\* Spawned tasks are polled, aborted tasks are dropped, connections of a
\* session that is gone close, and time passes.
HubFairness ==
    /\ \A b \in Binds : /\ WF_hubVars(TaskStep(b))
                       /\ WF_hubVars(Beat(b))
                       /\ WF_hubVars(StampClose(b))
    /\ \A b \in Binds : WF_hubVars(ViewerClose(b) /\ conn[owner[b].sess] = "gone")
    /\ WF_hubVars(HubTick)

HubFairSpec == HubSpec /\ HubFairness

-----------------------------------------------------------------------------
(* What the hub promises                                                   *)

\* The teardown of cancel and Drop works through the table, so it has to hold
\* every accept loop that was not aborted, even across re-binds of a slot.
ListenersInTable ==
    \A b \in Binds :
        accept[b] = "run" =>
            /\ owner[b].sess \in Sessions
            /\ conn[owner[b].sess] = "up"
            /\ owner[b].slot \in Slots
            /\ table[owner[b].sess][owner[b].slot] = b

\* The slot gate: a listener belongs to the session that authenticated for the
\* tunnel it serves and publishes.
ListenerOfItsTunnel ==
    \A b \in Binds :
        accept[b] # "none" =>
            owner[b].tunnel \in Tunnels /\ auth[owner[b].sess] = owner[b].tunnel

\* e2e_slot_teardown.rs: "slot listeners MUST be torn down - no zombies": once
\* a session is gone its listeners close.
NoZombies ==
    \A b \in Binds :
        (owner[b].sess # Nil /\ conn[owner[b].sess] = "gone")
            ~> accept[b] \notin {"run", "abort"}

\* A viewer_idle listener nobody views does not stay bound.
IdleReaped ==
    \A b \in Binds :
        ~<>[](reaper[b] # "none" /\ accept[b] = "run" /\ active[b] = 0)

\* ssh_server.rs on should_teardown_idle: a listener is reaped "only with zero
\* open connections and a quiet period past the threshold".
ReapAfterQuiet ==
    [][\A b \in Binds :
          reaper[b] = "run" /\ reaper'[b] = "dead" /\ accept[b] = "run"
              /\ accept'[b] = "abort"
          => active[b] = 0 /\ quiet[b] >= IdleLimit]_hubVars

\* ssh_server.rs: "one live slot listener == one open tunnel".  The gauge never
\* falls below the live listeners, and counts them exactly as long as no
\* viewer_idle tunnel was bound: the reaper does not decrement it.
GaugeCountsListeners ==
    LET live == Cardinality({b \in Binds : accept[b] = "run"})
    IN /\ gauge >= live
       /\ (\A b \in Binds : reaper[b] = "none") => gauge = live

\* ssh_server.rs on the heartbeat: "it exists exactly as long as the listener
\* does".  It holds of the binds without a reaper, which aborts the accept loop
\* only.
HeartbeatWithListener ==
    \A b \in Binds : reaper[b] = "none" => (beat[b] = "run" <=> accept[b] = "run")

\* ssh_server.rs: "Aborted with the other tasks on teardown, after which the
\* key expires": once the last session is gone the markers end for good.  It
\* holds of the ttl_only tunnels; a second forward of a reaped slot replaces the
\* handles of the first, whose heartbeat then refreshes its marker for ever.
MarkersEnd ==
    (\A s \in Sessions : conn[s] = "gone")
        ~> [](\A t \in Tunnels \ ViewerIdle : marker[t] = 0)
=============================================================================
