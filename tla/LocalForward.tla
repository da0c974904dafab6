---------------------------- MODULE LocalForward ----------------------------
(***************************************************************************)
(* The client's end of a public connection: SshClientHandler of            *)
(* ssh_client.rs.  russh reads the transport in one event loop and calls   *)
(* the handler from it, so a callback that waits keeps every later message *)
(* of every channel waiting.  A forwarded-tcpip channel therefore gets a   *)
(* task of its own, which connects to the local service and copies.        *)
(***************************************************************************)
EXTENDS Naturals, Sequences

CONSTANTS
    Channels, \* public connections the hub forwards
    MaxData   \* bound: messages of data on a channel

ASSUME LocalForwardAssumption == MaxData \in Nat

VARIABLES
    wire,   \* messages from the hub, in transport order
    inside, \* channels whose callback the event loop has not returned from
    copier, \* the task of each channel
    queued, \* data russh holds for a channel until its stream is read
    eof,    \* which sides of a channel have ended: "hub", "local"
    sent,   \* data the hub sent
    passed, \* data that reached the local service
    lost    \* whether the transport broke

fwdVars == <<wire, inside, copier, queued, eof, sent, passed, lost>>

ForwardInit ==
    /\ wire = <<>> /\ inside = {}
    /\ copier = [c \in Channels |-> "none"]
    /\ queued = [c \in Channels |-> 0]
    /\ eof = [c \in Channels |-> {}]
    /\ sent = [c \in Channels |-> 0]
    /\ passed = [c \in Channels |-> 0]
    /\ lost = FALSE

Message(k, c) == [k |-> k, c |-> c]
Seen(k, c) == \E i \in 1 .. Len(wire) : wire[i] = Message(k, c)

\* The hub opens the channel, sends data and ends it (external).
HubOpens(c) ==
    /\ ~lost /\ copier[c] = "none" /\ ~Seen("open", c)
    /\ wire' = Append(wire, Message("open", c))
    /\ UNCHANGED <<inside, copier, queued, eof, sent, passed, lost>>
HubSends(c) ==
    /\ ~lost /\ (copier[c] # "none" \/ Seen("open", c)) /\ sent[c] < MaxData
    /\ ~Seen("eof", c) /\ "hub" \notin eof[c]
    /\ wire' = Append(wire, Message("data", c))
    /\ sent' = [sent EXCEPT ![c] = @ + 1]
    /\ UNCHANGED <<inside, copier, queued, eof, passed, lost>>
HubEnds(c) ==
    /\ ~lost /\ (copier[c] # "none" \/ Seen("open", c))
    /\ ~Seen("eof", c) /\ "hub" \notin eof[c]
    /\ wire' = Append(wire, Message("eof", c))
    /\ UNCHANGED <<inside, copier, queued, eof, sent, passed, lost>>

\* The transport breaks: what was on it is gone, and every channel's stream ends
\* after what russh had queued for it.
TransportLost ==
    /\ ~lost /\ lost' = TRUE
    /\ wire' = <<>>
    /\ eof' = [c \in Channels |-> eof[c] \cup {"hub"}]
    /\ UNCHANGED <<inside, copier, queued, sent, passed>>

\* server_channel_open_forwarded_tcpip -> handle_forwarded_tcpip_channel: the
\* copy is spawned and the callback returns.  The mutant awaits it in place.
CopyInPlace(c) == inside' = inside \cup {c}
SpawnCopy(c) == UNCHANGED inside

\* Data for a channel whose stream was dropped is dropped too.
Listening(c) == copier[c] \notin {"refused", "broken", "done"}

\* The event loop takes the next message: an open runs the handler, data and
\* the end of the stream go to the channel.
Dispatch ==
    /\ inside = {} /\ wire # <<>>
    /\ wire' = Tail(wire)
    /\ LET m == Head(wire)
       IN \/ /\ m.k = "open"
             /\ copier' = [copier EXCEPT ![m.c] = "connect"]
             /\ SpawnCopy(m.c)
             /\ UNCHANGED <<queued, eof>>
          \/ /\ m.k = "data"
             /\ queued' = [queued EXCEPT ![m.c] = IF Listening(m.c) THEN @ + 1 ELSE @]
             /\ UNCHANGED <<inside, copier, eof>>
          \/ /\ m.k = "eof"
             /\ eof' = [eof EXCEPT ![m.c] = @ \cup {"hub"}]
             /\ UNCHANGED <<inside, copier, queued>>
    /\ UNCHANGED <<sent, passed, lost>>

\* The task ends early: the channel is dropped with what is queued for it.
DropChannel(c, why) ==
    /\ copier' = [copier EXCEPT ![c] = why]
    /\ queued' = [queued EXCEPT ![c] = 0]
    /\ inside' = inside \ {c}

\* TcpStream::connect to the local service; a refusal ends the task.
ConnectLocal(c) ==
    /\ copier[c] = "connect"
    /\ \/ copier' = [copier EXCEPT ![c] = "copy"] /\ UNCHANGED <<queued, inside>>
       \/ DropChannel(c, "refused")
    /\ UNCHANGED <<wire, eof, sent, passed, lost>>

\* copy_bidirectional: hub to local service; the other direction only ends.
CopyToLocal(c) ==
    /\ copier[c] = "copy" /\ queued[c] > 0
    /\ queued' = [queued EXCEPT ![c] = @ - 1]
    /\ passed' = [passed EXCEPT ![c] = @ + 1]
    /\ UNCHANGED <<wire, inside, copier, eof, sent, lost>>
LocalEnds(c) ==
    /\ copier[c] = "copy" /\ "local" \notin eof[c]
    /\ eof' = [eof EXCEPT ![c] = @ \cup {"local"}]
    /\ UNCHANGED <<wire, inside, copier, queued, sent, passed, lost>>

\* The Ok arm: both directions have ended, and what was queued before the end is
\* read first.  The mutant stops at the end of stream.
BothEnded(c) == eof[c] = {"hub", "local"}
Drained(c) == BothEnded(c) /\ queued[c] = 0

CopyEnds(c) ==
    /\ copier[c] = "copy" /\ Drained(c)
    /\ copier' = [copier EXCEPT ![c] = "done"]
    /\ inside' = inside \ {c}
    /\ UNCHANGED <<wire, queued, eof, sent, passed, lost>>

\* The Err arm: a read or a write of either stream fails, the local service
\* having reset the connection or the transport being lost.
CopyFails(c) ==
    /\ copier[c] = "copy"
    /\ DropChannel(c, "broken")
    /\ UNCHANGED <<wire, eof, sent, passed, lost>>

ForwardStep == Dispatch \/ \E c \in Channels : ConnectLocal(c) \/ CopyToLocal(c) \/ CopyEnds(c)
PeerEnds == \E c \in Channels : HubEnds(c) \/ LocalEnds(c)
Breaks == TransportLost \/ \E c \in Channels : CopyFails(c)
ForwardNext ==
    \/ ForwardStep \/ PeerEnds \/ Breaks
    \/ \E c \in Channels : HubOpens(c) \/ HubSends(c)

\* The runtime runs the event loop and every task it was given.
TaskFairness ==
    /\ WF_fwdVars(Dispatch)
    /\ \A c \in Channels : /\ WF_fwdVars(ConnectLocal(c)) /\ WF_fwdVars(CopyToLocal(c))
                           /\ WF_fwdVars(CopyEnds(c))
\* Both peers end their streams.
PeerFairness == \A c \in Channels : WF_fwdVars(HubEnds(c)) /\ WF_fwdVars(LocalEnds(c))
ForwardFairness == TaskFairness /\ PeerFairness

ForwardSpec == ForwardInit /\ [][ForwardNext]_fwdVars /\ ForwardFairness
\* The peers may keep a stream open for ever.
TaskSpec == ForwardInit /\ [][ForwardNext]_fwdVars /\ TaskFairness

-----------------------------------------------------------------------------
\* handle_forwarded_tcpip_channel, "awaiting it inline blocks the session's
\* message pump": every forwarded connection comes to an end, whatever the
\* others do, unless the transport was lost before the client heard of it.
ChannelsEnd ==
    \A c \in Channels : Seen("open", c) ~>
        copier[c] \in {"done", "refused", "broken"} \/ (lost /\ copier[c] = "none")

\* A copy reported as completed (the Ok arm) has passed to the local service
\* everything the hub sent, what arrived while the local connection was still
\* being made included; only a lost transport takes data with it unnoticed.
DataPassed ==
    \A c \in Channels : copier[c] = "done" /\ ~lost => passed[c] = sent[c]

\* The comment in handle_forwarded_tcpip_channel: copy_bidirectional "completes
\* when either side closes".  It completes when both have: a connection the local
\* service has ended is kept until the hub's side ends too.
EndsWithEither ==
    \A c \in Channels : copier[c] = "copy" /\ "local" \in eof[c] ~> copier[c] # "copy"
=============================================================================
