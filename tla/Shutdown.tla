------------------------------ MODULE Shutdown ------------------------------
(***************************************************************************)
(* The graceful shutdown framework (crates/common/src/shutdown.rs) as a    *)
(* daemon uses it (cmd/edgehub-bin/src/main.rs, run): main starts the      *)
(* framework, sets its servers up, subscribes one receiver per server,     *)
(* runs the servers until each has received a signal, then waits for the   *)
(* connections to drain and returns, which ends whatever is still open.    *)
(*                                                                         *)
(* A signal comes from an OS signal, from the control socket or from       *)
(* GracefulShutdown::shutdown; only the last one also moves the state that *)
(* wait_for_shutdown takes its timeout from.  Each OS signal has a task    *)
(* that waits for it once.  A broadcast reaches the receivers that exist   *)
(* when it is sent.                                                        *)
(***************************************************************************)
EXTENDS Integers, FiniteSets

CONSTANTS
    Servers,           \* accept loops with a receiver of their own
    Conns,             \* connections a run of the daemon may serve
    Sources,           \* where signals come from: "os", "socket", "api"
    OsSignals,         \* of "SIGTERM", "SIGINT", "SIGUSR1", "SIGUSR2"
    Kinds,             \* of "Graceful", "Immediate", "Force"
    Tracking,          \* whether handlers call connection_started/finished
    GracefulTimeout, ImmediateTimeout, ForceTimeout,   \* in ticks
    Nil

ASSUME ShutdownAssumption ==
    /\ IsFiniteSet(Servers) /\ IsFiniteSet(Conns)
    /\ Nil \notin {"Graceful", "Immediate", "Force"} \cup Servers
    /\ Sources \subseteq {"os", "socket", "api"}
    /\ OsSignals \subseteq {"SIGTERM", "SIGINT", "SIGUSR1", "SIGUSR2"}
    /\ Kinds \subseteq {"Graceful", "Immediate", "Force"}
    /\ Tracking \in BOOLEAN
    /\ GracefulTimeout \in Nat /\ ImmediateTimeout \in Nat /\ ForceTimeout \in Nat

VARIABLES
    main,       \* where run() is
    handler,    \* the task of each OS signal
    receivers,  \* servers whose receiver exists
    pending,    \* receivers that hold a signal
    stopped,    \* servers whose loop has ended
    state,      \* ShutdownState
    open,       \* connections being served
    counted,    \* active_connections
    waitLeft,   \* what is left of wait_for_shutdown's timeout
    ctl,        \* a run of fleetingdns-ctl: where it is, its command, its answer
    \* history, read by properties only
    asked,      \* the first signal that was accepted
    since,      \* ticks since then, up to GracefulTimeout
    granted     \* the state in which wait_for_shutdown began

svars == <<main, handler, receivers, pending, stopped, state, open, counted,
           waitLeft, ctl, asked, since, granted>>

States == {"Running", "Draining", "Stopping", "Stopped"}

\* ControlCommand: Shutdown with its signal, Status, Ping and Reload.
Commands == Kinds \cup {"Status", "Ping", "Reload"}

ShutdownTypeOK ==
    /\ main \in {"new", "setup", "serving", "waiting", "exited"}
    /\ handler \in [OsSignals -> {"none", "armed", "fired"}]
    /\ receivers \in SUBSET Servers
    /\ pending \in SUBSET receivers
    /\ stopped \in SUBSET receivers
    /\ state \in States
    /\ open \in SUBSET Conns
    /\ counted \in Nat
    /\ waitLeft \in Nat
    /\ asked \in Kinds \cup {Nil}
    /\ since \in Nat
    /\ granted \in States \cup {Nil}
    /\ ctl \in [at : {"idle", "sent", "answered", "ok", "failed"},
               cmd : Commands, said : States \cup {Nil}]

ShutdownInit ==
    /\ main = "new"
    /\ handler = [k \in OsSignals |-> "none"]
    /\ receivers = {}
    /\ pending = {}
    /\ stopped = {}
    /\ state = "Running"
    /\ open = {}
    /\ counted = 0
    /\ waitLeft = 0
    /\ asked = Nil
    /\ since = 0
    /\ granted = Nil
    /\ ctl = [at |-> "idle", cmd |-> "Ping", said |-> Nil]

KindOf(k) == CASE k = "SIGUSR1" -> "Immediate"
               [] k = "SIGUSR2" -> "Force"
               [] OTHER -> "Graceful"

-----------------------------------------------------------------------------
(* main                                                                    *)

\* GracefulShutdown::start: from here on the process no longer dies of the
\* signals' default actions.
StartFramework ==
    /\ main = "new"
    /\ main' = "setup"
    /\ handler' = [k \in OsSignals |-> "armed"]
    /\ UNCHANGED <<receivers, pending, stopped, state, open, counted, waitLeft,
                   ctl, asked, since, granted>>

\* TLS, Redis and the SSH server are set up first; then subscribe(), once per
\* server.
Subscribe(s) ==
    /\ main = "setup"
    /\ s \notin receivers
    /\ receivers' = receivers \cup {s}
    /\ main' = IF receivers' = Servers THEN "serving" ELSE "setup"
    /\ UNCHANGED <<handler, pending, stopped, state, open, counted, waitLeft,
                   ctl, asked, since, granted>>

\* A loop's select sees the signal and breaks; open connections go on.
ServerStops(s) ==
    /\ main = "serving"
    /\ s \in pending
    /\ pending' = pending \ {s}
    /\ stopped' = stopped \cup {s}
    /\ UNCHANGED <<main, handler, receivers, state, open, counted, waitLeft,
                   ctl, asked, since, granted>>

\* What wait_for_shutdown will wait, from the state it finds.
WaitTimeout ==
    CASE state = "Draining" -> GracefulTimeout
      [] state = "Stopping" -> ImmediateTimeout
      [] OTHER -> ForceTimeout

\* join! returns when every server has.
BeginWait ==
    /\ main = "serving"
    /\ stopped = Servers
    /\ main' = "waiting"
    /\ waitLeft' = WaitTimeout
    /\ granted' = state
    /\ UNCHANGED <<handler, receivers, pending, stopped, state, open, counted,
                   ctl, asked, since>>

\* Every counted connection is finished, or the timeout is over.
DrainedWithoutTimeout == counted = 0
Drained == counted = 0 \/ waitLeft = 0
\* main returns and the runtime drops what is still open.
EndWait ==
    /\ main = "waiting"
    /\ Drained
    /\ main' = "exited"
    /\ state' = "Stopped"
    /\ UNCHANGED <<handler, receivers, pending, stopped, open, counted, waitLeft,
                   ctl, asked, since, granted>>

-----------------------------------------------------------------------------
(* Signals                                                                 *)

\* broadcast::Sender::send; with no receiver it fails, which nobody notices.
Broadcast(kind) ==
    /\ pending' = pending \cup (receivers \ stopped)
    /\ asked' = IF asked = Nil THEN kind ELSE asked
    /\ UNCHANGED <<receivers, stopped, open, counted, waitLeft, since, granted>>

\* The task of an OS signal: one recv, one send, and it is over.  tokio keeps
\* swallowing the signal.
OsSignal(k) ==
    /\ "os" \in Sources
    /\ main # "exited"
    /\ handler[k] = "armed"
    /\ handler' = [handler EXCEPT ![k] = "fired"]
    /\ Broadcast(KindOf(k))
    /\ UNCHANGED <<main, state, ctl>>

\* The control socket exists from the start of the framework to the end of the
\* process; fleetingdns-ctl connects, sends one command and waits.
Listening == main \notin {"new", "exited"}

ExecuteCommand(c) ==
    /\ "socket" \in Sources
    /\ ctl.at \notin {"sent", "answered"}
    /\ ctl' = [at |-> IF Listening THEN "sent" ELSE "failed", cmd |-> c, said |-> Nil]
    /\ UNCHANGED <<main, handler, receivers, pending, stopped, state, open, counted,
                   waitLeft, asked, since, granted>>

\* handle_control_connection: only a Shutdown does anything; every command is
\* answered with the state the framework is in, which none of them moves.
HandleControlConnection ==
    /\ Listening
    /\ ctl.at = "sent"
    /\ IF ctl.cmd \in Kinds THEN Broadcast(ctl.cmd)
       ELSE UNCHANGED <<receivers, pending, stopped, open, counted, waitLeft,
                        asked, since, granted>>
    /\ ctl' = [ctl EXCEPT !.at = "answered", !.said = state]
    /\ UNCHANGED <<main, handler, state>>

\* The answer is printed; an end of file in its place is a failure to parse it.
CtlReads ==
    /\ \/ ctl.at = "answered" /\ ctl' = [ctl EXCEPT !.at = "ok"]
       \/ ctl.at = "sent" /\ main = "exited" /\ ctl' = [ctl EXCEPT !.at = "failed"]
    /\ UNCHANGED <<main, handler, receivers, pending, stopped, state, open, counted,
                   waitLeft, asked, since, granted>>

\* GracefulShutdown::shutdown
ApiShutdown(kind) ==
    /\ "api" \in Sources
    /\ main \notin {"new", "exited"}
    /\ state' = IF kind = "Force" THEN "Stopping" ELSE "Draining"
    /\ Broadcast(kind)
    /\ UNCHANGED <<main, handler, ctl>>

-----------------------------------------------------------------------------
(* Connections and time                                                    *)

Count(n) == IF Tracking THEN counted + n ELSE counted

ConnOpens(c) ==
    /\ main = "serving"
    /\ stopped # Servers
    /\ c \notin open
    /\ open' = open \cup {c}
    /\ counted' = Count(1)
    /\ UNCHANGED <<main, handler, receivers, pending, stopped, state, waitLeft,
                   ctl, asked, since, granted>>

ConnCloses(c) ==
    /\ main # "exited"
    /\ c \in open
    /\ open' = open \ {c}
    /\ counted' = Count(-1)
    /\ UNCHANGED <<main, handler, receivers, pending, stopped, state, waitLeft,
                   ctl, asked, since, granted>>

Tick ==
    /\ main # "exited"
    /\ waitLeft' = IF main = "waiting" /\ waitLeft > 0 THEN waitLeft - 1 ELSE waitLeft
    /\ since' = IF asked # Nil /\ since < GracefulTimeout THEN since + 1 ELSE since
    /\ UNCHANGED <<main, handler, receivers, pending, stopped, state, open,
                   counted, ctl, asked, granted>>

Exited == main = "exited" /\ UNCHANGED svars

MainStep ==
    \/ StartFramework \/ BeginWait \/ EndWait
    \/ \E s \in Servers : Subscribe(s) \/ ServerStops(s)

ShutdownNext ==
    \/ MainStep
    \/ \E k \in OsSignals : OsSignal(k)
    \/ \E c \in Commands : ExecuteCommand(c)
    \/ HandleControlConnection \/ CtlReads
    \/ \E kind \in Kinds : ApiShutdown(kind)
    \/ \E c \in Conns : ConnOpens(c) \/ ConnCloses(c)
    \/ Tick
    \/ Exited

ShutdownSpec == ShutdownInit /\ [][ShutdownNext]_svars

\* main and the servers are polled, and time passes.  Clients may keep their
\* connections open for ever.
ShutdownFairSpec == ShutdownSpec /\ WF_svars(MainStep) /\ WF_svars(Tick)

-----------------------------------------------------------------------------
(* What the framework promises                                             *)

\* Once a signal is in the receiver of every server that still runs, the
\* process ends, whether or not its connections do.
DeliveredStops ==
    (main = "serving" /\ pending \cup stopped = Servers) ~> main = "exited"

\* ShutdownSignal: "Graceful shutdown - allow in-flight requests to complete
\* (30s timeout)": the process does not exit over an open connection before
\* the graceful timeout is over.
GracefulDrains ==
    [][main = "waiting" /\ main' = "exited" /\ asked = "Graceful"
          => open = {} \/ since >= GracefulTimeout]_svars

\* What holds of it: a shutdown requested through GracefulShutdown::shutdown
\* before the wait began gets the whole graceful timeout, whatever signals
\* follow.
DrainingHonoured ==
    [][main = "waiting" /\ main' = "exited" /\ granted = "Draining" /\ Tracking
          => open = {} \/ since >= GracefulTimeout]_svars

\* "SIGTERM - Graceful shutdown": a signal that was received ends the process.
SignalStops == asked # Nil ~> main = "exited"
=============================================================================
