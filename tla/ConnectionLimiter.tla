-------------------------- MODULE ConnectionLimiter --------------------------
(***************************************************************************)
(* DdosProtection, the per-address connection limits of                    *)
(* crates/common/src/ddos_protection.rs.                                    *)
(*                                                                         *)
(* check_connection_limit looks at the block under one lock (is_blocked)   *)
(* and decides under another; between the two, other tasks may open, close *)
(* and clean up.  A task keeps its connection until connection_closed.     *)
(***************************************************************************)
EXTENDS Integers, FiniteSets, Functions

CONSTANTS Tasks, Peers,
          MaxConns,     \* max_connections_per_ip
          ConnRate,     \* connection_rate_per_minute
          RateWindow,   \* rate_window, in ticks
          BlockTime     \* block_duration, in ticks

ASSUME ConnAssumption ==
    /\ MaxConns \in Nat /\ ConnRate \in Nat /\ RateWindow \in Nat \ {0} /\ BlockTime \in Nat
    /\ IsFiniteSet(Tasks)

VARIABLES ip_info,      \* address -> active_connections, recent_connections, left of the block
          task,         \* where each connection's task stands with each address
          banned        \* history: ticks left of the block the address was last given

connVars == <<ip_info, task, banned>>

Ages == 0..(2 * RateWindow - 1)
NoInfo == [known |-> FALSE, active |-> 0, recent |-> [a \in Ages |-> 0], left |-> 0]

Count(r, S) == FoldFunctionOnSet(LAMBDA a, b : a + b, 0, r, S)

ConnInit ==
    /\ ip_info = [p \in Peers |-> NoInfo]
    /\ task = [w \in Tasks |-> [p \in Peers |-> "idle"]]
    /\ banned = [p \in Peers |-> 0]

TaskAt(w, p, s) == task[w][p] = s
TaskIdle(w) == \A p \in Peers : TaskAt(w, p, "idle")
Move(w, p, s) == task' = [task EXCEPT ![w][p] = s]

\* is_blocked, the first half of check_connection_limit: a blocked address is
\* refused, any other task goes on to the entry.
IsBlocked(w, p) ==
    /\ TaskIdle(w)
    /\ IF ip_info[p].left > 0 THEN UNCHANGED task ELSE Move(w, p, "checked")
    /\ UNCHANGED <<ip_info, banned>>

\* recent_connections.retain: timestamps inside the rate window.
Retained(r) == [a \in Ages |-> IF a < RateWindow THEN r[a] ELSE 0]

\* The second half: under the entry's lock, block or admit.
Overloaded(e) == Count(e.recent, Ages) >= ConnRate \/ e.active >= MaxConns
CheckConnectionLimit(w, p) ==
    /\ TaskAt(w, p, "checked")
    /\ LET e == [ip_info[p] EXCEPT !.known = TRUE, !.recent = Retained(@)] IN
       IF Overloaded(e)
       THEN /\ ip_info' = [ip_info EXCEPT ![p] = [e EXCEPT !.left = BlockTime]]
            /\ banned' = [banned EXCEPT ![p] = BlockTime]
            /\ Move(w, p, "idle")
       ELSE /\ ip_info' = [ip_info EXCEPT ![p] = [e EXCEPT !.active = @ + 1, !.recent[0] = @ + 1]]
            /\ Move(w, p, "open")
            /\ UNCHANGED banned

\* connection_closed; a missing entry is left missing, the count saturates at 0.
ConnectionClosed(w, p) ==
    /\ TaskAt(w, p, "open")
    /\ ip_info' = [ip_info EXCEPT ![p].active = IF @ > 0 THEN @ - 1 ELSE 0]
    /\ Move(w, p, "idle")
    /\ UNCHANGED banned

\* cleanup_old_entries: an entry stays while it has connections, was used in the
\* last two rate windows, or is blocked.
KeptByCount(e) == e.active > 0 \/ Count(e.recent, Ages) > 0
Kept(e) == e.active > 0 \/ Count(e.recent, Ages) > 0 \/ e.left > 0
CleanupConnections ==
    /\ ip_info' = [p \in Peers |-> IF Kept(ip_info[p]) THEN ip_info[p] ELSE NoInfo]
    /\ UNCHANGED <<task, banned>>

ConnTick ==
    /\ ip_info' = [p \in Peers |-> [ip_info[p] EXCEPT
                      !.left = IF @ > 0 THEN @ - 1 ELSE 0,
                      !.recent = [a \in Ages |-> IF a = 0 THEN 0 ELSE ip_info[p].recent[a-1]]]]
    /\ banned' = [p \in Peers |-> IF banned[p] > 0 THEN banned[p] - 1 ELSE 0]
    /\ UNCHANGED task

ConnNext ==
    \/ \E w \in Tasks, p \in Peers :
          IsBlocked(w, p) \/ CheckConnectionLimit(w, p) \/ ConnectionClosed(w, p)
    \/ CleanupConnections
    \/ ConnTick

ConnSpec == ConnInit /\ [][ConnNext]_connVars

-----------------------------------------------------------------------------
Open(p) == {w \in Tasks : TaskAt(w, p, "open")}

\* The count of an address is the number of its open connections, never more
\* than the limit, whatever tasks open, close and clean up around each other:
\* clean-up never drops an address that is in use, so no close is lost.
ConnectionsCounted ==
    \A p \in Peers : ip_info[p].active = Cardinality(Open(p)) /\ ip_info[p].active <= MaxConns

\* A block holds while it lasts, clean-ups included, for every task that came
\* after it: only a task that had passed is_blocked before the block began can
\* still be let in.  (Without that exception it is false: the two looks at the
\* entry are under two locks, and a close between them makes room.)
BlockedStayOut ==
    [][\A p \in Peers : \A w \in Tasks :
          (banned[p] > 0 /\ TaskAt(w, p, "idle")) => task'[w][p] = "idle"]_connVars
=============================================================================
