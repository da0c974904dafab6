--------------------------- MODULE CircuitBreaker ---------------------------
(***************************************************************************)
(* CircuitBreaker of crates/backendapi/src/middleware/error_handler.rs:    *)
(* an atomic failure count and, under a lock of its own, the time of the   *)
(* last failure.  Every operation touches the two one after the other, so  *)
(* callers on several threads interleave between them.                     *)
(***************************************************************************)
EXTENDS Integers, FiniteSets

CONSTANTS Callers,
          FailureThreshold, Timeout,   \* failure_threshold, timeout_duration in ticks
          MaxFailures                  \* bound of the instance on the count

ASSUME BreakerAssumption ==
    /\ FailureThreshold \in Nat \ {0} /\ Timeout \in Nat \ {0}
    /\ IsFiniteSet(Callers)

VARIABLES failures,     \* failure_count
          since,        \* ticks since last_failure_time, Never if it is None
          caller,       \* between which two steps of which operation each caller is
          solid         \* history: failures recorded since, with no success overlapping any

breakerVars == <<failures, since, caller, solid>>

Never == Timeout + 1

BreakerInit ==
    /\ failures = 0 /\ since = Never /\ solid = 0
    /\ caller = [c \in Callers |-> "idle"]

\* is_open: the count first, then the time - None counts as closed.
ReachedBeyond == failures > FailureThreshold
Reached == failures >= FailureThreshold
IsOpen == Reached /\ since < Timeout

SuccessUnderway == \E c \in Callers : caller[c] = "clear"

RecordFailure(c) ==
    /\ caller[c] = "idle" /\ failures < MaxFailures
    /\ failures' = failures + 1
    /\ caller' = [caller EXCEPT ![c] = IF SuccessUnderway THEN "stampLate" ELSE "stamp"]
    /\ UNCHANGED <<since, solid>>

StampFailure(c) ==
    /\ caller[c] \in {"stamp", "stampLate"}
    /\ since' = 0
    /\ solid' = IF caller[c] = "stamp" /\ ~SuccessUnderway THEN solid + 1 ELSE solid
    /\ caller' = [caller EXCEPT ![c] = "idle"]
    /\ UNCHANGED failures

\* A success overlaps every failure whose time is still to be stored.
RecordSuccess(c) ==
    /\ caller[c] = "idle"
    /\ failures' = 0
    /\ caller' = [d \in Callers |-> IF d = c THEN "clear"
                                    ELSE IF caller[d] = "stamp" THEN "stampLate" ELSE caller[d]]
    /\ solid' = 0
    /\ UNCHANGED since

ClearTime(c) ==
    /\ caller[c] = "clear"
    /\ since' = Never
    /\ caller' = [caller EXCEPT ![c] = "idle"]
    /\ solid' = 0
    /\ UNCHANGED failures

BreakerTick ==
    /\ since' = IF since < Timeout THEN since + 1 ELSE since
    /\ UNCHANGED <<failures, caller, solid>>

BreakerNext ==
    \/ \E c \in Callers : RecordFailure(c) \/ StampFailure(c) \/ RecordSuccess(c) \/ ClearTime(c)
    \/ BreakerTick

BreakerSpec == BreakerInit /\ [][BreakerNext]_breakerVars

\* The breaker trips: once the threshold of failures has been recorded with no
\* success overlapping any of them, it is open until the timeout after the last.
\* (With an overlapping success it is false: the success may wipe the count or
\* the time of a failure and leave the other.)
BreakerTrips == (solid >= FailureThreshold /\ since < Timeout) => IsOpen
=============================================================================
