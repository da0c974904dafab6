---------------------------- MODULE QuotaTracker -----------------------------
(***************************************************************************)
(* Usage quotas of crates/backendapi/src/quota_enforcement.rs, for one     *)
(* user: UsageTracker's cached UserUsage, the check-then-record of         *)
(* QuotaEnforcementMiddleware, the two handlers that enforce a quota       *)
(* (create_tunnel and check_operation_allowed), the one that reports it    *)
(* and the one that resets it.                                             *)
(*                                                                         *)
(* The RwLock around the cache is taken and released once per read and     *)
(* once per write, so requests interleave between the two; the counters    *)
(* live in memory only (the database calls are TODOs in the code).         *)
(***************************************************************************)
EXTENDS Integers, FiniteSets, TLC

CONSTANTS
    QuotaRequests,  \* HTTP requests of the user
    Types,          \* QuotaType: the counters an amount of 1 is charged to
    TunnelCreation, \* the quota type create_tunnel asks for
    Limit,          \* QuotaLimits, the same for each type
    MaxResets,      \* bound on calls of reset_user_usage
    Ops             \* which handlers the requests call

ASSUME QuotaRequestsAssumption == IsFiniteSet(QuotaRequests)
ASSUME QuotaAssumption == /\ TunnelCreation \in Types
                          /\ Limit \in Nat \ {0}
                          /\ MaxResets \in Nat
                          /\ Ops \subseteq {"create", "check", "info"}

VARIABLES
    cache,     \* the UserUsage in UsageTracker.cache, or NoUsage
    pc,        \* where each request is
    op,        \* the handler a request runs
    type,      \* the quota type it is about
    snap,      \* the UserUsage a request has read
    granted,   \* allowed decisions per type since the last reset (history)
    created,   \* of these, the ones of create_tunnel (history)
    overlap,   \* whether two requests ever ran at the same time (history)
    torn,      \* whether a reset ever met a running request (history)
    resets     \* resets so far

quotaLocal == <<op, type>>
quotaVars == <<cache, pc, op, type, snap, granted, created, overlap, torn, resets>>

Usage == [Types -> Nat]
ZeroUsage == [t \in Types |-> 0]
NoUsage == [t \in {} |-> 0]
None == "none"

PCs == {"idle", "check", "fill", "record", "write", "done", "denied"}
Running == {q \in QuotaRequests : pc[q] \in {"check", "fill", "record", "write"}}

QuotaInit ==
    /\ cache = NoUsage
    /\ pc = [q \in QuotaRequests |-> "idle"]
    /\ op = [q \in QuotaRequests |-> None]
    /\ type = [q \in QuotaRequests |-> None]
    /\ snap = [q \in QuotaRequests |-> NoUsage]
    /\ granted = ZeroUsage /\ created = ZeroUsage
    /\ overlap = FALSE /\ torn = FALSE
    /\ resets = 0

----------------------------------------------------------------------------
(* A request arrives: create_tunnel asks for the tunnel quota,              *)
(* check_operation_allowed for the one the body names.                      *)
AskQuota(q) ==
    /\ pc[q] = "idle"
    /\ \E o \in Ops, t \in Types :
          /\ o = "create" => t = TunnelCreation
          /\ op' = [op EXCEPT ![q] = o]
          /\ type' = [type EXCEPT ![q] = t]
    /\ pc' = [pc EXCEPT ![q] = "check"]
    /\ overlap' = (overlap \/ Running # {})
    /\ UNCHANGED <<cache, snap, granted, created, torn, resets>>

(* check_quota's decision: an amount of one fits when it reaches the limit. *)
AllowedBelowLimit(used) == used + 1 < Limit
Allowed(used) == used + 1 <= Limit

(* What a request does with the usage it read: get_quota_info answers with  *)
(* it, enforce_* decides on it.                                             *)
Decide(q, usage) ==
    \/ /\ op[q] = "info"
       /\ pc' = [pc EXCEPT ![q] = "done"]
       /\ UNCHANGED <<granted, created>>
    \/ /\ op[q] # "info" /\ Allowed(usage[type[q]])
       /\ pc' = [pc EXCEPT ![q] = "record"]
       /\ granted' = [granted EXCEPT ![type[q]] = @ + 1]
       /\ created' = IF op[q] = "create"
                     THEN [created EXCEPT ![type[q]] = @ + 1] ELSE created
    \/ /\ op[q] # "info" /\ ~Allowed(usage[type[q]])
       /\ pc' = [pc EXCEPT ![q] = "denied"]
       /\ UNCHANGED <<granted, created>>

(* get_user_usage under the read lock: a hit returns a clone ...            *)
ReadUsage(q) ==
    /\ pc[q] = "check"
    /\ IF cache # NoUsage
       THEN Decide(q, cache)
       ELSE pc' = [pc EXCEPT ![q] = "fill"] /\ UNCHANGED <<granted, created>>
    /\ UNCHANGED <<cache, quotaLocal, snap, overlap, torn, resets>>

(* ... and a miss inserts a zero record under the write lock, over whatever *)
(* another request has stored since.                                        *)
FillUsage(q) ==
    /\ pc[q] = "fill"
    /\ cache' = ZeroUsage
    /\ Decide(q, ZeroUsage)
    /\ UNCHANGED <<quotaLocal, snap, overlap, torn, resets>>

(* record_usage reads the record again, under another lock than the check   *)
(* did (a hit: an entry is never removed once it is in the cache) ...       *)
ReadForRecord(q) ==
    /\ pc[q] = "record"
    /\ snap' = [snap EXCEPT ![q] = cache]
    /\ pc' = [pc EXCEPT ![q] = "write"]
    /\ UNCHANGED <<cache, quotaLocal, granted, created, overlap, torn, resets>>

(* ... and writes the whole record back, all counters of it.                *)
Charged(usage, t) == [usage EXCEPT ![t] = @ + 1]

WriteUsage(q) ==
    /\ pc[q] = "write"
    /\ cache' = Charged(snap[q], type[q])
    /\ pc' = [pc EXCEPT ![q] = "done"]
    /\ snap' = [snap EXCEPT ![q] = NoUsage]
    /\ UNCHANGED <<quotaLocal, granted, created, overlap, torn, resets>>

(* reset_usage zeroes a cached record in place, every counter of it.        *)
ResetRecordRemoved(usage) == NoUsage
ResetRecordTunnelsOnly(usage) == [usage EXCEPT ![TunnelCreation] = 0]
ResetRecord(usage) == ZeroUsage

ResetUsage ==
    /\ resets < MaxResets
    /\ resets' = resets + 1
    /\ torn' = (torn \/ Running # {})
    /\ cache' = IF cache = NoUsage THEN NoUsage ELSE ResetRecord(cache)
    /\ granted' = ZeroUsage /\ created' = ZeroUsage
    /\ UNCHANGED <<pc, quotaLocal, snap, overlap>>

QuotaNext ==
    \/ \E q \in QuotaRequests : \/ AskQuota(q) \/ ReadUsage(q) \/ FillUsage(q)
                                \/ ReadForRecord(q) \/ WriteUsage(q)
    \/ ResetUsage

QuotaSpec == QuotaInit /\ [][QuotaNext]_quotaVars

----------------------------------------------------------------------------
(* Properties.                                                              *)

(* Type correctness.  A request that records has found a cached record: the *)
(* tracker never drops one, which is why the miss path of get_user_usage is *)
(* out of record_usage's reach.                                             *)
QuotaTypeOK ==
    /\ cache \in Usage \cup {NoUsage}
    /\ pc \in [QuotaRequests -> PCs]
    /\ op \in [QuotaRequests -> Ops \cup {None}]
    /\ type \in [QuotaRequests -> Types \cup {None}]
    /\ snap \in [QuotaRequests -> Usage \cup {NoUsage}]
    /\ granted \in Usage /\ created \in Usage
    /\ overlap \in BOOLEAN /\ torn \in BOOLEAN
    /\ resets \in 0..MaxResets
    /\ \A q \in QuotaRequests : /\ pc[q] = "record" => cache # NoUsage
                                /\ pc[q] = "write" => snap[q] # NoUsage

(* Usage is never invented: within a period no counter exceeds the          *)
(* operations allowed in it (lost updates only ever lower a counter), so a  *)
(* user is never charged for what another request did.                      *)
(* With MaxResets > 0 it says what reset_usage promises, "Reset usage for a *)
(* new period", and fails: a record_usage that read the old period's record *)
(* writes it back after the reset.                                          *)
NoPhantomUsage ==
    cache # NoUsage => \A t \in Types : cache[t] <= granted[t]

(* A reset that meets no running request starts a clean period: whatever    *)
(* comes after it, no counter holds anything of the period before.          *)
QuietResetSticks == ~torn => NoPhantomUsage

(* No request is refused while the user has quota left, however the         *)
(* requests overlap: a denial is only answered once Limit operations of the *)
(* type were allowed in the period (unless a reset met a running request).  *)
DeniedOnlyAtLimit ==
    [][\A q \in QuotaRequests :
          ~torn /\ pc[q] # "denied" /\ pc'[q] = "denied" => granted[type[q]] >= Limit]_quotaVars

(* Requests that never overlap respect the quota exactly: the check and the *)
(* record of one request see each other when nothing runs in between.       *)
SequentialQuota ==
    ~overlap => \A t \in Types : granted[t] <= Limit

(* quota_enforcement.rs, enforce_tunnel_creation_quota: "Enforce quota for  *)
(* tunnel creation".  check_quota and record_usage are separate critical    *)
(* sections, and record_usage and the miss path overwrite each other.       *)
QuotaRespected ==
    \A t \in Types : granted[t] <= Limit

(* handlers/quota_management.rs, check_operation_allowed: "Check if a       *)
(* specific operation is allowed" -- asking charges the quota, as creating  *)
(* does, so usage counts operations the user never performed.               *)
ChecksChargeNothing ==
    cache # NoUsage => \A t \in Types : cache[t] <= created[t]
=============================================================================
