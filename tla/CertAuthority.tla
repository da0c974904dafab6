---------------------------- MODULE CertAuthority ----------------------------
(***************************************************************************)
(* The certificate authority of crates/edf-ca: issuance with its           *)
(* per-client rate limiter (ca.rs), the registry that keeps issued         *)
(* certificates in a process-local map and in Redis (lib.rs), validation,  *)
(* revocation and clean-up.                                                *)
(*                                                                         *)
(* Replicas are processes that share the Redis store and each own a        *)
(* CertificateAuthority; an actor of Calls is one call of                  *)
(* validate_certificate, get_certificate_info or revoke_certificate.       *)
(* Every await is a step, so calls interleave between a map access and a   *)
(* Redis command.  A certificate's key, names and PEM text are left out: a *)
(* certificate is its serial number, and time is counted in Ticks of equal *)
(* length.                                                                 *)
(***************************************************************************)
EXTENDS Integers, FiniteSets, TLC

CONSTANTS
    Replicas,     \* processes holding a CertificateAuthority over one store
    Certs,        \* serial numbers, one per issuance request
    Clients,      \* client ids the limiter is keyed on
    Calls,        \* validate and revoke calls
    CertTtl,      \* validity of a certificate, in ticks
    Second,       \* ticks in a second: TTLs are whole seconds, expires_at is not
    Window,       \* the limiter's hour, in ticks
    Limit,        \* certs_per_hour_per_client
    MaxRestarts,  \* bound on process restarts
    MaxInFlight,  \* issuances one process runs at once
    StoreFails    \* whether a Redis command may fail

ASSUME CertTtlAssumption == CertTtl \in Nat \ {0} /\ Second \in Nat \ {0}
ASSUME LimitAssumption == Limit \in Nat \ {0} /\ Window \in Nat \ {0}

VARIABLES
    cache,     \* active_certs: per replica, the serials in the local map
    store,     \* edf-ca:cert:<serial>: remaining TTL in Redis, 0 when absent
    life,      \* remaining validity (expires_at - now) of a generated certificate
    count,     \* RateLimiter.client_counts: the count
    since,     \* RateLimiter.client_counts: ticks since last_reset, capped at Window
    issue,     \* an issuance: where it is, on which replica, for which client
    call,      \* a validate or revoke call
    persisted, \* serials whose SET succeeded (history)
    revoking,  \* serials some revoke call was made for (history)
    revoked,   \* serials some revoke call reported success for (history)
    failed,    \* serials some Redis command failed for (history)
    restarts   \* restarts so far

registry == <<cache, store>>
limiter == <<count, since>>
history == <<persisted, revoking, revoked, failed>>
vars == <<cache, store, life, count, since, issue, call,
          persisted, revoking, revoked, failed, restarts>>

IssuePC == {"idle", "generate", "persist", "cache", "record", "issued", "refused", "dead"}
CallPC == {"idle", "readCache", "readStore", "fillCache", "answer",
           "deleteStored", "removeCached", "valid", "invalid",
           "active", "expired", "revoked", "notFound", "dead"}
Nobody == "nobody"

(* An issuance and a call that have not begun, or are over.                 *)
NoIssue(pc) == [pc |-> pc, at |-> Nobody, client |-> Nobody]
NoCall(pc) == [pc |-> pc, at |-> Nobody, op |-> Nobody, cert |-> Nobody, known |-> FALSE]

Issuing(r) == {c \in Certs : /\ issue[c].pc \in {"generate", "persist", "cache", "record"}
                             /\ issue[c].at = r}

Init ==
    /\ cache = [r \in Replicas |-> {}]
    /\ store = [c \in Certs |-> 0]
    /\ life = [c \in Certs |-> 0]
    /\ count = [r \in Replicas |-> [k \in Clients |-> 0]]
    /\ since = [r \in Replicas |-> [k \in Clients |-> Window]]
    /\ issue = [c \in Certs |-> NoIssue("idle")]
    /\ call = [l \in Calls |-> NoCall("idle")]
    /\ persisted = {} /\ revoking = {} /\ revoked = {} /\ failed = {}
    /\ restarts = 0

IssueGoto(c, pc) == issue' = [issue EXCEPT ![c].pc = pc]
IssueEnds(c, reply) == issue' = [issue EXCEPT ![c] = NoIssue(reply)]
CallGoto(l, pc) == call' = [call EXCEPT ![l].pc = pc]
CallEnds(l, reply) == call' = [call EXCEPT ![l] = NoCall(reply)]

----------------------------------------------------------------------------
(* Issuance: issue_client_certificate, and issue_server_certificate, which  *)
(* differs only in what the limiter is keyed on.                            *)

(* The API's issue_certificate handler turns a TTL beyond the maximum away  *)
(* before the authority sees it.                                            *)
RejectTtl(c) ==
    /\ issue[c].pc = "idle"
    /\ IssueEnds(c, "refused")
    /\ UNCHANGED <<registry, life, limiter, call, history, restarts>>

(* is_rate_limited: a client with no entry, or whose window has expired, is *)
(* let through whatever its count says.                                     *)
IsRateLimited(r, k) == since[r][k] < Window /\ count[r][k] >= Limit

CheckRateLimits(c) ==
    /\ issue[c].pc = "idle"
    /\ \E r \in Replicas, k \in Clients :
          /\ Cardinality(Issuing(r)) < MaxInFlight
          /\ issue' = [issue EXCEPT ![c] =
                 IF IsRateLimited(r, k) THEN NoIssue("refused")
                 ELSE [pc |-> "generate", at |-> r, client |-> k]]
    /\ UNCHANGED <<registry, life, limiter, call, history, restarts>>

(* generate_certificate fixes expires_at.                                   *)
Generate(c) ==
    /\ issue[c].pc = "generate"
    /\ life' = [life EXCEPT ![c] = CertTtl]
    /\ IssueGoto(c, "persist")
    /\ UNCHANGED <<registry, limiter, call, history, restarts>>

(* register_certificate writes the store before the local map, with the     *)
(* whole seconds the certificate has left (num_seconds), so that the record *)
(* ends up to a second before the certificate; nothing is written when less *)
(* than a second is left.                                                   *)
\* Mutant of PersistTtl: a margin is taken off as well.
PersistTtlShort(c) == life[c] - (life[c] % Second) - 1
PersistTtl(c) == life[c] - (life[c] % Second)

Persist(c) ==
    /\ issue[c].pc = "persist"
    /\ \/ /\ PersistTtl(c) > 0
          /\ store' = [store EXCEPT ![c] = PersistTtl(c)]
          /\ persisted' = persisted \cup {c}
       \/ /\ ~(PersistTtl(c) > 0) \/ StoreFails
          /\ UNCHANGED <<store, persisted>>
    /\ IssueGoto(c, "cache")
    /\ UNCHANGED <<cache, life, limiter, call, revoking, revoked, failed, restarts>>

CacheIssued(c) ==
    /\ issue[c].pc = "cache"
    /\ cache' = [cache EXCEPT ![issue[c].at] = @ \cup {c}]
    /\ IssueGoto(c, "record")
    /\ UNCHANGED <<store, life, limiter, call, history, restarts>>

(* record_issuance: the window restarts with the first issuance recorded    *)
(* after it expired.                                                        *)
CountAfter(r, k) == IF since[r][k] = Window THEN 1 ELSE count[r][k] + 1

RecordIssuance(c) ==
    LET r == issue[c].at
        k == issue[c].client
    IN /\ issue[c].pc = "record"
       /\ count' = [count EXCEPT ![r][k] = CountAfter(r, k)]
       /\ since' = [since EXCEPT ![r][k] = IF @ = Window THEN 0 ELSE @]
       /\ IssueEnds(c, "issued")
       /\ UNCHANGED <<registry, life, call, history, restarts>>

----------------------------------------------------------------------------
(* Lookups: validate_certificate, get_certificate_info and the first half   *)
(* of revoke_certificate are all get_certificate.  Serial numbers are random, so a call names a  *)
(* certificate whose issuance has returned.                                 *)

Call(l) ==
    /\ call[l].pc = "idle"
    /\ \E r \in Replicas, c \in Certs, op \in {"validate", "info", "revoke"} :
          /\ issue[c].pc = "issued"
          /\ call' = [call EXCEPT ![l] = [pc |-> "readCache", at |-> r, op |-> op,
                                          cert |-> c, known |-> FALSE]]
          /\ revoking' = IF op = "revoke" THEN revoking \cup {c} ELSE revoking
    /\ UNCHANGED <<registry, life, limiter, issue, persisted, revoked, failed, restarts>>

(* What a call does with the outcome of get_certificate.                    *)
Looked(l, found) ==
    call' = [call EXCEPT ![l].known = found,
                         ![l].pc = IF call[l].op = "revoke" THEN "deleteStored" ELSE "answer"]

ReadCache(l) ==
    /\ call[l].pc = "readCache"
    /\ IF call[l].cert \in cache[call[l].at]
       THEN Looked(l, TRUE)
       ELSE CallGoto(l, "readStore")
    /\ UNCHANGED <<registry, life, limiter, issue, history, restarts>>

ReadStore(l) ==
    /\ call[l].pc = "readStore"
    /\ \/ store[call[l].cert] > 0 /\ CallGoto(l, "fillCache") /\ UNCHANGED failed
       \/ store[call[l].cert] = 0 /\ Looked(l, FALSE) /\ UNCHANGED failed
       \/ StoreFails /\ Looked(l, FALSE) /\ failed' = failed \cup {call[l].cert}
    /\ UNCHANGED <<registry, life, limiter, issue, persisted, revoking, revoked, restarts>>

FillCache(l) ==
    /\ call[l].pc = "fillCache"
    /\ cache' = [cache EXCEPT ![call[l].at] = @ \cup {call[l].cert}]
    /\ Looked(l, TRUE)
    /\ UNCHANGED <<store, life, limiter, issue, history, restarts>>

(* is_certificate_valid: known and not past expires_at.                     *)
IsValid(l) == call[l].known /\ life[call[l].cert] > 0

(* The API's get_certificate handler, on what get_certificate_info found.   *)
CertificateStatus(l) ==
    CASE ~call[l].known -> "notFound"
      [] life[call[l].cert] > 0 -> "active"
      [] OTHER -> "expired"

Answer(l) ==
    /\ call[l].pc = "answer"
    /\ CallEnds(l, IF call[l].op = "info" THEN CertificateStatus(l)
                   ELSE IF IsValid(l) THEN "valid" ELSE "invalid")
    /\ UNCHANGED <<registry, life, limiter, issue, history, restarts>>

----------------------------------------------------------------------------
(* Revocation and clean-up.                                                 *)

(* remove_certificate deletes the stored record first; a failed DEL is      *)
(* logged and the call goes on.                                             *)
\* Mutant of Unstore: revocation touches the local map only.
UnstoreNothing(c) == store
Unstore(c) == [store EXCEPT ![c] = 0]

DeleteStored(l) ==
    /\ call[l].pc = "deleteStored"
    /\ \/ store' = Unstore(call[l].cert) /\ UNCHANGED failed
       \/ StoreFails /\ UNCHANGED store /\ failed' = failed \cup {call[l].cert}
    /\ CallGoto(l, "removeCached")
    /\ UNCHANGED <<cache, life, limiter, issue, persisted, revoking, revoked, restarts>>

RemoveCached(l) ==
    LET c == call[l].cert
        r == call[l].at
        found == call[l].known \/ c \in cache[r]
    IN /\ call[l].pc = "removeCached"
       /\ cache' = [cache EXCEPT ![r] = @ \ {c}]
       /\ CallEnds(l, IF found THEN "revoked" ELSE "notFound")
       /\ revoked' = IF found THEN revoked \cup {c} ELSE revoked
       /\ UNCHANGED <<store, life, limiter, issue, persisted, revoking, failed, restarts>>

CleanupExpired(r) ==
    /\ \E c \in cache[r] : life[c] = 0
    /\ cache' = [cache EXCEPT ![r] = {c \in @ : life[c] > 0}]
    /\ UNCHANGED <<store, life, limiter, issue, call, history, restarts>>

(* A process restart loses the local map, the limiter and the calls under   *)
(* way; the new process starts from CertificateAuthority::with_store.       *)
Restart(r) ==
    /\ restarts < MaxRestarts
    /\ restarts' = restarts + 1
    /\ cache' = [cache EXCEPT ![r] = {}]
    /\ count' = [count EXCEPT ![r] = [k \in Clients |-> 0]]
    /\ since' = [since EXCEPT ![r] = [k \in Clients |-> Window]]
    /\ issue' = [c \in Certs |-> IF c \in Issuing(r)
                                 THEN NoIssue("dead") ELSE issue[c]]
    /\ call' = [l \in Calls |-> IF call[l].at = r THEN NoCall("dead") ELSE call[l]]
    /\ UNCHANGED <<store, life, history>>

(* Redis expiry, the certificates' validity and the limiter's clock.        *)
Dec(n) == IF n > 0 THEN n - 1 ELSE 0

Tick ==
    /\ \/ \E c \in Certs : store[c] > 0 \/ life[c] > 0
       \/ \E r \in Replicas, k \in Clients : since[r][k] < Window
    /\ store' = [c \in Certs |-> Dec(store[c])]
    /\ life' = [c \in Certs |-> Dec(life[c])]
    /\ since' = [r \in Replicas |-> [k \in Clients |->
                    IF since[r][k] < Window THEN since[r][k] + 1 ELSE Window]]
    /\ UNCHANGED <<cache, count, issue, call, history, restarts>>

----------------------------------------------------------------------------
Next ==
    \/ \E c \in Certs : \/ RejectTtl(c) \/ CheckRateLimits(c) \/ Generate(c) \/ Persist(c)
                        \/ CacheIssued(c) \/ RecordIssuance(c)
    \/ \E l \in Calls : \/ Call(l) \/ ReadCache(l) \/ ReadStore(l) \/ FillCache(l)
                        \/ Answer(l) \/ DeleteStored(l) \/ RemoveCached(l)
    \/ \E r \in Replicas : CleanupExpired(r) \/ Restart(r)
    \/ Tick

Spec == Init /\ [][Next]_vars

----------------------------------------------------------------------------
(* Properties.                                                              *)

(* The registry's state is well formed: only what was generated is ever     *)
(* cached or stored, and a record's TTL is within the validity.             *)
CATypeOK ==
    /\ cache \in [Replicas -> SUBSET Certs]
    /\ store \in [Certs -> 0..CertTtl]
    /\ life \in [Certs -> 0..CertTtl]
    /\ count \in [Replicas -> [Clients -> Nat]]
    /\ since \in [Replicas -> [Clients -> 0..Window]]
    /\ issue \in [Certs -> [pc : IssuePC, at : Replicas \cup {Nobody},
                            client : Clients \cup {Nobody}]]
    /\ call \in [Calls -> [pc : CallPC, at : Replicas \cup {Nobody},
                           op : {"validate", "info", "revoke", Nobody},
                           cert : Certs \cup {Nobody}, known : BOOLEAN]]
    /\ persisted \subseteq Certs /\ revoking \subseteq Certs /\ revoked \subseteq revoking
    /\ failed \subseteq Certs
    /\ restarts \in 0..MaxRestarts

(* A certificate that was issued, persisted, has a second or more left and  *)
(* that nobody tried to revoke validates on every process, whatever         *)
(* restarted in between (lib.rs, CertificateRegistry: "validation still     *)
(* succeeds for certificates issued before a process restart"): a           *)
(* validation answers "invalid" for one only when a Redis command about it  *)
(* failed.  In its last second the record may be gone already.              *)
IssuedValidates ==
    [][\A l \in Calls :
          call[l].pc = "answer" /\ call'[l].pc = "invalid" =>
             \/ call[l].cert \in failed
             \/ life[call[l].cert] < Second
             \/ call[l].cert \notin persisted
             \/ call[l].cert \in revoking]_vars

(* The same to the end of the validity.  num_seconds drops the fraction, so *)
(* a process that did not issue the certificate, or restarted since, calls  *)
(* it invalid in the last second before its expires_at.                     *)
ValidatesToTheEnd ==
    [][\A l \in Calls :
          call[l].pc = "answer" /\ call'[l].pc = "invalid" =>
             \/ call[l].cert \in failed \cup revoking
             \/ life[call[l].cert] = 0
             \/ call[l].cert \notin persisted]_vars

(* A revoked certificate does not come back after a restart                 *)
(* (remove_certificate, "it may validate again after a restart"): unless a  *)
(* Redis command about it failed, no stored record is left of it and none   *)
(* is written again, so a process that starts with an empty map has nowhere *)
(* to find it.                                                              *)
RevokedNotStored ==
    \A c \in revoked \ failed : store[c] = 0

(* The limiter is checked before an issuance and updated after it, so the   *)
(* limit may be overshot, but only by the issuances that ran at the same    *)
(* time: MaxInFlight of them pass a check that sees Limit - 1.              *)
OvershootBounded ==
    \A r \in Replicas, k \in Clients : count[r][k] <= Limit - 1 + MaxInFlight

(* lib.rs, CaConfig: "Maximum certificates issued per hour per client (abuse *)
(* guard)".  The lock is released between check_rate_limits and             *)
(* record_issuance, so concurrent requests of one client exceed it.         *)
LimitNeverExceeded ==
    \A r \in Replicas, k \in Clients : count[r][k] <= Limit

(* lib.rs, remove_certificate: removing the record from the store too "is   *)
(* essential for revocation".  A lookup that read the store before the DEL  *)
(* puts the certificate back into the map after the removal: a revoked,     *)
(* unexpired certificate is then served from the map again.                 *)
RevokedInvalid ==
    \A c \in revoked : life[c] > 0 =>
        \A r \in Replicas : c \notin cache[r]
=============================================================================
