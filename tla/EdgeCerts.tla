----------------------------- MODULE EdgeCerts -----------------------------
(***************************************************************************)
(* The wildcard certificate of the HTTPS router                            *)
(* (crates/edgehub/src/certificate_manager.rs) and the part of the         *)
(* authority behind it that CertAuthority leaves out: the root and its     *)
(* files, and issue_server_certificate (crates/edf-ca/src/ca.rs).          *)
(*                                                                         *)
(* Callers of certificate() queue for a mutex that is held across the      *)
(* issuance.  The router is one of them: it presents what it was given and *)
(* asks again at the latest Poll ticks after the last answer.  The         *)
(* authority may be shared (with_ca), so others may use up the limit of    *)
(* the name.                                                               *)
(***************************************************************************)
EXTENDS Naturals

CONSTANTS
    Callers,      \* callers of certificate()
    Router,       \* the one that presents the certificate
    Validity,     \* validity_duration, in ticks
    RenewBefore,  \* renew_before, in ticks
    Poll,         \* the longest the router goes without asking
    HourTicks,    \* the limiter's hour
    PerHour,      \* certs_per_hour_per_client
    MaxRoots      \* bound on the roots generated

ASSUME EdgeAssumption ==
    /\ Router \in Callers
    /\ Validity \in Nat /\ RenewBefore \in Nat /\ Poll \in Nat /\ HourTicks \in Nat
    /\ Poll <= RenewBefore /\ RenewBefore < Validity
    /\ PerHour \in Nat \ {0} /\ MaxRoots \in Nat

VARIABLES
    caFiles,     \* which of ca_cert_path and ca_key_path exist
    root,        \* the root of the running authority, 0 while there is none
    roots,       \* roots generated so far
    cached,      \* CertificateManager.cached: ticks left, or None
    ask,         \* where each call of certificate() is
    issued,      \* FQDN's entry in client_counts: the count
    hour,        \* ticks since its last_reset, up to HourTicks
    presented,   \* ticks the router's certificate has left, or None
    asked        \* ticks since the router was last answered with a certificate

edgeVars == <<caFiles, root, roots, cached, ask, issued, hour, presented, asked>>

None == Validity + 1

EdgeInit ==
    /\ caFiles = "none"
    /\ root = 0 /\ roots = 0
    /\ cached = None
    /\ ask = [a \in Callers |-> "idle"]
    /\ issued = 0 /\ hour = HourTicks
    /\ presented = None
    /\ asked = 0

-----------------------------------------------------------------------------
(* The authority's root: load_or_generate_ca_certificate.                   *)

NewRoot(n) == root' = n /\ roots' = n

\* With both files there it says it loads them, and generates a root that it
\* does not save.
LoadRoot ==
    /\ root = 0 /\ roots < MaxRoots
    /\ caFiles = "both"
    /\ NewRoot(roots + 1)
    /\ UNCHANGED <<caFiles, cached, ask, issued, hour, presented, asked>>

\* Otherwise it generates one and writes the certificate, then the key; a
\* start that finds only one of the two files begins again.
SaveRoot ==
    /\ root = 0 /\ roots < MaxRoots
    /\ \/ caFiles = "none" /\ caFiles' = "certificate" /\ UNCHANGED <<root, roots>>
       \/ caFiles = "certificate" /\ caFiles' = "both" /\ NewRoot(roots + 1)
    /\ UNCHANGED <<cached, ask, issued, hour, presented, asked>>

\* The process dies, with the cache and the limiter.
EdgeDies ==
    /\ root > 0
    /\ root' = 0
    /\ cached' = None
    /\ ask' = [a \in Callers |-> "idle"]
    /\ issued' = 0 /\ hour' = HourTicks
    /\ presented' = None
    /\ asked' = 0
    /\ UNCHANGED <<caFiles, roots>>

-----------------------------------------------------------------------------
(* issue_server_certificate                                                 *)

RateLimited == hour < HourTicks /\ issued >= PerHour

\* record_issuance
CountIssuance ==
    /\ issued' = IF hour = HourTicks THEN 1 ELSE issued + 1
    /\ hour' = IF hour = HourTicks THEN 0 ELSE hour

\* Another component gets a certificate for the same name.
OtherIssue ==
    /\ root > 0
    /\ ~RateLimited
    /\ CountIssuance
    /\ UNCHANGED <<caFiles, root, roots, cached, ask, presented, asked>>

-----------------------------------------------------------------------------
(* certificate()                                                            *)

NeedsRenewalLate == cached = 0
NeedsRenewal == cached <= RenewBefore

\* The mutex is taken for the whole of certificate().
Locked == \E a \in Callers : ask[a] = "issue"

Certificate(a) ==
    /\ root > 0
    /\ ask[a] = "idle"
    /\ ask' = [ask EXCEPT ![a] = "lock"]
    /\ UNCHANGED <<caFiles, root, roots, cached, issued, hour, presented, asked>>

\* What the caller does with the answer.
Answered(a, left) ==
    /\ ask' = [ask EXCEPT ![a] = "idle"]
    /\ IF a = Router THEN presented' = left /\ asked' = 0
                     ELSE UNCHANGED <<presented, asked>>

ServeCached(a) ==
    /\ ask[a] = "lock" /\ ~Locked
    /\ cached # None /\ ~NeedsRenewal
    /\ Answered(a, cached)
    /\ UNCHANGED <<caFiles, root, roots, cached, issued, hour>>

BeginIssue(a) ==
    /\ ask[a] = "lock" /\ ~Locked
    /\ cached = None \/ NeedsRenewal
    /\ ask' = [ask EXCEPT ![a] = "issue"]
    /\ UNCHANGED <<caFiles, root, roots, cached, issued, hour, presented, asked>>

\* An error, though the cached certificate may still be good.
IssueRefused(a) ==
    /\ ask[a] = "issue"
    /\ RateLimited
    /\ ask' = [ask EXCEPT ![a] = "idle"]
    /\ UNCHANGED <<caFiles, root, roots, cached, issued, hour, presented, asked>>

\* The certificate is generated, registered (the hub's registry is memory-only,
\* nothing is awaited from outside), counted, and cached.
IssueServerCertificate(a) ==
    /\ ask[a] = "issue"
    /\ ~RateLimited
    /\ CountIssuance
    /\ cached' = Validity
    /\ Answered(a, Validity)
    /\ UNCHANGED <<caFiles, root, roots>>

-----------------------------------------------------------------------------
Down(n) == IF n \in 1 .. Validity THEN n - 1 ELSE n

\* Time passes; the router's next answer is due within Poll, unless the
\* limiter stands in its way.
EdgeTick ==
    /\ root > 0
    /\ presented = None \/ asked < Poll \/ RateLimited
    /\ cached' = Down(cached)
    /\ presented' = Down(presented)
    /\ hour' = IF hour < HourTicks THEN hour + 1 ELSE hour
    /\ asked' = IF presented # None /\ asked <= Poll THEN asked + 1 ELSE asked
    /\ UNCHANGED <<caFiles, root, roots, ask, issued>>

EdgeNext ==
    \/ LoadRoot \/ SaveRoot \/ EdgeDies \/ OtherIssue \/ EdgeTick
    \/ \E a \in Callers : \/ Certificate(a) \/ ServeCached(a) \/ BeginIssue(a)
                          \/ IssueRefused(a) \/ IssueServerCertificate(a)

EdgeSpec == EdgeInit /\ [][EdgeNext]_edgeVars

-----------------------------------------------------------------------------
(* What the manager promises                                                *)

\* certificate_manager.rs on renew_before: "comfortably larger than the
\* interval at which the router asks for the certificate, so rotation never
\* races an expiry".  A router that was answered within its interval presents a
\* certificate that has not expired.
PresentedUnexpired ==
    presented # None /\ asked <= Poll => presented > 0

\* certificate_manager.rs on certificate(): "only re-issues once the certificate
\* is close to expiring", and callers may ask per connection.  However many of
\* them find it due at once, a fresh certificate is never replaced.
FreshKept ==
    [][cached' = Validity /\ cached # Validity
         => cached = None \/ cached <= RenewBefore]_edgeVars
=============================================================================
