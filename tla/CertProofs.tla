---------------------------- MODULE CertProofs ----------------------------
(***************************************************************************)
(* What the certificate authority and the router's certificate manager     *)
(* promise for every number of processes, certificates and calls, for      *)
(* every validity and for every failure of Redis.                          *)
(***************************************************************************)
EXTENDS CertAuthority, EdgeCerts, TLAPS

(* The registry                                                            *)

Looking == {"readCache", "readStore", "fillCache", "answer", "deleteStored",
            "removeCached"}

IssueRec == [pc : IssuePC, at : Replicas \cup {Nobody}, client : Clients \cup {Nobody}]
CallRec == [pc : CallPC, at : Replicas \cup {Nobody},
            op : {"validate", "info", "revoke", Nobody},
            cert : Certs \cup {Nobody}, known : BOOLEAN]

\* The part of the types that the arguments need.
CATypes ==
    /\ store \in [Certs -> Nat]
    /\ life \in [Certs -> Nat]
    /\ issue \in [Certs -> IssueRec]
    /\ call \in [Calls -> CallRec]

\* A call that is under way names a certificate whose issuance has returned,
\* and a revocation is on record.
CallsNameIssued ==
    \A l \in Calls :
        call[l].pc \in Looking =>
            /\ call[l].cert \in Certs
            /\ issue[call[l].cert].pc = "issued"
            /\ call[l].op = "revoke" => call[l].cert \in revoking
            /\ call[l].pc \in {"deleteStored", "removeCached"} => call[l].op = "revoke"
            /\ call[l].pc = "answer" => call[l].op # "revoke"

\* What was revoked was issued; what was stored is past register_certificate.
RevokedIssued ==
    /\ revoked \subseteq Certs /\ revoked \subseteq revoking
    /\ \A c \in revoked : issue[c].pc = "issued"
    /\ \A c \in Certs :
          issue[c].pc \in {"idle", "generate", "persist"} => c \notin persisted

\* A revocation past its DEL left nothing in the store, if the DEL worked.
DeletedStays ==
    \A l \in Calls :
        call[l].pc = "removeCached" /\ call[l].cert \notin failed =>
            store[call[l].cert] = 0

\* The record of a certificate that nobody revokes ends less than a second
\* before it does.
StoredAsLong ==
    \A c \in Certs : c \in persisted \ revoking => life[c] < store[c] + Second

\* A lookup that found nothing has a reason.
MissExplained ==
    \A l \in Calls :
        call[l].pc = "answer" /\ ~call[l].known =>
            \/ call[l].cert \in failed
            \/ life[call[l].cert] < Second
            \/ call[l].cert \notin persisted
            \/ call[l].cert \in revoking

CAInv ==
    /\ CATypes
    /\ CallsNameIssued
    /\ RevokedIssued
    /\ DeletedStays
    /\ RevokedNotStored
    /\ StoredAsLong
    /\ MissExplained

\* The authority starts with nothing issued, stored or revoked.
LEMMA CAInitially == Init => CAInv
BY DEF Init, CAInv, CATypes, CallsNameIssued, RevokedIssued, DeletedStays,
       RevokedNotStored, StoredAsLong, MissExplained, NoIssue, NoCall, IssuePC,
       CallPC, Looking, Nobody, IssueRec, CallRec

\* An issuance that moves changes nothing of the others.
LEMMA IssueMoves ==
    ASSUME CATypes, NEW c \in Certs, NEW v \in IssuePC, IssueGoto(c, v) \/ IssueEnds(c, v)
    PROVE  /\ issue' \in [Certs -> IssueRec]
           /\ issue'[c].pc = v
           /\ \A w \in Certs \ {c} : issue'[w] = issue[w]
BY DEF CATypes, IssueRec, IssueGoto, IssueEnds, NoIssue

\* A call that goes on changes its place only.
LEMMA CallMoves ==
    ASSUME CATypes, NEW l \in Calls, NEW v \in CallPC, CallGoto(l, v)
    PROVE  /\ call' \in [Calls -> CallRec]
           /\ call'[l].pc = v /\ call'[l].cert = call[l].cert /\ call'[l].op = call[l].op
           /\ \A m \in Calls \ {l} : call'[m] = call[m]
BY DEF CATypes, CallRec, CallGoto

\* A call that ends changes nothing of the others.
LEMMA CallOver ==
    ASSUME CATypes, NEW l \in Calls, NEW v \in CallPC, CallEnds(l, v)
    PROVE  /\ call' \in [Calls -> CallRec]
           /\ call'[l].pc = v
           /\ \A m \in Calls \ {l} : call'[m] = call[m]
BY DEF CATypes, CallRec, CallEnds, NoCall

\* get_certificate has its outcome: found, or missed for a reason.
LEMMA LookedKeeps ==
    ASSUME CAInv, NEW l \in Calls, call[l].pc \in {"readCache", "readStore", "fillCache"},
           NEW found \in BOOLEAN, Looked(l, found),
           UNCHANGED <<store, life, issue, persisted, revoking, revoked>>,
           failed \subseteq failed',
           found \/ call[l].cert \in failed' \/ store[call[l].cert] = 0
    PROVE  CAInv'
<1> DEFINE c == call[l].cert
<1>1. /\ call' \in [Calls -> CallRec]
      /\ call'[l].pc = IF call[l].op = "revoke" THEN "deleteStored" ELSE "answer"
      /\ call'[l].cert = c /\ call'[l].op = call[l].op
      /\ \A m \in Calls \ {l} : call'[m] = call[m]
  BY DEF CAInv, CATypes, CallRec, CallPC, Looked
<1>2. call'[l].known = found
  BY DEF CAInv, CATypes, CallRec, CallPC, Looked
<1>3. CATypes'
  BY <1>1 DEF CAInv, CATypes
<1>4. CallsNameIssued'
  BY <1>1 DEF CAInv, CallsNameIssued, Looking
<1>5. RevokedIssued' /\ RevokedNotStored' /\ StoredAsLong'
  BY DEF CAInv, RevokedIssued, RevokedNotStored, StoredAsLong
<1>6. DeletedStays'
  BY <1>1 DEF CAInv, DeletedStays
<1>7. ~found => \/ c \in failed' \/ life[c] < Second \/ c \notin persisted \/ c \in revoking
  BY CertTtlAssumption DEF CAInv, CATypes, StoredAsLong, CallsNameIssued, Looking
<1>8. MissExplained'
  BY <1>1, <1>2, <1>7 DEF CAInv, MissExplained
<1>9. QED
  BY <1>3, <1>4, <1>5, <1>6, <1>8 DEF CAInv

\* Every step of the authority, a process restart included, keeps the invariant.
LEMMA CAKeeps == CAInv /\ [Next]_vars => CAInv'
<1> SUFFICES ASSUME CAInv, [Next]_vars PROVE CAInv'
  OBVIOUS
<1>1. ASSUME NEW l \in Calls, FillCache(l) PROVE CAInv'
  BY <1>1, LookedKeeps DEF FillCache, history
<1>2. ASSUME NEW l \in Calls, ReadCache(l)
      PROVE  \/ CAInv'
             \/ /\ call[l].pc = "readCache" /\ CallGoto(l, "readStore")
                /\ UNCHANGED <<store, life, issue, persisted, revoking, revoked, failed>>
  BY <1>2, LookedKeeps DEF ReadCache, history, registry
<1>3. ASSUME NEW l \in Calls, ReadStore(l)
      PROVE  \/ CAInv'
             \/ /\ call[l].pc = "readStore" /\ CallGoto(l, "fillCache")
                /\ UNCHANGED <<store, life, issue, persisted, revoking, revoked, failed>>
  BY <1>3, LookedKeeps DEF ReadStore, registry
<1> USE CertTtlAssumption
    DEF CAInv, CATypes, CallsNameIssued, RevokedIssued, DeletedStays,
        RevokedNotStored, StoredAsLong, MissExplained, Looking, IssuePC, CallPC,
        NoIssue, NoCall, Nobody, registry, limiter, history
<1>4. ASSUME NEW c \in Certs, RejectTtl(c) PROVE CAInv'
  <2>1. IssueEnds(c, "refused") /\ issue[c].pc = "idle"
    BY <1>4 DEF RejectTtl
  <2>2. QED
    BY IssueMoves, <1>4, <2>1 DEF RejectTtl
<1>5. ASSUME NEW c \in Certs, CheckRateLimits(c) PROVE CAInv'
  <2>1. PICK r \in Replicas, k \in Clients :
             issue' = [issue EXCEPT ![c] = IF IsRateLimited(r, k) THEN NoIssue("refused")
                                           ELSE [pc |-> "generate", at |-> r, client |-> k]]
    BY <1>5 DEF CheckRateLimits
  <2>2. /\ issue' \in [Certs -> IssueRec]
        /\ issue[c].pc = "idle"
        /\ issue'[c].pc \in {"generate", "refused"}
        /\ \A w \in Certs \ {c} : issue'[w] = issue[w]
    BY <1>5, <2>1 DEF CheckRateLimits, IssueRec
  <2>3. QED
    BY <1>5, <2>2 DEF CheckRateLimits
<1>6. ASSUME NEW c \in Certs, Generate(c) PROVE CAInv'
  <2>1. IssueGoto(c, "persist") /\ issue[c].pc = "generate"
    BY <1>6 DEF Generate
  <2>2. /\ life' \in [Certs -> Nat]
        /\ \A w \in Certs \ {c} : life'[w] = life[w]
        /\ UNCHANGED <<store, call, persisted, revoking, revoked, failed>>
    BY <1>6 DEF Generate
  <2>3. QED
    BY IssueMoves, <2>1, <2>2
<1>7. ASSUME NEW c \in Certs, Persist(c) PROVE CAInv'
  <2>1. IssueGoto(c, "cache") /\ issue[c].pc = "persist"
    BY <1>7 DEF Persist
  <2>0. PersistTtl(c) \in Nat /\ life[c] < PersistTtl(c) + Second
    BY CertTtlAssumption DEF PersistTtl
  <2>2. /\ store' \in [Certs -> Nat]
        /\ \A w \in Certs \ {c} : store'[w] = store[w] /\ (w \in persisted' => w \in persisted)
        /\ c \in persisted' => life[c] < store'[c] + Second \/ c \in persisted
        /\ persisted \subseteq persisted'
        /\ UNCHANGED <<life, call, revoking, revoked, failed>>
    BY <1>7, <2>0 DEF Persist
  <2>3. QED
    BY IssueMoves, <2>1, <2>2
<1>8. ASSUME NEW c \in Certs, CacheIssued(c) \/ RecordIssuance(c) PROVE CAInv'
  <2>1. /\ issue[c].pc \in {"cache", "record"}
        /\ \E v \in {"record", "issued"} : IssueGoto(c, v) \/ IssueEnds(c, v)
        /\ UNCHANGED <<store, life, call, persisted, revoking, revoked, failed>>
    BY <1>8 DEF CacheIssued, RecordIssuance
  <2>2. QED
    BY IssueMoves, <2>1
<1>9. ASSUME NEW l \in Calls, Call(l) PROVE CAInv'
  <2>1. PICK r \in Replicas, c \in Certs, op \in {"validate", "info", "revoke"} :
             /\ issue[c].pc = "issued"
             /\ call' = [call EXCEPT ![l] = [pc |-> "readCache", at |-> r, op |-> op,
                                             cert |-> c, known |-> FALSE]]
             /\ revoking' = IF op = "revoke" THEN revoking \cup {c} ELSE revoking
    BY <1>9 DEF Call
  <2>2. /\ call' \in [Calls -> CallRec]
        /\ call'[l].pc = "readCache" /\ call'[l].op = op /\ call'[l].cert = c
        /\ \A m \in Calls \ {l} : call'[m] = call[m]
    BY <2>1 DEF CallRec
  <2>3. UNCHANGED <<store, life, issue, persisted, revoked, failed>>
    BY <1>9 DEF Call
  <2>4. QED
    BY <2>1, <2>2, <2>3
<1>10. ASSUME NEW l \in Calls,
             \/ call[l].pc = "readCache" /\ CallGoto(l, "readStore")
             \/ call[l].pc = "readStore" /\ CallGoto(l, "fillCache"),
             UNCHANGED <<store, life, issue, persisted, revoking, revoked, failed>>
      PROVE  CAInv'
  BY CallMoves, <1>10
<1>11. ASSUME NEW l \in Calls, Answer(l) PROVE CAInv'
  <2>1. \E v \in CallPC \ Looking : CallEnds(l, v)
    BY <1>11 DEF Answer, CertificateStatus
  <2>2. UNCHANGED <<store, life, issue, persisted, revoking, revoked, failed>>
    BY <1>11 DEF Answer
  <2>3. QED
    BY CallOver, <2>1, <2>2
<1>12. ASSUME NEW l \in Calls, DeleteStored(l) PROVE CAInv'
  <2>1. /\ call[l].pc = "deleteStored" /\ CallGoto(l, "removeCached")
        /\ UNCHANGED <<life, issue, persisted, revoking, revoked>>
    BY <1>12 DEF DeleteStored
  <2>2. CASE store' = [store EXCEPT ![call[l].cert] = 0] /\ UNCHANGED failed
    <3>1. call[l].cert \in Certs /\ call[l].cert \in revoking
      BY <2>1
    <3>2. /\ store' \in [Certs -> Nat]
          /\ store'[call[l].cert] = 0
          /\ \A c \in Certs \ {call[l].cert} : store'[c] = store[c]
      BY <2>2, <3>1
    <3>3. QED
      BY CallMoves, <2>1, <2>2, <3>1, <3>2
  <2>3. CASE UNCHANGED store /\ failed' = failed \cup {call[l].cert}
    BY CallMoves, <2>1, <2>3
  <2>4. QED
    BY <1>12, <2>2, <2>3 DEF DeleteStored, Unstore
<1>13. ASSUME NEW l \in Calls, RemoveCached(l) PROVE CAInv'
  <2>1. /\ \E v \in {"revoked", "notFound"} : CallEnds(l, v)
        /\ call[l].pc = "removeCached"
        /\ revoked' = revoked \cup {call[l].cert} \/ UNCHANGED revoked
        /\ UNCHANGED <<store, life, issue, persisted, revoking, failed>>
    BY <1>13 DEF RemoveCached
  <2>2. QED
    BY CallOver, <2>1
<1>14. ASSUME NEW r \in Replicas, CleanupExpired(r) PROVE CAInv'
  BY <1>14 DEF CleanupExpired
<1>15. ASSUME NEW r \in Replicas, Restart(r) PROVE CAInv'
  <2>1. /\ issue' \in [Certs -> IssueRec]
        /\ \A c \in Certs : \/ issue'[c] = issue[c]
                            \/ issue'[c].pc = "dead" /\ issue[c].pc # "issued"
    BY <1>15 DEF Restart, Issuing, IssueRec
  <2>2. /\ call' \in [Calls -> CallRec]
        /\ \A l \in Calls : call'[l] = call[l] \/ call'[l].pc = "dead"
    BY <1>15 DEF Restart, CallRec
  <2>3. UNCHANGED <<store, life, persisted, revoking, revoked, failed>>
    BY <1>15 DEF Restart
  <2>4. QED
    BY <2>1, <2>2, <2>3
<1>16. CASE Tick
  <2>1. /\ store' \in [Certs -> Nat] /\ life' \in [Certs -> Nat]
        /\ \A c \in Certs : store'[c] = Dec(store[c]) /\ life'[c] = Dec(life[c])
        /\ UNCHANGED <<issue, call, persisted, revoking, revoked, failed>>
    BY <1>16 DEF Tick, Dec
  <2>2. \A c \in Certs : /\ life[c] < store[c] + Second => life'[c] < store'[c] + Second
                         /\ life[c] < Second => life'[c] < Second
                         /\ store[c] = 0 => store'[c] = 0
    BY <2>1, CertTtlAssumption DEF Dec
  <2>3. QED
    BY <2>1, <2>2
<1>17. CASE UNCHANGED vars
  BY <1>17 DEF vars
<1> HIDE DEF CAInv, CATypes, CallsNameIssued, RevokedIssued, DeletedStays,
        RevokedNotStored, StoredAsLong, MissExplained, Looking, IssuePC, CallPC,
        NoIssue, NoCall
<1>18. ASSUME NEW c \in Certs, \/ RejectTtl(c) \/ CheckRateLimits(c) \/ Generate(c)
                                \/ Persist(c) \/ CacheIssued(c) \/ RecordIssuance(c)
       PROVE  CAInv'
  BY <1>4, <1>5, <1>6, <1>7, <1>8, <1>18
<1>19. ASSUME NEW l \in Calls, ReadCache(l) \/ ReadStore(l) PROVE CAInv'
  BY <1>2, <1>3, <1>10, <1>19
<1>20. QED
  BY <1>1, <1>9, <1>11, <1>12, <1>13, <1>14, <1>15, <1>16, <1>17, <1>18, <1>19
  DEF Next

\* The inductive invariant of the registry.
THEOREM CAInvariance == Spec => []CAInv
BY CAInitially, CAKeeps, PTL DEF Spec

\* revoke_certificate: whatever lookups, issuances, restarts and failures of
\* Redis overlap it, a certificate it reported revoked has no stored record
\* left, unless a command about that certificate failed.
THEOREM RevokedUnstored == Spec => []RevokedNotStored
BY CAInvariance, PTL DEF CAInv

\* validate_certificate: on every process and across restarts, a certificate
\* that was persisted, has at least a second left and was not revoked is found
\* valid, unless a command about it failed.
THEOREM IssuedIsValid == Spec => IssuedValidates
<1>1. ASSUME CAInv, [Next]_vars, NEW l \in Calls, call[l].pc = "answer",
             call'[l].pc = "invalid"
      PROVE  \/ call[l].cert \in failed
             \/ life[call[l].cert] < Second
             \/ call[l].cert \notin persisted
             \/ call[l].cert \in revoking
  <2>1. Answer(l)
    <3>1. CATypes
      BY <1>1 DEF CAInv
    <3>2. call'[l].pc # call[l].pc /\ call'[l].pc \notin Looking \cup {"dead"}
      BY <1>1 DEF Looking
    <3>3. ASSUME NEW m \in Calls, Call(m) \/ ReadCache(m) \/ ReadStore(m) \/ FillCache(m)
                                   \/ DeleteStored(m)
          PROVE  FALSE
      <4>1. CASE Call(m)
        BY <1>1, <3>1, <4>1 DEF Call, CATypes
      <4>2. CASE ReadCache(m) \/ ReadStore(m) \/ FillCache(m) \/ DeleteStored(m)
        <5>1. \/ CallGoto(m, "readStore") \/ CallGoto(m, "fillCache")
              \/ CallGoto(m, "removeCached")
              \/ Looked(m, TRUE) \/ Looked(m, FALSE)
          BY <4>2 DEF ReadCache, ReadStore, FillCache, DeleteStored
        <5>2. QED
          BY <1>1, <3>1, <5>1 DEF CallGoto, Looked, CATypes, CallRec
      <4>3. QED
        BY <3>3, <4>1, <4>2
    <3>4. ASSUME NEW m \in Calls, RemoveCached(m) PROVE FALSE
      <4>1. \E v \in {"revoked", "notFound"} : CallEnds(m, v)
        BY <3>4 DEF RemoveCached
      <4>2. QED
        BY <1>1, <3>1, <4>1, CallOver DEF CallPC
    <3>5. ASSUME NEW m \in Calls \ {l}, Answer(m) PROVE FALSE
      <4>1. \E v \in CallPC : CallEnds(m, v)
        BY <3>5 DEF Answer, CertificateStatus, CallPC
      <4>2. QED
        BY <1>1, <3>1, <4>1, CallOver
    <3>6. ASSUME NEW r \in Replicas, Restart(r) PROVE FALSE
      BY <1>1, <3>1, <3>6 DEF Restart, NoCall, CATypes
    <3>7. call' # call
      BY <3>2
    <3>8. QED
      BY <1>1, <3>3, <3>4, <3>5, <3>6, <3>7
      DEF Next, vars, RejectTtl, CheckRateLimits, Generate, Persist, CacheIssued,
          RecordIssuance, CleanupExpired, Tick
  <2>2. ~IsValid(l)
    <3>1. CATypes
      BY <1>1 DEF CAInv
    <3>2. CASE call[l].op = "info"
      <4>1. CertificateStatus(l) \in {"notFound", "active", "expired"}
        BY DEF CertificateStatus
      <4>2. CallEnds(l, CertificateStatus(l))
        BY <2>1, <3>2 DEF Answer
      <4>3. QED
        BY <1>1, <3>1, <4>1, <4>2, CallOver DEF CallPC
    <3>3. CASE call[l].op # "info" /\ IsValid(l)
      <4>1. CallEnds(l, "valid")
        BY <2>1, <3>3 DEF Answer
      <4>2. QED
        BY <1>1, <3>1, <4>1, CallOver DEF CallPC
    <3>4. QED
      BY <3>2, <3>3
  <2>3. QED
    <3>1. call[l].cert \in Certs /\ life \in [Certs -> Nat]
      BY <1>1 DEF CAInv, CATypes, CallsNameIssued, Looking
    <3>2. ~call[l].known \/ life[call[l].cert] = 0
      BY <2>2, <3>1 DEF IsValid
    <3>3. QED
      BY <1>1, <3>2, CertTtlAssumption DEF CAInv, MissExplained
<1>2. CAInv /\ [Next]_vars =>
        [\A l \in Calls :
          call[l].pc = "answer" /\ call'[l].pc = "invalid" =>
             \/ call[l].cert \in failed
             \/ life[call[l].cert] < Second
             \/ call[l].cert \notin persisted
             \/ call[l].cert \in revoking]_vars
  BY <1>1
<1>3. QED
  BY <1>2, CAInvariance, PTL DEF Spec, IssuedValidates

-----------------------------------------------------------------------------
(* The router's certificate                                                *)

EdgeTypes ==
    /\ cached \in 0 .. None
    /\ presented \in 0 .. None
    /\ asked \in Nat

\* The certificate the router presents was good for longer than renew_before
\* when it was answered, and it has aged only since.
PresentedAged ==
    presented # None => presented + asked > RenewBefore \/ asked > Poll

EdgeInv == EdgeTypes /\ PresentedAged

\* Every step of the router, the other callers and the authority keeps it.
LEMMA EdgeKeeps == EdgeInv /\ [EdgeNext]_edgeVars => EdgeInv'
<1> SUFFICES ASSUME EdgeInv, [EdgeNext]_edgeVars PROVE EdgeInv'
  OBVIOUS
<1> USE EdgeAssumption DEF EdgeInv, EdgeTypes, PresentedAged, None
<1>1. CASE EdgeDies
  BY <1>1 DEF EdgeDies
<1>2. CASE EdgeTick
  BY <1>2 DEF EdgeTick, Down
<1>3. ASSUME NEW a \in Callers, ServeCached(a) PROVE EdgeInv'
  BY <1>3 DEF ServeCached, Answered, NeedsRenewal
<1>4. ASSUME NEW a \in Callers, IssueServerCertificate(a) PROVE EdgeInv'
  BY <1>4 DEF IssueServerCertificate, Answered
<1>5. CASE UNCHANGED <<cached, presented, asked>>
  BY <1>5
<1>6. QED
  BY <1>1, <1>2, <1>3, <1>4, <1>5
  DEF EdgeNext, LoadRoot, SaveRoot, OtherIssue, Certificate, BeginIssue, IssueRefused,
      edgeVars

\* CertificateManager::certificate: with a renewal margin of at least the
\* router's interval, a router that is answered within it never presents an
\* expired certificate, whoever else asks and uses up the limiter.
THEOREM RouterUnexpired == EdgeSpec => []PresentedUnexpired
<1>1. EdgeInit => EdgeInv
  BY EdgeAssumption DEF EdgeInit, EdgeInv, EdgeTypes, PresentedAged, None
<1>2. EdgeInv => PresentedUnexpired
  BY EdgeAssumption DEF EdgeInv, EdgeTypes, PresentedAged, PresentedUnexpired, None
<1>3. QED
  BY <1>1, <1>2, EdgeKeeps, PTL DEF EdgeSpec

\* The mutex of certificate() is held across the issuance, and what its holder
\* found due stays due.
RenewalExclusive ==
    /\ ask \in [Callers -> {"idle", "lock", "issue"}]
    /\ \A a, b \in Callers : ask[a] = "issue" /\ ask[b] = "issue" => a = b
    /\ \A a \in Callers : ask[a] = "issue" => cached = None \/ cached <= RenewBefore

\* One caller at a time issues, and only when the certificate is due.
LEMMA RenewalKeeps ==
    ASSUME EdgeInv, RenewalExclusive, [EdgeNext]_edgeVars
    PROVE  RenewalExclusive'
<1> USE EdgeAssumption DEF EdgeInv, EdgeTypes, RenewalExclusive, None
<1>1. CASE EdgeDies
  BY <1>1 DEF EdgeDies
<1>2. CASE EdgeTick
  BY <1>2 DEF EdgeTick, Down
<1>3. ASSUME NEW a \in Callers, Certificate(a) \/ IssueRefused(a) PROVE RenewalExclusive'
  BY <1>3 DEF Certificate, IssueRefused
<1>4. ASSUME NEW a \in Callers, ServeCached(a) PROVE RenewalExclusive'
  BY <1>4 DEF ServeCached, Answered
<1>5. ASSUME NEW a \in Callers, BeginIssue(a) PROVE RenewalExclusive'
  BY <1>5 DEF BeginIssue, Locked, NeedsRenewal
<1>6. ASSUME NEW a \in Callers, IssueServerCertificate(a) PROVE RenewalExclusive'
  BY <1>6 DEF IssueServerCertificate, Answered
<1>7. CASE UNCHANGED <<cached, ask>>
  BY <1>7
<1>8. QED
  BY <1>1, <1>2, <1>3, <1>4, <1>5, <1>6, <1>7
  DEF EdgeNext, LoadRoot, SaveRoot, OtherIssue, edgeVars

\* However many callers of certificate() find it due at once, a certificate that
\* is not due is never replaced.
THEOREM FreshIsKept == EdgeSpec => FreshKept
<1>1. EdgeInit => EdgeInv /\ RenewalExclusive
  BY EdgeAssumption
  DEF EdgeInit, EdgeInv, EdgeTypes, PresentedAged, RenewalExclusive, None
<1>2. EdgeInv /\ RenewalExclusive /\ [EdgeNext]_edgeVars =>
        [cached' = Validity /\ cached # Validity
           => cached = None \/ cached <= RenewBefore]_edgeVars
  BY EdgeAssumption
  DEF EdgeInv, EdgeTypes, RenewalExclusive, EdgeNext, LoadRoot, SaveRoot, EdgeDies,
      OtherIssue, EdgeTick, Certificate, ServeCached, BeginIssue, IssueRefused,
      IssueServerCertificate, Down, None
<1>3. QED
  BY <1>1, <1>2, EdgeKeeps, RenewalKeeps, PTL DEF EdgeSpec, FreshKept
=============================================================================
