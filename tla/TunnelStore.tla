---------------------------- MODULE TunnelStore ----------------------------
(***************************************************************************)
(* The control API's tunnel lifecycle over the shared Redis keyspace:      *)
(* POST /v1/tunnels and DELETE /v1/tunnels/{id}                            *)
(* (crates/backendapi/src/handlers/tunnels.rs) and the TunnelStorage       *)
(* methods they call (crates/backendapi/src/storage.rs).                   *)
(*                                                                         *)
(* Requests run concurrently, on any number of API replicas.  Every await  *)
(* on a Redis command is a point where other requests interleave, so every *)
(* command is one action; nothing in the code makes a handler atomic.      *)
(*                                                                         *)
(* Time is relative: a key holds the ticks it still has to live, 0 meaning *)
(* that it does not exist, and Tick ages every key and every deadline a    *)
(* handler carries.  A tunnel id is a fresh v4 UUID of its create request, *)
(* so the request names the tunnel.  What a tunnel:{id} value says (owner, *)
(* subdomain, slot) never changes and is read off the request.  The order  *)
(* of a user's list is left out: it is the order of concurrent writes, and *)
(* its readers take the lists of all users in no order.                    *)
(***************************************************************************)
EXTENDS Integers, FiniteSets

CONSTANTS
    Creates,       \* create requests, and the tunnels they make
    Deletes,       \* delete requests
    Users,
    Subdomains,
    ReqTtls,       \* values of the request's "ttl" field
    NoTtl,         \* ... and its absence
    DefaultTtl,    \* config.default_tunnel_ttl
    MaxTtl,        \* config.max_tunnel_ttl
    FallbackTtl,   \* the literal 3600 that Tunnel::new is given
    CertTtl,       \* whole seconds the client certificate has left at issue
    Grace,         \* the 60 s that store_ssh_session adds to the session's TTL
    Second,        \* ticks in a second: TTLs are in whole seconds, times are not
    PortStart,     \* PORT_RANGE_START
    PortEnd,       \* PORT_RANGE_END
    MaxAttempts,   \* MAX_ATTEMPTS of allocate_port
    None           \* no holder, no target

ASSUME RequestAssumption ==
    /\ Creates \cap Deletes = {}
    /\ None \notin Creates \cup Deletes
    /\ IsFiniteSet(Creates)

ASSUME TtlAssumption ==
    /\ ReqTtls \subseteq Nat
    /\ NoTtl \notin Nat
    /\ DefaultTtl \in Nat /\ MaxTtl \in Nat /\ FallbackTtl \in Nat
    /\ CertTtl \in Nat \ {0}
    /\ Second \in Nat \ {0}
    /\ Grace \in Nat /\ Grace >= Second

ASSUME PortAssumption ==
    /\ PortStart \in Nat /\ PortEnd \in Nat
    /\ PortStart < PortEnd
    /\ MaxAttempts \in Nat \ {0}

Ports == PortStart .. PortEnd

VARIABLES
    \* the Redis keyspace
    tunnelKey,   \* tunnel:{id}         -> ticks left
    lookup,      \* tunnel_lookup:{user} -> its list of ids, no TTL
    subKey,      \* subdomain:{s}       -> [id, ttl]
    dnsKey,      \* slot:{fqdn}         -> ticks left
    portKey,     \* port:{p}            -> ticks left
    sessKey,     \* session:{id}        -> ticks left
    \* the usage meter
    opened,      \* TunnelOpened events per tunnel
    closed,      \* TunnelClosed events per tunnel
    \* create handlers
    arg,         \* the request: its user, subdomain and ttl field
    port,        \* port being tried, then the tunnel's slot
    tries,       \* attempts of allocate_port
    life,        \* ticks until the tunnel's expires_at
    storeTtl,    \* "ttl" computed once at the top of store_tunnel
    \* delete handlers
    target,      \* [user, id] of the request
    \* both
    pc,          \* where the handler is
    snap,        \* what it read last: the ids of the list, or the holder's id
    \* history, read by properties only
    resv,        \* ticks left of the lease allocate_port took for a tunnel
    cut          \* the delete requests that have deleted a subdomain key

redisVars  == <<tunnelKey, lookup, subKey, dnsKey, portKey, sessKey>>
meterVars  == <<opened, closed>>
createVars == <<arg, port, tries, life, storeTtl, resv>>
deleteVars == <<target, cut>>
vars == <<redisVars, meterVars, createVars, deleteVars, pc, snap>>

Requests == Creates \cup Deletes

CreatePC == {"validate", "available", "available2", "issue", "port", "store",
             "lookupGet", "lookupSet", "claim", "holder", "dns", "session"}
DeletePC == {"known", "get", "get2", "record", "subdomain", "fqdn",
             "listGet", "listSet"}
DonePC   == {"acked", "failed"}

NoHolder == [id |-> None, ttl |-> 0]

\* The request's ttl as create_tunnel validates it, and as Tunnel::new gets it.
ValidatedTtl(t) == IF t = NoTtl THEN DefaultTtl ELSE t
TunnelTtl(t)    == IF t = NoTtl THEN FallbackTtl ELSE t

Sub(t)  == arg[t].sub
User(t) == arg[t].user

HandlersTypeOK ==
    /\ pc \in [Requests -> CreatePC \cup DeletePC \cup DonePC]
    /\ \A t \in Creates : pc[t] \notin DeletePC
    /\ \A d \in Deletes : pc[d] \notin CreatePC
    /\ \A d \in Deletes : pc[d] \in DeletePC \ {"known"} =>
                            target[d].id \in Creates

TypeOK ==
    /\ tunnelKey \in [Creates -> Nat]
    /\ lookup \in [Users -> SUBSET Creates]
    /\ subKey \in [Subdomains -> [id : Creates \cup {None}, ttl : Nat]]
    /\ dnsKey \in [Subdomains -> Nat]
    /\ portKey \in [Ports -> Nat]
    /\ sessKey \in [Creates -> Nat]
    /\ opened \in [Creates -> Nat]
    /\ closed \in [Creates -> Nat]
    /\ arg \in [Creates -> [user : Users, sub : Subdomains,
                            ttl : ReqTtls \cup {NoTtl}]]
    /\ port \in [Creates -> Ports]
    /\ tries \in [Creates -> Nat]
    /\ life \in [Creates -> Nat]
    /\ storeTtl \in [Creates -> Nat]
    /\ target \in [Deletes -> [user : Users, id : Creates \cup {None}]]
    /\ HandlersTypeOK
    /\ snap \in [Requests -> SUBSET Creates]
    /\ resv \in [Creates -> Nat]
    /\ cut \in SUBSET Deletes

Init ==
    /\ tunnelKey = [t \in Creates |-> 0]
    /\ lookup = [u \in Users |-> {}]
    /\ subKey = [s \in Subdomains |-> NoHolder]
    /\ dnsKey = [s \in Subdomains |-> 0]
    /\ portKey \in [Ports -> {0, CertTtl}]   \* leased to earlier tunnels
    /\ sessKey = [t \in Creates |-> 0]
    /\ opened = [t \in Creates |-> 0]
    /\ closed = [t \in Creates |-> 0]
    /\ arg \in [Creates -> [user : Users, sub : Subdomains,
                            ttl : ReqTtls \cup {NoTtl}]]
    /\ port = [t \in Creates |-> PortStart]
    /\ tries = [t \in Creates |-> 0]
    /\ life = [t \in Creates |-> 0]
    /\ storeTtl = [t \in Creates |-> 0]
    /\ target \in [Deletes -> [user : Users, id : {None}]]
    /\ pc = [r \in Requests |-> IF r \in Creates THEN "validate" ELSE "known"]
    /\ snap = [r \in Requests |-> {}]
    /\ resv = [t \in Creates |-> 0]
    /\ cut = {}

\* num_seconds() drops the fraction of a second.
WholeSeconds(n) == n - (n % Second)

Goto(r, here, there) ==
    /\ pc[r] = here
    /\ pc' = [pc EXCEPT ![r] = there]

-----------------------------------------------------------------------------
(* POST /v1/tunnels                                                        *)

\* TTL check.  Quota, subdomain syntax and token refusals leave the keyspace
\* alone like every other early return: CreateFail.
ValidateRequest(t) ==
    /\ pc[t] = "validate"
    /\ pc' = [pc EXCEPT ![t] = IF ValidatedTtl(arg[t].ttl) > MaxTtl
                               THEN "failed" ELSE "available"]
    /\ UNCHANGED <<redisVars, meterVars, createVars, deleteVars, snap>>

\* is_subdomain_available: GET subdomain:{s} ...
CheckSubdomain(t) ==
    /\ pc[t] = "available"
    /\ pc' = [pc EXCEPT ![t] = IF subKey[Sub(t)].id = None
                               THEN "issue" ELSE "available2"]
    /\ snap' = [snap EXCEPT ![t] = {subKey[Sub(t)].id} \ {None}]
    /\ UNCHANGED <<redisVars, meterVars, createVars, deleteVars>>

\* ... then GET tunnel:{id} of the holder it named.
CheckHolderRecord(t) ==
    /\ pc[t] = "available2"
    /\ pc' = [pc EXCEPT ![t] = IF \E h \in snap[t] : tunnelKey[h] > 0
                               THEN "failed" ELSE "issue"]
    /\ snap' = [snap EXCEPT ![t] = {}]
    /\ UNCHANGED <<redisVars, meterVars, createVars, deleteVars>>

\* The CA issues the client certificate; allocate_port picks where to start.
IssueCertificate(t) ==
    /\ Goto(t, "issue", "port")
    /\ \E p \in PortStart .. PortEnd - 1 : port' = [port EXCEPT ![t] = p]
    /\ UNCHANGED <<redisVars, meterVars, deleteVars, snap,
                   arg, tries, life, storeTtl, resv>>

\* The next port to try, wrapping at the end of the range.
NextPortNoWrap(p) == p + 1
NextPort(p) == IF p = PortEnd THEN PortStart ELSE p + 1

\* What SET port:{p} NX succeeds on.
PortFreeWithoutNX(p) == TRUE
PortFree(p) == portKey[p] = 0

NextTry(n) == n + 1

\* One SET port:{p} NX EX of allocate_port.  The winner goes on to Tunnel::new,
\* which fixes expires_at; the others move to the next port.
AllocatePort(t) ==
    /\ pc[t] = "port"
    /\ \/ /\ PortFree(port[t])
          /\ portKey' = [portKey EXCEPT ![port[t]] = CertTtl]
          /\ resv' = [resv EXCEPT ![t] = CertTtl]
          /\ life' = [life EXCEPT ![t] = TunnelTtl(arg[t].ttl)]
          /\ pc' = [pc EXCEPT ![t] = "store"]
          /\ tries' = [tries EXCEPT ![t] = 0]
          /\ UNCHANGED port
       \/ /\ ~PortFree(port[t])
          /\ tries' = [tries EXCEPT ![t] = NextTry(@)]
          /\ port' = [port EXCEPT ![t] = NextPort(@)]
          /\ pc' = [pc EXCEPT ![t] = IF NextTry(tries[t]) < MaxAttempts
                                     THEN "port" ELSE "failed"]
          /\ UNCHANGED <<portKey, resv, life>>
    /\ UNCHANGED <<tunnelKey, lookup, subKey, dnsKey, sessKey, meterVars,
                   deleteVars, snap, arg, storeTtl>>

\* store_tunnel: SETEX tunnel:{id} for the whole seconds left.  Redis refuses an
\* expiry that is not positive, which is what a tunnel in its last second or
\* past expires_at asks for.
StoreRecord(t) ==
    /\ pc[t] = "store"
    /\ \/ /\ WholeSeconds(life[t]) > 0
          /\ tunnelKey' = [tunnelKey EXCEPT ![t] = WholeSeconds(life[t])]
          /\ storeTtl' = [storeTtl EXCEPT ![t] = WholeSeconds(life[t])]
          /\ pc' = [pc EXCEPT ![t] = "lookupGet"]
       \/ /\ WholeSeconds(life[t]) = 0
          /\ pc' = [pc EXCEPT ![t] = "failed"]
          /\ UNCHANGED <<tunnelKey, storeTtl>>
    /\ UNCHANGED <<lookup, subKey, dnsKey, portKey, sessKey, meterVars,
                   deleteVars, snap, arg, port, tries, life, resv>>

\* GET tunnel_lookup:{user}
StoreLookupGet(t) ==
    /\ Goto(t, "lookupGet", "lookupSet")
    /\ snap' = [snap EXCEPT ![t] = lookup[User(t)]]
    /\ UNCHANGED <<redisVars, meterVars, createVars, deleteVars>>

\* SET tunnel_lookup:{user} to what was read plus the new id.
StoreLookupSet(t) ==
    /\ Goto(t, "lookupSet", "claim")
    /\ lookup' = [lookup EXCEPT ![User(t)] = snap[t] \cup {t}]
    /\ snap' = [snap EXCEPT ![t] = {}]
    /\ UNCHANGED <<tunnelKey, subKey, dnsKey, portKey, sessKey, meterVars,
                   createVars, deleteVars>>

\* What SET subdomain:{s} NX succeeds on.
SubdomainFreeWithoutNX(s) == TRUE
SubdomainFree(s) == subKey[s].id = None

\* SET subdomain:{s} NX EX
ClaimSubdomain(t) ==
    /\ pc[t] = "claim"
    /\ \/ /\ SubdomainFree(Sub(t))
          /\ subKey' = [subKey EXCEPT ![Sub(t)] =
                          [id |-> t, ttl |-> storeTtl[t]]]
          /\ pc' = [pc EXCEPT ![t] = "dns"]
       \/ /\ ~SubdomainFree(Sub(t))
          /\ pc' = [pc EXCEPT ![t] = "holder"]
          /\ UNCHANGED subKey
    /\ UNCHANGED <<tunnelKey, lookup, dnsKey, portKey, sessKey, meterVars,
                   createVars, deleteVars, snap>>

\* GET subdomain:{s}: the holder is another tunnel, or nobody any more.  The
\* "same holder" branch is for a re-store, which no handler performs.
ReadHolder(t) ==
    /\ subKey[Sub(t)].id # t
    /\ Goto(t, "holder", "failed")
    /\ UNCHANGED <<redisVars, meterVars, createVars, deleteVars, snap>>

\* SETEX slot:{fqdn}; store_tunnel returns and the meter records the opening.
StoreDnsSlot(t) ==
    /\ Goto(t, "dns", "session")
    /\ dnsKey' = [dnsKey EXCEPT ![Sub(t)] = storeTtl[t]]
    /\ opened' = [opened EXCEPT ![t] = @ + 1]
    /\ UNCHANGED <<tunnelKey, lookup, subKey, portKey, sessKey, closed,
                   createVars, deleteVars, snap>>

\* The TTL of session:{id}: the whole seconds left of the tunnel, at least one,
\* and the grace.
AtLeastASecond(n) == IF n > Second THEN n ELSE Second
SessionTtlWithoutGrace(left) == AtLeastASecond(WholeSeconds(left))
SessionTtl(left) == AtLeastASecond(WholeSeconds(left)) + Grace

\* SETEX session:{id}, then the 200 response.
StoreSshSession(t) ==
    /\ Goto(t, "session", "acked")
    /\ sessKey' = [sessKey EXCEPT ![t] = SessionTtl(life[t])]
    /\ UNCHANGED <<tunnelKey, lookup, subKey, dnsKey, portKey, meterVars,
                   createVars, deleteVars, snap>>

\* Any await may fail (a refused request, the CA, Redis) or never resume (the
\* client hung up and the handler was dropped).  What was written stays.
CreateFail(t) ==
    /\ pc[t] \in CreatePC
    /\ pc' = [pc EXCEPT ![t] = "failed"]
    /\ snap' = [snap EXCEPT ![t] = {}]
    /\ UNCHANGED <<redisVars, meterVars, createVars, deleteVars>>

-----------------------------------------------------------------------------
(* DELETE /v1/tunnels/{id}                                                 *)

Listed(t) == t \in lookup[User(t)]

\* A client can name a tunnel that was returned to its owner or that
\* GET /v1/tunnels lists.
DeleteRequest(d, t) ==
    /\ pc[t] = "acked" \/ Listed(t)
    /\ Goto(d, "known", "get")
    /\ target' = [target EXCEPT ![d] = [user |-> target[d].user, id |-> t]]
    /\ UNCHANGED <<redisVars, meterVars, createVars, cut, snap>>

\* The handler's GET tunnel:{id} and its ownership check.
DeleteCheckOwner(d) ==
    /\ pc[d] = "get"
    /\ pc' = [pc EXCEPT ![d] =
                IF tunnelKey[target[d].id] > 0
                   /\ User(target[d].id) = target[d].user
                THEN "get2" ELSE "failed"]
    /\ UNCHANGED <<redisVars, meterVars, createVars, deleteVars, snap>>

\* TunnelStorage::delete_tunnel reads the record again: gone means
\* "deleted": false.
DeleteReadAgain(d) ==
    /\ pc[d] = "get2"
    /\ pc' = [pc EXCEPT ![d] =
                IF tunnelKey[target[d].id] > 0 THEN "record" ELSE "failed"]
    /\ UNCHANGED <<redisVars, meterVars, createVars, deleteVars, snap>>

\* DEL tunnel:{id}
DeleteRecord(d) ==
    /\ Goto(d, "record", "subdomain")
    /\ tunnelKey' = [tunnelKey EXCEPT ![target[d].id] = 0]
    /\ UNCHANGED <<lookup, subKey, dnsKey, portKey, sessKey, meterVars,
                   createVars, deleteVars, snap>>

\* DEL subdomain:{s}, whoever holds it.
DeleteSubdomain(d) ==
    /\ Goto(d, "subdomain", "fqdn")
    /\ subKey' = [subKey EXCEPT ![Sub(target[d].id)] = NoHolder]
    /\ cut' = cut \cup {d}
    /\ UNCHANGED <<tunnelKey, lookup, dnsKey, portKey, sessKey, meterVars,
                   createVars, target, snap>>

\* DEL slot:{fqdn}
DeleteDnsSlot(d) ==
    /\ Goto(d, "fqdn", "listGet")
    /\ dnsKey' = [dnsKey EXCEPT ![Sub(target[d].id)] = 0]
    /\ UNCHANGED <<tunnelKey, lookup, subKey, portKey, sessKey, meterVars,
                   createVars, deleteVars, snap>>

\* GET tunnel_lookup:{user}
DeleteLookupGet(d) ==
    /\ Goto(d, "listGet", "listSet")
    /\ snap' = [snap EXCEPT ![d] = lookup[User(target[d].id)]]
    /\ UNCHANGED <<redisVars, meterVars, createVars, deleteVars>>

\* SET tunnel_lookup:{user} to what was read minus the id; then the meter
\* records the closing.
DeleteLookupSet(d) ==
    /\ Goto(d, "listSet", "acked")
    /\ lookup' = [lookup EXCEPT ![User(target[d].id)] =
                    snap[d] \ {target[d].id}]
    /\ snap' = [snap EXCEPT ![d] = {}]
    /\ closed' = [closed EXCEPT ![target[d].id] = @ + 1]
    /\ UNCHANGED <<tunnelKey, subKey, dnsKey, portKey, sessKey, opened,
                   createVars, deleteVars>>

DeleteFail(d) ==
    /\ pc[d] \in DeletePC \ {"known"}
    /\ pc' = [pc EXCEPT ![d] = "failed"]
    /\ snap' = [snap EXCEPT ![d] = {}]
    /\ UNCHANGED <<redisVars, meterVars, createVars, deleteVars>>

-----------------------------------------------------------------------------
Dec(n) == IF n > 0 THEN n - 1 ELSE 0

\* A key set with EX goes when its time is up; one set without stays.
AgedHolderWithoutEX(k) == k
AgedHolder(k) == IF k.ttl > 1 THEN [id |-> k.id, ttl |-> k.ttl - 1] ELSE NoHolder

\* Time passes; Redis drops the keys that run out.
Tick ==
    /\ tunnelKey' = [t \in Creates |-> Dec(tunnelKey[t])]
    /\ subKey' = [s \in Subdomains |-> AgedHolder(subKey[s])]
    /\ dnsKey' = [s \in Subdomains |-> Dec(dnsKey[s])]
    /\ portKey' = [p \in Ports |-> Dec(portKey[p])]
    /\ sessKey' = [t \in Creates |-> Dec(sessKey[t])]
    /\ life' = [t \in Creates |-> Dec(life[t])]
    /\ resv' = [t \in Creates |-> Dec(resv[t])]
    /\ UNCHANGED <<lookup, meterVars, arg, port, tries, storeTtl, deleteVars,
                   pc, snap>>

CreateStep(t) ==
    \/ ValidateRequest(t) \/ CheckSubdomain(t) \/ CheckHolderRecord(t)
    \/ IssueCertificate(t) \/ AllocatePort(t)
    \/ StoreRecord(t) \/ StoreLookupGet(t) \/ StoreLookupSet(t)
    \/ ClaimSubdomain(t) \/ ReadHolder(t) \/ StoreDnsSlot(t)
    \/ StoreSshSession(t)

DeleteStep(d) ==
    \/ DeleteCheckOwner(d) \/ DeleteReadAgain(d) \/ DeleteRecord(d)
    \/ DeleteSubdomain(d) \/ DeleteDnsSlot(d) \/ DeleteLookupGet(d)
    \/ DeleteLookupSet(d)

Next ==
    \/ \E t \in Creates : CreateStep(t) \/ CreateFail(t)
    \/ \E d \in Deletes, t \in Creates : DeleteRequest(d, t)
    \/ \E d \in Deletes : DeleteStep(d) \/ DeleteFail(d)
    \/ Tick

Spec == Init /\ [][Next]_vars

\* A handler that was started is polled until it finishes, and time passes.
Fairness ==
    /\ \A t \in Creates : WF_vars(CreateStep(t))
    /\ \A d \in Deletes : WF_vars(DeleteStep(d))
    /\ WF_vars(Tick)

FairSpec == Spec /\ Fairness
-----------------------------------------------------------------------------
(* What the handlers promise                                               *)

\* The creates that have won SET subdomain:{s} NX and were not refused later.
Claimed(t) == pc[t] \in {"dns", "session", "acked"}

\* A delete request for another tunnel has removed t's subdomain key.
CutByAnother(t) ==
    \E d \in cut : target[d].id # t /\ Sub(target[d].id) = Sub(t)

\* SET port:{p} NX EX: as long as the leases that allocate_port took for two
\* tunnels both run, the tunnels have different slots, whatever expires,
\* fails or is deleted in between.
LeasesExclusive ==
    \A t, w \in Creates :
        t # w /\ resv[t] > 0 /\ resv[w] > 0 => port[t] # port[w]

\* SET subdomain:{s} NX EX: while the record of a tunnel that won its
\* subdomain lives, the routing key names that tunnel, unless a DELETE of
\* another tunnel of the same subdomain removed the key.
RoutingKeyKept ==
    \A t \in Creates :
        Claimed(t) /\ tunnelKey[t] > 0 =>
            subKey[Sub(t)].id = t \/ CutByAnother(t)

\* store_ssh_session: "+60s grace so the record does not vanish exactly at
\* tunnel expiry mid-handshake".  The TTL is cut to whole seconds, expires_at is
\* not: a tunnel that was returned to its owner has its session record until
\* expires_at, the moment from which the hub refuses the session anyway.
SessionUntilExpiry ==
    \A t \in Creates : pc[t] = "acked" /\ life[t] > 0 => sessKey[t] > 0

\* allocate_port gives up after MAX_ATTEMPTS and every other step is straight
\* line code: each create and delete handler ends.
HandlersEnd ==
    /\ \A t \in Creates : <>(pc[t] \in DonePC)
    /\ \A d \in Deletes : pc[d] = "get" ~> pc[d] \in DonePC

\* A create that failed half way is never rolled back; the TTLs do it.  Its
\* record, its hold on the subdomain and its port lease all end.
LeftoversExpire ==
    \A t \in Creates :
        pc[t] = "failed" ~>
            tunnelKey[t] = 0 /\ subKey[Sub(t)].id # t /\ resv[t] = 0

\* storage_isolation.rs: "A subdomain can belong to at most ONE active
\* tunnel": of the records the edge finds by scanning the lists, at most one
\* names the subdomain of an acknowledged tunnel once the handlers are done.
OneActiveTunnelPerSubdomain ==
    \A t, w \in Creates :
        /\ t # w /\ Sub(t) = Sub(w)
        /\ pc[t] = "acked" /\ tunnelKey[t] > 0 /\ Listed(t)
        /\ pc[w] \in DonePC
        => ~(tunnelKey[w] > 0 /\ Listed(w))

\* storage_isolation.rs: "an active tunnel's subdomain must NOT be available":
\* is_subdomain_available refuses the subdomain of every acknowledged tunnel
\* that lives.
ActiveSubdomainUnavailable ==
    \A t \in Creates :
        pc[t] = "acked" /\ tunnelKey[t] > 0 =>
            /\ subKey[Sub(t)].id # None
            /\ tunnelKey[subKey[Sub(t)].id] > 0

\* storage_isolation.rs: "slot allocation never hands the same port to two
\* tunnels" that live at the same time.
OneTunnelPerSlot ==
    \A t, w \in Creates :
        t # w /\ tunnelKey[t] > 0 /\ tunnelKey[w] > 0 => port[t] # port[w]

\* The list GET /v1/tunnels reads, and the edge and the hub scan, has every
\* tunnel that was returned to its owner and still lives.
AckedIsListed ==
    \A t \in Creates : pc[t] = "acked" /\ tunnelKey[t] > 0 => Listed(t)

\* billing.rs: TunnelClosed is "paired with a preceding" TunnelOpened.
ClosePairedWithOpen ==
    \A t \in Creates : closed[t] <= opened[t]

\* tunnels.rs on the request's ttl: "uses default if not specified".
LivesAsLongAsValidated ==
    \A t \in Creates : life[t] <= ValidatedTtl(arg[t].ttl)
=============================================================================
