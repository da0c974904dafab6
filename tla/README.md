# Formal models of FleetingDNS

FleetingDNS gives a developer a public name for a local service. A client asks
the control API for a *tunnel*; the API issues a short-lived certificate, leases
a *slot* (a TCP port of the edge), stores the tunnel in Redis and returns. The
client opens an SSH connection to the *edge hub* and requests a reverse forward
of its slot; the *edge router* resolves the SNI of inbound HTTPS connections to a
tunnel and splices them to the slot; a DNS server answers for the slots' names.
The parts share one Redis keyspace and no lock, every `await` is a point where
they interleave, and most state is ended by a TTL. This directory holds TLA+
models of those parts, their TLC configurations, and TLAPS proofs. Paths below
are relative to `src/crates/` unless they start with `cmd/`.

## 1. Inventory

| Component | State | Operations | Interacts with | What is hard | What makes it correct |
|---|---|---|---|---|---|
| Tunnel registry: `backendapi/src/storage.rs`, `handlers/tunnels.rs` | Redis keys `tunnel:`, `tunnel_lookup:`, `subdomain:`, `slot:`, `port:`, `session:`; billing events | create, delete, list | CA, quota, hub and router (which read the keys) | 5-8 commands per request, no transaction, no rollback; TTLs of different lengths | leases exclude each other; one holder per subdomain; a session until the tunnel expires; leftovers expire |
| Tunnel health endpoints: `handlers/tunnels.rs` | none; reads record, certificate, `tunnel:live:` | single and bulk health | registry, CA, hub | three awaits beside heartbeats; markers outlive listeners | healthy means served lately |
| Edge hub: `edgehub/src/ssh_server.rs` | sessions, `forward_listeners` per session, three tasks per listener, `SlotActivity`, a gauge, `tunnel:live:`; host key file; attempts table | start, authenticate, forward, cancel, drop, heartbeat, reap | registry keys, router (dials the slots) | tasks aborted asynchronously; two teardown policies; re-binds; a lock released around Redis; a crash in the key file | no zombies; a listener serves its own tunnel; guesses are bounded; the host key stays |
| Edge router: `cmd/edgehub-bin`, `common/src/redis/tunnel.rs` | a connection's progress; `session_grant:` keys | route by SNI, check grant, dial, splice | registry, hub | the look-up is old when the slot is dialled | viewers reach the tunnel they asked for |
| Shutdown: `common/src/shutdown.rs`, `cmd/fleetingdns-ctl` | state, broadcast channel, connection count, signal tasks, control socket | start, subscribe, signals, socket commands, `shutdown`, wait | every daemon's main | signals at any time; lost broadcasts; timeouts | delivered signals stop the process; graceful ones drain |
| Certificate authority: `edf-ca/src/ca.rs`, `lib.rs`, `handlers/certificates.rs` | local map, `edf-ca:cert:` keys, rate limiter | issue, validate, inspect, revoke, clean up | registry (issues for creates) | map and store written apart; restart; check-then-record | issued validates, revoked does not, limit holds |
| Edge certificates: `edgehub/src/certificate_manager.rs` | cached certificate, root, hourly budget | ask, renew | CA code; a router is assumed (only tests call the manager) | renewal races expiry; restarts | a valid certificate is presented |
| Usage quotas: `backendapi/src/quota_enforcement.rs` | cached `UserUsage` | check, record, report, reset | registry | two locks per request, whole-record writes | no phantom usage, no early denial, limit holds |
| API rate limiting: `backendapi/src/rate_limiting.rs` | windows and blocks per address, a token bucket per token and kind | check, clean up | every request | fixed windows; requests and clean-up rewrite one entry | bounded rate, blocks hold, Retry-After is enough |
| API layers: `auth/src/lib.rs`, `backendapi/src/middleware`, `error.rs` | tokens, the request's progress; the circuit breaker | authenticate, time out, map errors | all handlers | a reply passes only the layers outside the one that made it; two clocks | tokens live as long as promised; overload says when |
| Service plans: `handlers/admin.rs`, `user_service_plan.rs` | plans, assignments (PostgreSQL) | create, update, delete, list, get, assign, request a change, own and available plans | database | statements without a transaction; the request timeout between two | names unique, one active plan, except in races |
| Migrations: `migration/`, `models/` | catalogue, applied versions | up, down, fresh, status | PostgreSQL | keys of one migration guard tables of the other; a death at any statement | every command works from every state |
| DNS server: `dnsd/src/dns_handler.rs`, `lib.rs` | answer cache, sockets | query, purge, stop | Redis `slot:` keys | stale cache; a stop under traffic | answers follow the keys; ids match; the server stops |
| DNSSEC: `dnsd/src/sign.rs` | key lists, signature cache | generate, rotate, sign, validate | DNS server | rotation between signing and tagging; keys expire when the next are due | the tag names the signer; no key gap |
| Compression and metrics: `dnsd/src/response_compression.rs`, `metrics_manager.rs` | pattern table, totals, sample window | compress, record | DNS server (metrics only: no binary calls the compressor) | look-up and insert under separate locks | the table keeps to its limit |
| DDoS protection: `common/src/ddos_protection.rs` | counters and blocks per address | check, close, clean up | none in this tree | two locks per check | counts are exact, blocks hold |
| CLI: `cmd/edf-cli` | session file, key files, SSH link | request, open, keep alive, clean up; forward channels | API, hub, local service | commands share files without a lock; kills and failing writes; a silent peer; one event loop | live keys kept, named keys whole, tunnels held to expiry, channels end |

The rest (statistics and configuration, telemetry, TLS and Redis helpers, stub
crates, one-shot commands, and files no target compiles) keeps no protocol
state; `PROJECT.json` lists it with the reason it is left out.

## 2. Modules

```
Registry  <--refines--  TunnelStore                 (TunnelStoreRefinement)
   |
   +--> TunnelPlane --> HubListeners <-- TunnelHealth        HubAuth   Shutdown
QuotaTracker      CertAuthority   EdgeCerts
RateLimiter  ApiPipeline  CircuitBreaker  ConnectionLimiter  ServicePlans  Migrations
DnsServer  DnssecSigner  ResponseCompression         EdfClient  LocalForward
```

| Proof module | about |
|---|---|
| TunnelStoreProofs | TunnelStore, TunnelStoreRefinement |
| TunnelPlaneProofs | HubListeners, TunnelHealth, TunnelPlane |
| HubAuthProofs | HubAuth |
| CertProofs | CertAuthority, EdgeCerts |
| QuotaTrackerProofs | QuotaTracker |
| ApiProofs | CircuitBreaker, ConnectionLimiter, ApiPipeline, RateLimiter, ServicePlans, Migrations |
| DnsProofs | DnsServer, ResponseCompression, DnssecSigner |
| ClientProofs | EdfClient, LocalForward |

**TunnelStore** is `create_tunnel` and `delete_tunnel` with every Redis command
they run as one action (`StoreRecord`, `StoreLookupGet`, `ClaimSubdomain`,
`DeleteSubdomain`, ...), in program order, with `CreateFail` and `DeleteFail`
for an error, a refusal or a dropped handler at any await. A key holds the ticks
it has left, 0 meaning absent, and `Tick` ages keys and the deadlines handlers
carry. `Second` ticks are a second: deadlines keep the fraction, and a TTL is
what `num_seconds()` leaves of it (`WholeSeconds`). The create request names its
tunnel (ids are fresh UUIDs). The lookup list is a set: its order is the order of
concurrent writes and no reader relies on it. Ports may be leased from the start, to tunnels created before. `resv` and
`cut` are history.

**Registry** is what the other parts may rely on: leases of slots that exclude
each other, tunnels that are published once and lapse, session keys.
**TunnelStoreRefinement** maps a TunnelStore state to it (`SlotOf`,
`CanAuthenticate`) and states `ImplementsRegistry`.

**HubListeners** is the session's request handlers and the tasks of each
listener. A *bind* is one successful `tcpip_forward`. An aborted task holds what
it owns until the runtime drops it (`Reclaim`); `connection_closed` is the two
writes it is in the code (`ViewerClose`, `StampClose`). The answer of the slot
look-up is an argument of `ForwardLookup`, so the module stands alone (every
answer is possible) and composes.

**TunnelPlane** composes HubListeners with Registry and adds the router and the
session grants. Look-ups return any matching live record or nothing, because
lists can lose entries and Redis can fail. **TunnelHealth** composes it with the
health endpoints, each of their awaits a step.

**HubAuth** is the start of the SSH server (host key read, generated, written in
two steps with a crash between any two; choice of the backend) and
`auth_publickey` with the Redis await between its two looks at the attempts
table.

**Shutdown** is the framework as `edgehub-bin` runs it: start, subscribe, serve,
wait, exit, with signals from the OS, the API and the control socket, on which
one `fleetingdns-ctl` connects, sends a command and reads the answer.

**CertAuthority** is issuance with its limiter, the two-level registry and its
look-up, status and revocation, clean-up, restarts and failing Redis commands. The
store's TTL is in whole seconds, a certificate's end is not.
**EdgeCerts** is the router's certificate manager over the same code: one mutex
for the whole of `certificate()`, a renewal when less than `RenewBefore` is
left, restarts that may lose the root. In this tree only tests call the manager:
that a router asks it every `Poll` is an assumption about its future caller,
taken from the manager's comment.

**QuotaTracker** is one user's cached usage and the requests that check, record,
report and reset it, a step for each critical section.

**RateLimiter** keeps per address a window, a count and a block, per token and
kind a bucket in the form of `governor` (how far ahead of schedule it is), and
what the middleware answers. **ApiPipeline** takes a request through the layers
of `create_router` from the outside in; its clock has fractions of a second, which
the `expires_at` of a login keeps and the stamp in its token loses. **CircuitBreaker** and
**ConnectionLimiter** have a step for each lock or atomic their callers take.
**ServicePlans** has a step for each SQL statement and drops a handler between
any two (the request timeout). **Migrations** has the two migrations as sequences
of statements over a catalogue of tables, indexes and foreign keys; an error or
the death of the runner rolls the transaction back.

**DnsServer** is one loop: receive, cache, parse, Redis, build, store, send,
then `select!` again; entries count down and `MaxDelay` bounds one await.
**DnssecSigner** runs rotations and signatures on any thread, each lock a step: a
signature is looked up, made and cached in three.
**ResponseCompression** is concurrent calls of `compress_response` over the
shared pattern table, and the metrics' sample window.

**EdfClient** runs commands in several terminals over one session file and the
key files, and the session's connect, keep-alive and expiry loop. Each file
operation is a step; `fs::write` is two, it empties the file and fills it; any of
them may fail (`IoFails`), which ends the command with the files as they are, and
a command may be killed between any two. **LocalForward** is russh's single event
loop and the tasks `SshClientHandler` spawns for channels, with both arms of
`copy_bidirectional` (`CopyEnds`, `CopyFails`) and the loss of the transport.

An `MCx` module extends the specifications of one run and adds symmetry sets or
the values of function constants. Where a run holds several components that
share no state (`MCApi`, `MCDns`, `MCClient`, `MCHubListeners`,
`MCCertAuthority`) a variable `part` (or `side`) chooses one of them at the start, so that
no product of unrelated states is explored. In each module, a definition with a suffix
(`PortFreeWithoutNX`, `DropKeepingTasks`) that precedes the one it is named for
is a deliberately wrong variant; replacing the definition by it makes TLC refute
the property it belongs to (`mutants` in `PROJECT.json`).

## 3. Runs

| Run | Properties | Bounds, and why they suffice |
|---|---|---|
| `store_safety` | `TypeOK`, `LeasesExclusive`, `RoutingKeyKept`, `SessionUntilExpiry`, `ImplementsRegistry` | two creates and a delete, two users, one subdomain, two ports of which any may be leased to an earlier tunnel, a TTL at and one above the maximum, a lease shorter than the tunnel, ticks of half a second and a life of a second and a half: the same name and the last port are contended, the search wraps and is exhausted, every key expires between any two commands |
| `store_liveness` | `LeftoversExpire` | two creates, a delete, TTL 1 |
| `hub_safety` | `ListenersInTable`, `HealthyIsServed`, `GuessesBounded`, `HostKeyKept` | two sessions, one slot, two binds, one tunnel of each policy: the slot is re-bound by the same and by the other session; a bulk health request of two tunnels; two addresses, two connections, two attempts and a lockout of three ticks; three starts |
| `hub_liveness` | `NoZombies`, `MarkersEnd` | the same hub with a marker of one tick |
| `plane_safety` | `SlotServedByOwner` | one session, two tunnels of one subdomain, two slots, one viewer, one tunnel protected |
| `shutdown` | `DeliveredStops` | two servers, one connection, every source and kind of signal, one control tool |
| `cert_authority` | `RevokedNotStored`, `IssuedValidates`, `PresentedUnexpired` | two processes, two issuances, two validate, status or revoke calls, one restart, failing commands, limit 1, ticks of half a second; on the edge two callers, a validity of two renewal periods, two roots, an issuance budget of two per three ticks |
| `dns` | `AnswersFresh`, `ReplyEchoesQuery`, `ServerStops`, `TagNamesSigner`, `SignatureRecent`, `KeyUntilDue`, `PatternsBounded` | one name whose slot is set, changed, deleted and expires, queries that differ in id only, in type, or are broken, cache and slot lives of two ticks; one algorithm with rotations every two ticks, five key ids, a rotation that hangs or fails, a signature cached late; two concurrent compressions of six responses over a table of two patterns; a window of three samples |
| `api` | `IpRateBounded`, `BlockHolds`, `BlockedStayOut`, `BreakerTrips`, `ExpiryAsPromised`, `NamesOverlap`, `LoneAssignSingle`, `MigrationsSucceed`, `QuotaTypeOK`, `QuietResetSticks`, `DeniedOnlyAtLimit` | one address and one token over two windows and a block; three tasks of one peer, two connections allowed; three callers of the breaker around threshold 2; one request and one token of one second over three seconds of three ticks; three plan requests, two plans, two names, one user; any sequence of migration commands; three requests of every kind over two counters with limit 2, one reset: two race for the last unit and a third is refused |
| `client` | `HeldToExpiry`, `NamedKeyWhole`, `LiveKeyKept`, `ChannelsEnd`, `DataPassed` | two commands in all, in one terminal or in two, two sessions, one fault (a kill or a failing file operation), four ticks against a session of two; two channels of two messages, broken copies and a lost transport |
| `store_slots` (violation) | `OneTunnelPerSlot` | a port lease shorter than the tunnel's TTL, as with the defaults (30 min and 3600 s) |
| `client_half_close` (violation) | `EndsWithEither` | one channel of one message, fair tasks, peers that owe nothing |

The violations are findings (`findings` in `PROJECT.json` quotes the lines that
say otherwise): a slot is leased for the certificate's validity and not for the
tunnel's, and a forwarded connection that the local service has ended is kept
until the public side ends too, where a comment says it completes "when either
side closes". In every other run TLC finds no error.

Deadlock is checked except in `cert_authority`, `client` and `client_half_close`,
where all requests may have been answered; `MCApi` steps in place once those of
the quota have been.

Some properties leave out the race that makes the stronger statement false:
`RoutingKeyKept` the delete of another tunnel, `DeliveredStops` the signal before
`subscribe`, `BreakerTrips` the overlapping success, `NamesOverlap` and
`LoneAssignSingle` the overlapping requests, `BlockedStayOut` the tasks past
`is_blocked`. They say that nothing else goes wrong; of the race itself only the
table of refuted statements below speaks.

These also hold on the instances of the runs. They are plainer, or
implied, and are stated for the reader and for proofs (`ListenerOfItsTunnel`,
`HeartbeatWithListener`, `FreshKept`, `ConnectionsCounted` and `MyPlanFound` are
proved, section 5): the type invariants
(`HubTypeOK`, `PlaneTypeOK`, `ShutdownTypeOK`, `CATypeOK`, `ClientTypeOK`,
`RateTypeOK`, `DnsTypeOK`, `SignTypeOK`); `ListenerOfItsTunnel`, `IdleReaped`,
`GaugeCountsListeners`, `HeartbeatWithListener` of HubListeners; `HandlersEnd`
of TunnelStore; `SequentialQuota` of QuotaTracker; `DrainingHonoured` of
Shutdown; `OvershootBounded` of CertAuthority (also with two issuances at a
time in a process); `FreshKept` of EdgeCerts; `CachePurged`,
`PercentilesCurrent` of the DNS modules; `RetrySuffices`, `ConnectionsCounted`,
`OverloadTellsWhen`, `MyPlanFound` of the API modules; `DropNoticed`, `KeysNamed`
of EdfClient.

### Fairness

* `FairSpec` (TunnelStore): weak fairness of each handler's steps, since a
  spawned future is polled until it ends, and of the clock. None of `CreateFail`,
  and a client owes no request.
* `HubFairSpec`: weak fairness of the tasks the runtime polls or drops, of the
  second write of `connection_closed`, of the end of connections whose session
  is gone (their channel is closed), and of the clock. None of clients or viewers.
* `ShutdownFairSpec`: weak fairness of main and its servers, and of the clock.
  Connections may stay open for ever, and so may the control tool's.
* `DnsFairness`: weak fairness of the handler's awaits, the purge task and the
  clock; strong fairness of the stop branch, because `select!` polls its ready
  branches in random order, so a stop that is pending each time the loop comes
  back is taken with probability one. Weak fairness would not do: while a packet
  is handled the branch is not enabled.
* `ForwardFairness`: weak fairness of the event loop and of each spawned task
  (`TaskFairness`), and of both peers ending their streams (`PeerFairness`); a
  channel whose peers never end it never ends, which is what a tunnel is for. No
  copy has to fail and no transport to break. `client_half_close` has the fairness
  of the tasks only: it asks what one peer's end does.

### Stronger statements TLC refutes

The modules also state what a reader might expect and the code does not give.
TLC refutes each of them on instances like those above; they are kept next to
the property that does hold.

| Module | Statement | Why it fails |
|---|---|---|
| TunnelStore | `AckedIsListed` | the lookup list is read and written back without a transaction |
| TunnelStore | `ClosePairedWithOpen` | two deletes of one tunnel both pass the read, and the record of a failed create can be deleted |
| TunnelStore | `OneActiveTunnelPerSubdomain` | the record is written before the name is claimed |
| TunnelStore | `ActiveSubdomainUnavailable` | a lost claim leaves a record whose deletion frees the winner's name (`storage.rs:344`); `tests/storage_isolation.rs:57` says otherwise |
| TunnelStore | `LivesAsLongAsValidated` | a missing TTL is validated as the default and stored as 3600 |
| HubListeners | `ReapAfterQuiet` | the count is lowered before the time is stamped, and the reaper reads in between |
| HubListeners | `GaugeCountsListeners`, `HeartbeatWithListener`, `MarkersEnd` without their conditions on viewer_idle | the reaper aborts the accept loop only, and leaves heartbeat, gauge and table |
| TunnelHealth | `HealthyIsServed` of viewer_idle tunnels | the same heartbeat keeps the marker of a reaped listener |
| HubAuth | `GuessesBounded` without the other connections | the table is unlocked while Redis is asked |
| TunnelPlane | `ViewersReachTheirTunnel` | the slot changes hands between look-up and dial, or a listener outlives its lease |
| TunnelPlane | `GrantFromOwner` | a grant's key names the subdomain and not the tunnel |
| TunnelPlane | `DeadTunnelUnserved` | nothing tells the hub that a record is gone |
| Shutdown | `SignalStops` | a signal before `subscribe` reaches nobody and its handler ends |
| Shutdown | `GracefulDrains` | an OS signal leaves the state at Running (`shutdown.rs:246`), so the wait grants the force timeout only |
| CertAuthority | `RevokedInvalid` | a look-up re-inserts a certificate that was revoked under it (`edf-ca/src/lib.rs:240`) |
| CertAuthority | `ValidatesToTheEnd` | `num_seconds()` drops the fraction (`edf-ca/src/lib.rs:190`): the record ends up to a second before the certificate, which after a restart answers invalid |
| CertAuthority | `LimitNeverExceeded` | the limiter is checked and updated under separate locks |
| QuotaTracker | `QuotaRespected`, `NoPhantomUsage` | check, read and write are separate critical sections |
| QuotaTracker | `ChecksChargeNothing` | `check_operation_allowed` records usage; and a create that fails later does not give its charge back |
| ApiPipeline | `RefusedOnlyAfterPromise` | a login whose two readings of the clock fall into different seconds is refused, by the time between them, before its `expires_at` |
| RateLimiter | `BlockHolds` with the whole block | the clean-up counts from the start of the window, not of the block |
| ConnectionLimiter | `BlockedStayOut` of tasks past `is_blocked` | the two looks at an entry are under two locks |
| CircuitBreaker | `BreakerTrips` with an overlapping success | a success between the count and the time of a failure wipes the count, and one that started earlier wipes the time |
| ServicePlans | `NamesOverlap`, `LoneAssignSingle` with an overlapping request | the check, and the end of the old assignment, are a statement before the write |
| EdfClient | `NeverWedged` | a kill or a failing write after the session file was emptied, and two commands writing it at once, leave a file that every later command fails to parse, `edf keys cleanup` included (`ssh_keys.rs:354`) |
| Migrations | `EntitiesServed` | the entities name their tables in the plural, the migrations in the singular |

## 4. What reading the code for the models showed

Facts that a property does not carry, recorded because a reader of the models
will meet them.

* API. `cleanup_old_entries`, `set_user_tier`, `update_system_load` and the
  circuit breaker have no caller; a token's limiter keeps the tier and load of
  its creation, and a load above 2.78 would make its rate zero, which
  `NonZeroU32` refuses. A plan that was ever assigned cannot be deleted (the
  foreign key restricts, status 500). An IP block's body says 60 s and its
  header 3600; the bodies of 503 say 300 or 60 and the header 30. The admin and
  plan handlers do not have the development bypass the middleware has.
* Registry and hub. A tunnel's stored status stays Creating, so a live one is
  shown as connecting; `get_active_tunnel_count` counts `tunnel:live:*` too. The
  lockout table is keyed by address and port and never pruned. A torn host key
  file stops every later start. With Redis authentication enabled, a failed
  handler and the insecure flag, every key is accepted.
* Certificates. `load_ca_certificate` makes a new unsaved root even when files
  exist; a failed renewal is an error although the cached certificate is valid;
  the hub's own validation looks up the X.509 serial where the registry is keyed
  by UUID.
* Shutdown. The control tool is told "Shutdown initiated" even when no server
  has subscribed.
* DNS. Each rotation interval ends with a moment without a usable key;
  `check_and_rotate_keys` has no caller; a signature of an unsupported algorithm
  is passed over by validation; an AAAA query of an IPv4 slot is answered
  ServFail; `max_cache_size` is never read.
* Client. Keys orphaned by a race or a kill stay on disk, where `main.rs:404`
  promises their removal; an existing session is reused whatever port, subdomain
  or TTL is asked for; the keep-alive has no timeout (`ssh_client.rs:363`);
  `list` and `close` act on the process's own empty map; the release `hub_url`
  is split at its first colon.
* Database. `tunnel.certificate_serial` and `ssh_key_pair_id` are NOT NULL with
  ON DELETE SET NULL; billing events and the audit log go with the user; the
  repositories are used by tests only.

## 5. Proofs

The theorems hold for any sets of requests, users, ports, sessions, tunnels,
certificates, names, keys, channels, and any times and limits, that satisfy the
modules' `ASSUME`s. Each names one specification of section 2 and is proved by
an inductive invariant: true of the initial states, kept by every action. Few of
the properties are inductive as they stand; what had to be added is, in each
case, the reason why the code is right.

**TunnelStoreProofs.** From `Invariance`:

* `LeasesExclusive` (`SlotLeases`) needs that a running lease is backed by its
  `port:` key, `portKey[port[t]] = resv[t]`, so a second `SET NX` of the port
  fails, and that a create that has no lease yet has none running;
* `RoutingKeyKept` (`RoutingKeys`) needs the lifetimes: the record a create wrote
  never has more time left than the `subdomain:` key it claimed later with the
  TTL it had computed before, and only a delete removes the key earlier;
* `SessionUntilExpiry` (`SessionUntilTheEnd`) needs that a session key has at
  least the tunnel's time left: `store_ssh_session` computes its TTL from that
  time, cut to whole seconds, and the grace (`Grace >= Second`) makes up for it;
* `TypeOK` (`TypeCorrect`) needs where handlers can be.

`StoreImplementsRegistry` is the refinement, `ImplementsRegistry`. Most commands
write keys that no reader of the registry looks at, and map to a stutter
(`RegistryFrame` says so once). `AllocatePort` is a grant, `StoreRecord` a
publication, the session key an issue, and the clock and the deletes lapse
several leases, tunnels and keys at once. A grant needs `LeaseBacked`, a
publication that the slot was not given up between lease and store, which is
what `SlotOf` keeps. It uses `SlotAssumption`: the mark for "no slot" is not a
port.

**TunnelPlaneProofs.** `HubInvariance` ties the pieces of a bind together: a
forward under way passed the gate of a session that is up, a bind that was made
has an owner that authenticated for its tunnel, and a session's table holds its
own binds under their slots. `ListenersFiled` (`ListenersInTable`) needs it
because `cancel`, the re-bind of a slot and a session's end abort what the table
names and nothing else. `HealthyServed` (`HealthyIsServed`) needs the age of a
marker: for tunnels that are not viewer_idle, time left and time since the last
listener add up to at most the marker's life, which rests on
`HeartbeatsPaired`. `PlaneImplementsHub` shows that composing the hub with the
registry and the router restricts it and adds no step, so all the hub's
theorems hold of the composition; with that, `PlaneInvariance` adds that what
the hub read from the registry stays true of it (a published tunnel keeps its
slot although its lease lapses) and that running leases exclude each other, and
`SlotsServedByOwners` follows. The look-up happens one await before the bind, so
`SlotServedByOwner` alone is not inductive.

**HubAuthProofs.** `HostKeyPinned`: a file that holds a key holds the first one
served, a file being written was never served from, a torn one stops every
start. `GuessingBounded` (`GuessesBounded`) counts: recent failures of an
address and its connections past the check are together at most
`MaxAuthAttempts` and all connections but one. It needs that, as long as there
are as many failures as lead to a lockout, the lockout is no older than any of
them: so it is in force, and nobody new passes. A list of failures is a function
from numbers to ages, so that pruning is `Restrict` and its size a cardinality.

**CertProofs.** `CAInvariance`: a record nobody revokes ends less than a second
before its certificate, a revocation past a `DEL` that worked left nothing (nothing writes
the record again, since only certificates whose issuance returned are revoked),
and a look-up that found nothing has a reason that stays one. From it
`RevokedUnstored` and `IssuedIsValid`. `RouterUnexpired` needs that what the
router presents had more than `RenewBefore` left when it was answered and aged
only since; it uses `Poll <= RenewBefore`, which the manager's comment demands.
`FreshIsKept` needs that the mutex is held across an issuance, so what its holder
found due stays due.

**QuotaTrackerProofs.** `QuotaInvariance`: every usage record that may still
reach the cache (the cached one, and those read by a `record_usage` under way)
leaves room for the charges owed: its counter plus the number of requests that
were allowed and have not written yet is at most the operations allowed, as long
as no reset met a running request. From it: `QuietResets` (`QuietResetSticks`)
and `NoEarlyDenial` (`DeniedOnlyAtLimit`, a denial saw a counter at the limit,
and the counter is at most `granted`). The argument uses the cardinality of the
finite set of pending requests.

**ApiProofs.** The components share no state and have an invariant each.

* `BreakerTripping`: the count covers the solid failures and those that were
  counted and whose time is still to be stored.
* `BlockedKeptOut`: no writer of an address's entry, clean-up included, shortens
  the block it was given. `CountsExact`: the count is a cardinality.
* `ExpiryPromised`: a promise is the lifetime after a reading of the clock that is
  no earlier than the stamp inside the token, and every way to a reply that says
  expired goes through a check of that stamp. Both sides are stated: refused only
  when the 24 hours are over, and let in no later than in the second of the promise.
* `BlocksHold`: for all but a window of a block the entry is known, its block
  runs and its window began at most a minute before the block, so clean-up does
  not forget it. It has the hypothesis `Block <= Keep`: the default configuration
  blocks for an hour (`rate_limiting.rs`), and clean-up keeps entries for an hour; a
  longer block would be forgotten by clean-up.
* `RatesBounded`: the admissions of the last minute are those of the running
  window, at most its requests, and others that are at least as old as the
  window and at most as many as one window admits. A window ends only when it is
  older than a minute, and then nothing of the one before it is left.
* `NamesRaced`, `LoneAssignment`, `HeldPlanFound`: requests under way together
  have met; what a request found free or active one statement ago can have been
  changed only by one it met; every row, ended or not, holds its plan. The
  history `namers` holds every request that gave a plan its name. To speak of the
  last one of each plan would be false: after a race has left two plans with one
  name, an update that keeps the name of its plan is not checked, and gives it
  back to a plan that was renamed in between.
* `MigrationsWork`: every catalogue a runner meets is the one after the first l
  of the 34 statements of the two `up()`s, and `down` takes them back in the
  reverse order. Of the statements it uses only that each makes an object of its
  own and that indexes and keys are of tables made before them.

**DnsProofs.** `DnsInvariance` bounds the age of the value behind a reply at each
place it passes: a handler (`waited`), the cache (its life and what the handler
had waited) and the handler that found it there. From it `RepliesFresh`;
`RepliesEcho` needs that cached replies echo the packet they are filed under.
`PatternsWithinCap` needs that the pattern table is finite and that an insert into
a full one evicts before it adds. `SignerInvariance`: a signature whose key has
not expired is of the first usable key of its algorithm, because rotation appends
and removal keeps the order (`Retained`); a rotation under way has made the keys
of the algorithms it is done with, and those of the last one are as old as its
mark or as its start at most. From it `TagsNameSigners`, `KeysUntilDue` and, with
the age of signatures in the cache and on their way to it, `SignaturesRecent`.
"The first usable key" is the least index, whose existence is the well-foundedness
of the naturals.

**ClientProofs.** `HeldUntilExpiry` needs that the loop looked at the expiry
before it slept. `LiveKeysKept` needs that, of commands run one at a time, one
that cleans up without being asked to read a lapsed session, and that no other
replaced the file since.
`NamedKeysWhole` (`NamedKeyWhole`) needs `KeysInv`: sessions have fresh ids, so a
key written in part is named by the command that writes it and by nobody else, and
that command names it in the session file only after the write returned.
`ForwardInvariance`: what the hub sent on a channel is on the transport, queued or
passed, in the order open, data, end, until the transport is lost or the channel
dropped; `AllDataPassed` follows because a copy is done only when nothing is queued
and the end was seen, which without a lost transport came after all the data.

**Only model-checked.** Liveness under fairness, which this prover does not treat:
`LeftoversExpire`, `NoZombies`, `MarkersEnd`, `DeliveredStops`, `ServerStops`,
`ChannelsEnd`. And of the plainer statements of section 3, those not named above.

## 6. Not modelled

* X.509 contents, signature bytes, DNS wire format, zstd, JWT encoding, HTTP and
  SSH framing and telemetry are data or I/O without a protocol of their own; a
  model keeps the decisions taken on them.
* `dnsd/src/lib.rs` DNS over TLS repeats the TCP loop; the HMAC signer, statistics
  and alerts of `sign.rs` compute values only.
* Code no target calls: `release_port`, `update_tunnel_status`,
  `cleanup_expired_tunnels`, `add_authorized_key`, `remove_authorized_key`,
  `cleanup_expired_sessions`, `register_reverse_tunnel`, the batch processor of
  the authority, the Redis performance client.
* Files no target compiles: `common/src/cert_manager.rs`,
  `batch_audit_logger.rs`, `batch_metrics_collector.rs`, `dnsd/src/dot_enhanced.rs`,
  `edgehub/src/redis.rs`, `redis_auth.rs`, `backendapi/src/auth.rs`.
* GitHub's side of the OAuth exchange is one external answer.
* Redis is a linearizable store whose commands may fail, except that a command
  that failed after taking effect is covered only where the handler could have
  been dropped right after it. Widths of counters are not modelled: no path in
  the modelled code comes near them.

## 7. Plan

Every safety invariant, action property and refinement that a run checks is
proved. What is left is to prove the plainer statements of section 3 that need
an argument of their own, the most telling first:

1. `OvershootBounded` of CertAuthority for any concurrency, by counting the
   issuances between check and record as `GuessingBounded` counts connections;
   `SequentialQuota`, from `QuotaInvariance`.
2. `RetrySuffices` of RateLimiter, over the token buckets, which no proof treats
   yet.
3. `GaugeCountsListeners`, `CachePurged`, `KeysNamed`,
   `DrainingHonoured`.
