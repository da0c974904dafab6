----------------------------- MODULE RateLimiter -----------------------------
(***************************************************************************)
(* The rate limits in front of the management API:                        *)
(* crates/backendapi/src/rate_limiting.rs.                                 *)
(*                                                                         *)
(* rate_limit_middleware first charges the client address against a fixed  *)
(* window (check_ip_rate_limit), which blocks the address for a while once *)
(* the window is full, and then charges the caller's token against one of  *)
(* three limiters.  A limiter is made on a token's first request, from the *)
(* tier and the system load of that moment, and kept.                      *)
(*                                                                         *)
(* Times are kept relative to now: how long ago, or how much is left.      *)
(***************************************************************************)
EXTENDS Integers, FiniteSets

CONSTANTS Ips, Tokens,
          IpMax,        \* max_requests_per_ip_per_minute
          Minute,       \* ticks of a minute: the address window and the quotas' period
          Block,        \* ip_block_duration_seconds, in ticks
          Keep,         \* how long cleanup_old_entries keeps an address
          LimiterCap,   \* limiters of a kind that cleanup_old_entries tolerates (10000)
          Rate,         \* requests per minute, by kind and tier
          BurstMult     \* burst_multiplier, by tier

Kinds == {"api", "tunnel", "dns"}
Tiers == DOMAIN BurstMult
Loads == {0, 100}       \* system load in percent; the threshold is 80

ASSUME RateAssumption ==
    /\ IpMax \in Nat \ {0} /\ Minute \in Nat \ {0}
    /\ Block \in Nat /\ Keep \in Nat /\ LimiterCap \in Nat
    /\ Minute < Block /\ Minute < Keep

VARIABLES ipl,          \* ip_limiters: address -> requests, age of last_reset, left of the block
          limiters,     \* api_limiters, tunnel_limiters and dns_limiters
          tier,         \* user_tiers
          bypass,       \* bypass_tokens
          load,         \* system_load
          blockedFor,   \* history: ticks since the address was last blocked
          ipQuiet,      \* history: ticks since the last request of the address
          tokQuiet,     \* history: ticks since the last request that reached the limiter
          recent        \* history: the admissions of an address in the last minute, by age

rateVars == <<ipl, limiters, tier, bypass, load, blockedFor, ipQuiet, tokQuiet, recent>>

\* Ages stop growing once every comparison with them is decided.
AgeCap == Keep
NoIp == [known |-> FALSE, requests |-> 0, age |-> 0, left |-> 0]
NoLimiter == [t |-> 0, tau |-> 0, lag |-> 0]

\* Admissions are a function from their numbers to their ages.
NoneAdmitted == [n \in {} |-> 0]
OneMore(ages) ==
    LET new == CHOOSE n \in 0..Cardinality(DOMAIN ages) : n \notin DOMAIN ages
    IN  [n \in DOMAIN ages \cup {new} |-> IF n = new THEN 0 ELSE ages[n]]
TickLater(ages) == [n \in {k \in DOMAIN ages : ages[k] + 1 < Minute} |-> ages[n] + 1]

RateInit ==
    /\ ipl = [i \in Ips |-> NoIp]
    /\ limiters = [k \in Kinds |-> [x \in Tokens |-> NoLimiter]]
    /\ tier = [x \in Tokens |-> "Free"]
    /\ bypass = {}
    /\ load = 0
    /\ blockedFor = [i \in Ips |-> Block]
    /\ ipQuiet = [i \in Ips |-> 0]
    /\ tokQuiet = [k \in Kinds |-> [x \in Tokens |-> 0]]
    /\ recent = [i \in Ips |-> NoneAdmitted]

-----------------------------------------------------------------------------
(* check_ip_rate_limit: what an address's entry becomes, and the verdict.  *)

Entry(i) == IF ipl[i].known THEN ipl[i] ELSE [NoIp EXCEPT !.known = TRUE]

\* "Reset counter if window has passed": strictly more than a minute.
WindowResetNoMark(e) == IF e.age > Minute THEN [e EXCEPT !.requests = 0] ELSE e
WindowReset(e) == IF e.age > Minute THEN [e EXCEPT !.requests = 0, !.age = 0] ELSE e

CheckIp(i) ==
    LET e == Entry(i)
        w == WindowReset(e)
    IN  IF e.left > 0 THEN [ok |-> FALSE, e |-> e, new |-> FALSE]
        ELSE IF w.requests >= IpMax
             THEN [ok |-> FALSE, e |-> [w EXCEPT !.left = Block], new |-> TRUE]
             ELSE [ok |-> TRUE, e |-> [w EXCEPT !.requests = @ + 1], new |-> FALSE]

-----------------------------------------------------------------------------
(* The token limiters.  A limiter of the governor crate keeps a theoretical *)
(* arrival time: lag is how far it lies ahead of now, t the time a request  *)
(* costs, tau the time a full burst costs.                                  *)

\* Dynamic adjustment: above the threshold the quota shrinks by half of the excess.
ApiRate(r) == IF load > 80 THEN (r * (200 - (load - 80))) \div 200 ELSE r

\* create_api_limiter, create_tunnel_limiter and create_dns_limiter: only the
\* first looks at the load, only the second at the burst multiplier.
CreateLimiter(k, tr) ==
    LET r == IF k = "api" THEN ApiRate(Rate[k][tr]) ELSE Rate[k][tr]
        t == Minute \div r
        b == IF k = "tunnel" THEN r * BurstMult[tr] ELSE r
    IN  [t |-> t, tau |-> t * b, lag |-> 0]

\* check_key of governor: is there room for one more request?
HasRoom(l) == l.lag + l.t <= l.tau

\* check_api_rate_limit, check_tunnel_rate_limit, check_dns_rate_limit.  The
\* Enterprise tier and the bypass tokens are let through without a limiter.
CheckToken(k, x) ==
    IF x \in bypass \/ tier[x] = "Enterprise"
    THEN [ok |-> TRUE, l |-> limiters[k][x]]
    ELSE LET l == IF limiters[k][x] = NoLimiter THEN CreateLimiter(k, tier[x])
                                                ELSE limiters[k][x]
         IN  IF HasRoom(l) THEN [ok |-> TRUE, l |-> [l EXCEPT !.lag = @ + l.t]]
                           ELSE [ok |-> FALSE, l |-> l]

\* rate_limit_middleware: the address, then - only if that passed - the token.
\* A request stands for every path of its kind: POSTs on /tunnels, /dns and
\* /domains, everything else.
RateLimitMiddleware(i, x, k) ==
    LET ip == CheckIp(i)
        tok == CheckToken(k, x)
    IN  /\ ipl' = [ipl EXCEPT ![i] = ip.e]
        /\ blockedFor' = IF ip.new THEN [blockedFor EXCEPT ![i] = 0] ELSE blockedFor
        /\ ipQuiet' = [ipQuiet EXCEPT ![i] = 0]
        /\ recent' = IF ip.ok THEN [recent EXCEPT ![i] = OneMore(@)] ELSE recent
        /\ IF ip.ok
           THEN /\ limiters' = [limiters EXCEPT ![k][x] = tok.l]
                /\ tokQuiet' = [tokQuiet EXCEPT ![k][x] = 0]
           ELSE UNCHANGED <<limiters, tokQuiet>>
        /\ UNCHANGED <<tier, bypass, load>>

-----------------------------------------------------------------------------
(* The other operations of RateLimitState.                                 *)

SetUserTier(x, tr) ==
    /\ tier' = [tier EXCEPT ![x] = tr]
    /\ UNCHANGED <<ipl, limiters, bypass, load, blockedFor, ipQuiet, tokQuiet, recent>>

AddBypassToken(x) ==
    /\ bypass' = bypass \cup {x}
    /\ UNCHANGED <<ipl, limiters, tier, load, blockedFor, ipQuiet, tokQuiet, recent>>

RemoveBypassToken(x) ==
    /\ bypass' = bypass \ {x}
    /\ UNCHANGED <<ipl, limiters, tier, load, blockedFor, ipQuiet, tokQuiet, recent>>

UpdateSystemLoad(v) ==
    /\ load' = v
    /\ UNCHANGED <<ipl, limiters, tier, bypass, blockedFor, ipQuiet, tokQuiet, recent>>

\* cleanup_old_entries: too many limiters of a kind are all thrown away, and an
\* address whose window began an hour ago is forgotten - even a blocked one.
ForgottenIdle(e) == e.known /\ ~(e.age < Minute)
Forgotten(e) == e.known /\ ~(e.age < Keep)
CleanupOldEntries ==
    /\ limiters' = [k \in Kinds |->
           IF Cardinality({x \in Tokens : limiters[k][x] # NoLimiter}) > LimiterCap
           THEN [x \in Tokens |-> NoLimiter] ELSE limiters[k]]
    /\ ipl' = [i \in Ips |-> IF Forgotten(ipl[i]) THEN NoIp ELSE ipl[i]]
    /\ UNCHANGED <<tier, bypass, load, blockedFor, ipQuiet, tokQuiet, recent>>

Less(n) == IF n > 0 THEN n - 1 ELSE 0
Aged(n) == IF n < AgeCap THEN n + 1 ELSE n

RateTick ==
    /\ ipl' = [i \in Ips |-> IF ipl[i].known
                             THEN [ipl[i] EXCEPT !.age = Aged(@), !.left = Less(@)] ELSE NoIp]
    /\ limiters' = [k \in Kinds |-> [x \in Tokens |->
                       [limiters[k][x] EXCEPT !.lag = Less(@)]]]
    /\ blockedFor' = [i \in Ips |-> IF blockedFor[i] < Block THEN blockedFor[i] + 1 ELSE Block]
    /\ ipQuiet' = [i \in Ips |-> IF ipQuiet[i] < Block THEN ipQuiet[i] + 1 ELSE Block]
    /\ tokQuiet' = [k \in Kinds |-> [x \in Tokens |->
                       IF tokQuiet[k][x] < Minute THEN tokQuiet[k][x] + 1 ELSE Minute]]
    /\ recent' = [i \in Ips |-> TickLater(recent[i])]
    /\ UNCHANGED <<tier, bypass, load>>

RateNext ==
    \/ \E i \in Ips, x \in Tokens, k \in Kinds : RateLimitMiddleware(i, x, k)
    \/ \E x \in Tokens, tr \in Tiers : SetUserTier(x, tr)
    \/ \E x \in Tokens : AddBypassToken(x) \/ RemoveBypassToken(x)
    \/ \E v \in Loads : UpdateSystemLoad(v)
    \/ CleanupOldEntries
    \/ RateTick

RateSpec == RateInit /\ [][RateNext]_rateVars

-----------------------------------------------------------------------------
RateTypeOK ==
    /\ \A i \in Ips : /\ ipl[i].requests \in 0..IpMax
                      /\ ipl[i].age \in 0..AgeCap /\ ipl[i].left \in 0..Block
    /\ \A k \in Kinds, x \in Tokens : LET l == limiters[k][x] IN l.lag \in 0..l.tau
    /\ tier \in [Tokens -> Tiers] /\ bypass \subseteq Tokens /\ load \in Loads

\* A client that waits for as long as the Retry-After header of a refusal says
\* is not refused on the same count again: an hour (Block) for an address, a
\* minute for a token - whatever tier, load, burst and clean-up did meanwhile.
RetrySuffices ==
    /\ \A i \in Ips : ipQuiet[i] >= Block => CheckIp(i).ok
    /\ \A k \in Kinds, x \in Tokens : tokQuiet[k][x] >= Minute => CheckToken(k, x).ok

\* A fixed window lets at most two windows' worth of requests of an address
\* through in any minute: the reset, the block's end and the clean-up never
\* hand out a third.
IpRateBounded ==
    \A i \in Ips : Cardinality(DOMAIN recent[i]) <= 2 * IpMax

\* A blocked address stays out: no request of it is admitted before its block
\* has lasted at least all but a window of the configured time.  (All of it would
\* be false: cleanup_old_entries counts from the window's start, not the block's.)
BlockHolds ==
    [][\A i \in Ips : DOMAIN recent'[i] \subseteq DOMAIN recent[i]
                          \/ blockedFor[i] >= Block - Minute]_rateVars
=============================================================================
