------------------------------ MODULE DnsServer ------------------------------
(***************************************************************************)
(* The DNS server (crates/dnsd): one loop receives a packet, answers it    *)
(* through the response cache or from the slot keys in Redis, sends the    *)
(* answer and only then looks at the socket and the shutdown signal again. *)
(*                                                                         *)
(* The slot keys are written by the tunnel storage of the API and by the   *)
(* slot-setter tool, and expire in Redis.  A tick is one unit of time; the *)
(* response cache and the keys count down to their expiry.  held and       *)
(* failed are history variables: how long ago a slot last had a value, and *)
(* how long ago a Redis call last failed.                                  *)
(***************************************************************************)
EXTENDS Integers, FiniteSets

CONSTANTS
    Packets,      \* the datagrams clients can send: [kind, id, name, type]
    Traffics,     \* sets of datagrams; the clients of one run send those of one
    Names,        \* the names of the slots
    V4, V6, Junk, \* slot values: IPv4 texts, IPv6 texts, anything else
    NoAddr,       \* the value of an absent key
    SlotTtl,      \* ticks a slot key lives
    CacheTtl,     \* ticks a cached response lives (PerformanceConfig::cache_ttl)
    PurgePeriod,  \* ticks between two purges of the cache
    MaxDelay      \* ticks one await of the handler may take (a bound)

ASSUME DnsAssumption ==
    /\ {SlotTtl, CacheTtl, PurgePeriod, MaxDelay} \subseteq Nat \ {0}
    /\ \A p \in Packets :
          p.kind \in {"query", "response", "empty", "malformed"} /\ p.name \in Names
    /\ Traffics \subseteq SUBSET Packets

VARIABLES
    traffic,  \* the datagrams the clients send
    slot,     \* slot[n]: value and remaining life of the key slot:{n}
    cache,    \* cache[p]: cached response of packet p and its remaining life
    purgeIn,  \* ticks to the next purge
    pc,       \* where the server loop is
    packet,   \* the packet in the loop's buffer
    found,    \* the slot value the lookup returned
    reply,    \* the response about to be sent
    waited,   \* ticks the current await has taken
    serving,  \* "up", "stopping" (signal sent), "stopped"
    held,     \* held[n][v]: ticks since slot n last had value v
    failed    \* ticks since a Redis call last failed

dnsVars == <<traffic, slot, cache, purgeIn, pc, packet, found, reply, waited, serving,
             held, failed>>

Values == V4 \cup V6 \cup Junk \cup {NoAddr}
Codes == {"NoError", "NXDomain", "ServFail", "FormErr"}

\* Window: the age a served value may have reached.  The value is read, waits
\* MaxDelay at most, is cached for less than CacheTtl and waits again.
Window == MaxDelay + CacheTtl - 1 + MaxDelay
Never  == Window + 1

NoPacket == [kind |-> "none"]
NoSlot  == [v |-> NoAddr, left |-> 0]
NoReply == [code |-> "none", id |-> 0, name |-> "none", ip |-> NoAddr]
NoEntry == [r |-> NoReply, left |-> 0]

DnsInit ==
    /\ traffic \in Traffics
    /\ slot = [n \in Names |-> NoSlot]
    /\ cache = [p \in traffic |-> NoEntry]
    /\ purgeIn = PurgePeriod
    /\ pc = "idle"
    /\ packet = NoPacket
    /\ found = NoAddr
    /\ reply = NoReply
    /\ waited = 0
    /\ serving = "up"
    /\ held = [n \in Names |-> [v \in Values |-> IF v = NoAddr THEN 0 ELSE Never]]
    /\ failed = Never

-----------------------------------------------------------------------------
(* Slot keys in Redis *)

SlotChanges(n, s) ==
    /\ slot' = [slot EXCEPT ![n] = s]
    /\ held' = [held EXCEPT ![n][s.v] = 0]
    /\ UNCHANGED <<traffic, cache, purgeIn, pc, packet, found, reply, waited, serving, failed>>

\* SET slot:{fqdn} ip EX ttl, by the tunnel storage or the slot-setter tool.
SetSlot(n, v) == SlotChanges(n, [v |-> v, left |-> SlotTtl])

DelSlot(n) ==
    /\ slot[n].v # NoAddr
    /\ SlotChanges(n, NoSlot)

-----------------------------------------------------------------------------
(* The handler *)

DnsGoto(to) == pc' = to /\ waited' = 0

\* The key is a hash of the whole packet, its id included: one entry per packet.
IgnoresId(p) == [p EXCEPT !.id = 0]
SameKeyNoId(p, q) == IgnoresId(p) = IgnoresId(q)
GenerateCacheKey(p, q) == p = q

Receive(p) ==
    /\ serving # "stopped"
    /\ pc = "idle"
    /\ packet' = p
    /\ DnsGoto("cache")
    /\ UNCHANGED <<traffic, slot, cache, purgeIn, found, reply, serving, held, failed>>

\* get_cached_response: an entry past its life is not returned.
GetCachedResponse(p) == {q \in traffic : GenerateCacheKey(p, q) /\ cache[q].left > 0}

\* Message::error_msg echoes id and question; a packet that does not parse has
\* neither, and is always a FormErr.
BuildErrorResponse(p, code) ==
    IF p.kind = "malformed"
    THEN [code |-> "FormErr", id |-> 0, name |-> "none", ip |-> NoAddr]
    ELSE [code |-> code, id |-> p.id, ip |-> NoAddr,
          name |-> IF p.kind = "empty" THEN "none" ELSE p.name]

Parses(type, v) == (type = "A" /\ v \in V4) \/ (type = "AAAA" /\ v \in V6)

BuildDnsResponse(p, v) ==
    LET resp(code, ip) == [code |-> code, id |-> p.id, name |-> p.name, ip |-> ip]
    IN CASE v = NoAddr \/ p.type \notin {"A", "AAAA"} -> resp("NXDomain", NoAddr)
         [] Parses(p.type, v) -> resp("NoError", v)
         [] OTHER -> BuildErrorResponse(p, "ServFail")

LookupCache ==
    /\ pc = "cache"
    /\ LET hits == GetCachedResponse(packet) IN
       \/ /\ hits # {}
          /\ \E q \in hits : reply' = cache[q].r
          /\ DnsGoto("send")
       \/ /\ hits = {}
          /\ UNCHANGED reply
          /\ DnsGoto("parse")
    /\ UNCHANGED <<traffic, slot, cache, purgeIn, packet, found, serving, held, failed>>

\* A packet that does not parse, is a response or asks nothing is a FormErr.
ParsePacket ==
    /\ pc = "parse"
    /\ \/ /\ packet.kind = "query"
          /\ DnsGoto("lookup")
          /\ UNCHANGED reply
       \/ /\ packet.kind # "query"
          /\ reply' = BuildErrorResponse(packet, "FormErr")
          /\ DnsGoto("store")
    /\ UNCHANGED <<traffic, slot, cache, purgeIn, packet, found, serving, held, failed>>

\* GET slot:{qname}.  No connection and an error of the command are both read
\* as "no such slot".
LookupSlotInRedis ==
    /\ pc = "lookup"
    /\ \/ found' = slot[packet.name].v /\ UNCHANGED failed
       \/ found' = NoAddr /\ failed' = 0
    /\ DnsGoto("build")
    /\ UNCHANGED <<traffic, slot, cache, purgeIn, packet, reply, serving, held>>

BuildResponse ==
    /\ pc = "build"
    /\ reply' = BuildDnsResponse(packet, found)
    /\ pc' = "store"
    /\ UNCHANGED <<traffic, slot, cache, purgeIn, packet, found, waited, serving, held, failed>>

\* Every response is cached for cache_ttl, error responses too.
NeverExpires == CacheTtl + SlotTtl + PurgePeriod + MaxDelay
EntryTtlLong(r) == NeverExpires
EntryTtl(r) == CacheTtl

CacheResponse ==
    /\ pc = "store"
    /\ cache' = [cache EXCEPT ![packet] = [r |-> reply, left |-> EntryTtl(reply)]]
    /\ DnsGoto("send")
    /\ UNCHANGED <<traffic, slot, purgeIn, packet, found, reply, serving, held, failed>>

\* send_to succeeds or fails; the loop goes on either way.
SendReply ==
    /\ pc = "send"
    /\ reply' = NoReply /\ packet' = NoPacket /\ found' = NoAddr
    /\ DnsGoto("idle")
    /\ UNCHANGED <<traffic, slot, cache, purgeIn, serving, held, failed>>

-----------------------------------------------------------------------------
(* Shutdown, purging and time *)

\* GracefulShutdown::shutdown sends on the broadcast channel of the loop.
SignalStop ==
    /\ serving = "up"
    /\ serving' = "stopping"
    /\ UNCHANGED <<traffic, slot, cache, purgeIn, pc, packet, found, reply, waited, held, failed>>

\* A biased select! would look at the signal only while no packet waits.
BiasedStop ==
    /\ serving = "stopping" /\ pc = "idle" /\ traffic = {}
    /\ serving' = "stopped"
    /\ UNCHANGED <<traffic, slot, cache, purgeIn, pc, packet, found, reply, waited, held, failed>>

\* select! takes the shutdown branch; it can only while no packet is in work.
StopServer ==
    /\ serving = "stopping"
    /\ pc = "idle"
    /\ serving' = "stopped"
    /\ UNCHANGED <<traffic, slot, cache, purgeIn, pc, packet, found, reply, waited, held, failed>>

\* start_periodic_purge drops the entries whose life is over.
Purge ==
    /\ purgeIn = 0
    /\ purgeIn' = PurgePeriod
    /\ cache' = [p \in traffic |-> IF cache[p].left <= 0 THEN NoEntry ELSE cache[p]]
    /\ UNCHANGED <<traffic, slot, pc, packet, found, reply, waited, serving, held, failed>>

AgedSlot(s) == IF s.left > 1 THEN [s EXCEPT !.left = @ - 1] ELSE NoSlot

Older(age) == IF age < Never THEN age + 1 ELSE Never

DnsTick ==
    /\ purgeIn > 0
    /\ pc # "idle" => waited < MaxDelay
    /\ slot' = [n \in Names |-> AgedSlot(slot[n])]
    /\ cache' = [p \in traffic |->
                   IF cache[p] = NoEntry THEN NoEntry
                                          ELSE [cache[p] EXCEPT !.left = @ - 1]]
    /\ purgeIn' = purgeIn - 1
    /\ waited' = IF pc = "idle" THEN 0 ELSE waited + 1
    /\ held' = [n \in Names |-> [v \in Values |->
                  IF v \in {slot[n].v, slot'[n].v} THEN 0 ELSE Older(held[n][v])]]
    /\ failed' = Older(failed)
    /\ UNCHANGED <<traffic, pc, packet, found, reply, serving>>

Handler == LookupCache \/ ParsePacket \/ LookupSlotInRedis \/ BuildResponse
           \/ CacheResponse \/ SendReply

DnsNext ==
    \/ \E n \in Names : DelSlot(n) \/ \E v \in Values \ {NoAddr} : SetSlot(n, v)
    \/ \E p \in traffic : Receive(p)
    \/ Handler
    \/ SignalStop
    \/ StopServer
    \/ Purge
    \/ DnsTick

\* The handler's awaits end, the runtime runs the purge task, time goes on, and
\* select! polls its branches in random order, so a stop signal that is pending
\* whenever the loop is idle is taken at last.
DnsFairness ==
    /\ WF_dnsVars(Handler)
    /\ SF_dnsVars(StopServer)
    /\ WF_dnsVars(Purge)
    /\ WF_dnsVars(DnsTick)

DnsSpec == DnsInit /\ [][DnsNext]_dnsVars /\ DnsFairness

-----------------------------------------------------------------------------
(* Properties *)

DnsTypeOK ==
    /\ \A n \in Names : slot[n].v \in Values /\ slot[n].left \in 0..SlotTtl
    /\ purgeIn \in 0..PurgePeriod
    /\ pc \in {"idle", "cache", "parse", "lookup", "build", "store", "send"}
    /\ packet \in traffic \cup {NoPacket} /\ found \in Values
    /\ reply # NoReply => reply.code \in Codes /\ reply.ip \in Values
    /\ waited \in 0..MaxDelay
    /\ serving \in {"up", "stopping", "stopped"}

\* What is sent to a client is the answer for a value its slot had no longer ago
\* than the response cache's life and the handler's awaits allow, or the answer
\* for an absent slot when a Redis call failed within that time: handle_packet
\* caches every response, a failure's too, whatever the key's own TTL was.
AnswersFresh ==
    LET Says(v) == LET r == BuildDnsResponse(packet, v) IN r.code = reply.code /\ r.ip = reply.ip
    IN pc = "send" /\ packet.kind = "query" =>
        \/ \E v \in Values : held[packet.name][v] <= Window /\ Says(v)
        \/ failed <= Window /\ Says(NoAddr)

\* A response carries the id and the question of the packet it answers, cached
\* or not: the cache key of handle_packet covers the message id.
ReplyEchoesQuery ==
    pc = "send" /\ packet.kind # "malformed" =>
        /\ reply.id = packet.id
        /\ packet.kind # "empty" => reply.name = packet.name

\* The response cache has no size limit (max_cache_size is never read), but an
\* entry outlives its expiry by less than one purge period, so the cache holds
\* no more than was answered in cache_ttl and one period.
CachePurged == \A p \in traffic : cache[p].left > -PurgePeriod

\* A stop signal ends serve_with_shutdown even when packets keep arriving.
ServerStops == (serving = "stopping") ~> (serving = "stopped")
=============================================================================
