----------------------------- MODULE DnsProofs -----------------------------
(***************************************************************************)
(* Proofs about the DNS server: what its replies say (DnsServer), the keys *)
(* and signatures of its signer (DnssecSigner) and the compression of its  *)
(* responses (ResponseCompression), for every value of their constants.    *)
(***************************************************************************)
EXTENDS DnsServer, DnssecSigner, ResponseCompression, FiniteSetTheorems, SequenceTheorems,
        WellFoundedInduction, TLAPS

-----------------------------------------------------------------------------
(* DnsServer: replies. *)

Replies == [code : Codes \cup {"none"}, id : {p.id : p \in Packets} \cup {0},
            name : Names \cup {"none"}, ip : Values]
Entries == [r : Replies, left : Int]
SlotKeys == [v : Values, left : Int]

DnsTypes ==
    /\ traffic \in Traffics
    /\ slot \in [Names -> SlotKeys]
    /\ cache \in [traffic -> Entries]
    /\ pc \in {"idle", "cache", "parse", "lookup", "build", "store", "send"}
    /\ pc # "idle" => packet \in traffic
    /\ pc \in {"lookup", "build"} => packet.kind = "query"
    /\ found \in Values
    /\ reply \in Replies
    /\ waited \in 0..MaxDelay
    /\ held \in [Names -> [Values -> Nat]]
    /\ failed \in Nat

\* r carries the id and the question of p.
Echoes(p, r) ==
    p.kind # "malformed" => r.id = p.id /\ (p.kind # "empty" => r.name = p.name)

\* What the handler is about to send and what the cache may still serve echo
\* the packet they are for.
EchoInv ==
    /\ pc \in {"store", "send"} => Echoes(packet, reply)
    /\ \A p \in traffic : cache[p].left > 0 => Echoes(p, cache[p].r)

SaysFor(p, v, r) ==
    BuildDnsResponse(p, v).code = r.code /\ BuildDnsResponse(p, v).ip = r.ip

\* With the ages h and f of values and failures, r is the answer for a value p's
\* slot had, or for a failure that happened, no longer than b ago.
Recently(h, f, p, r, b) ==
    \/ \E v \in Values : h[p.name][v] <= b /\ SaysFor(p, v, r)
    \/ f <= b /\ SaysFor(p, NoAddr, r)

\* The age a value has at each place it passes: the handler that holds it, the
\* cache, and the handler that found it there.
FreshInv ==
    /\ \A n \in Names : held[n][slot[n].v] = 0
    /\ pc = "build" => \/ held[packet.name][found] <= waited
                       \/ failed <= waited /\ found = NoAddr
    /\ pc = "store" /\ packet.kind = "query" => Recently(held, failed, packet, reply, waited)
    /\ pc = "send" /\ packet.kind = "query" =>
          Recently(held, failed, packet, reply, MaxDelay + CacheTtl - 1 + waited)
    /\ \A p \in traffic : cache[p].left > 0 /\ p.kind = "query" =>
          Recently(held, failed, p, cache[p].r, MaxDelay + CacheTtl - cache[p].left)

DnsInv == DnsTypes /\ EchoInv /\ FreshInv

\* A packet of the traffic is one of the datagrams clients can send.
LEMMA TrafficPackets ==
  ASSUME traffic \in Traffics, NEW p \in traffic
  PROVE  /\ p \in Packets
         /\ p.kind \in {"query", "response", "empty", "malformed"}
         /\ p.name \in Names
  BY DnsAssumption

\* The responses handle_packet builds are replies, and echo their packet.
LEMMA BuiltReplies ==
  ASSUME NEW p \in Packets
  PROVE  /\ BuildErrorResponse(p, "FormErr") \in Replies
         /\ Echoes(p, BuildErrorResponse(p, "FormErr"))
         /\ \A v \in Values : p.kind = "query" =>
               /\ BuildDnsResponse(p, v) \in Replies
               /\ Echoes(p, BuildDnsResponse(p, v))
<1>1. p.name \in Names
  BY DnsAssumption
<1>2. NoAddr \in Values /\ V4 \subseteq Values /\ V6 \subseteq Values
  BY DEF Values
<1>3. \A c \in Codes : BuildErrorResponse(p, c) \in Replies /\ Echoes(p, BuildErrorResponse(p, c))
  BY <1>1, <1>2 DEF BuildErrorResponse, Replies, Echoes, Codes
<1>4. ASSUME NEW v \in Values, p.kind = "query"
      PROVE  BuildDnsResponse(p, v) \in Replies /\ Echoes(p, BuildDnsResponse(p, v))
  <2>1. BuildErrorResponse(p, "ServFail") \in Replies /\ Echoes(p, BuildErrorResponse(p, "ServFail"))
    BY <1>3 DEF Codes
  <2> QED BY <1>1, <1>2, <1>4, <2>1 DEF BuildDnsResponse, Replies, Echoes, Codes
<1> QED BY <1>3, <1>4 DEF Codes

\* The server starts with an empty cache and no slots.
LEMMA DnsStarts == DnsInit => DnsInv
<1> SUFFICES ASSUME DnsInit PROVE DnsInv
  OBVIOUS
<1>1. NoAddr \in Values
  BY DEF Values
<1>2. Never \in Nat
  BY DnsAssumption DEF Never, Window
<1>3. NoEntry \in Entries /\ NoReply \in Replies /\ NoSlot \in SlotKeys
  BY <1>1 DEF NoEntry, NoReply, NoSlot, Entries, Replies, SlotKeys
<1>4. DnsTypes
  BY <1>1, <1>2, <1>3, DnsAssumption DEF DnsInit, DnsTypes
<1>5. EchoInv
  BY DEF DnsInit, EchoInv, NoEntry
<1>6. FreshInv
  <2>1. \A n \in Names : held[n][slot[n].v] = 0
    BY <1>1 DEF DnsInit, NoSlot
  <2>2. \A p \in traffic : ~(cache[p].left > 0)
    BY DEF DnsInit, NoEntry
  <2> QED BY <2>1, <2>2 DEF FreshInv, DnsInit
<1> QED BY <1>4, <1>5, <1>6 DEF DnsInv

\* Every step keeps the types.
LEMMA DnsTypesStep == DnsTypes /\ [DnsNext]_dnsVars => DnsTypes'
<1> SUFFICES ASSUME DnsTypes, [DnsNext]_dnsVars PROVE DnsTypes'
  OBVIOUS
<1> USE DEF DnsTypes
<1>0. NoAddr \in Values /\ MaxDelay \in Nat \ {0} /\ CacheTtl \in Nat \ {0} /\ SlotTtl \in Nat \ {0}
      /\ Never \in Nat
  BY DnsAssumption DEF Values, Never, Window
<1>n. NoSlot \in SlotKeys /\ NoReply \in Replies /\ NoEntry \in Entries
  BY <1>0 DEF NoSlot, NoReply, NoEntry, SlotKeys, Replies, Entries
<1>p. \A p \in traffic : p \in Packets /\ p.name \in Names
  BY TrafficPackets
<1>1. ASSUME NEW n \in Names, NEW s \in SlotKeys, SlotChanges(n, s) PROVE DnsTypes'
  <2>1. s.v \in Values
    BY DEF SlotKeys
  <2>2. slot' \in [Names -> SlotKeys] /\ held' \in [Names -> [Values -> Nat]]
    BY <1>1, <2>1 DEF SlotChanges
  <2> QED BY <1>1, <2>2 DEF SlotChanges
<1>2. ASSUME NEW n \in Names, DelSlot(n) PROVE DnsTypes'
  BY <1>1, <1>2, <1>n DEF DelSlot
<1>3. ASSUME NEW n \in Names, NEW v \in Values, SetSlot(n, v) PROVE DnsTypes'
  <2>1. [v |-> v, left |-> SlotTtl] \in SlotKeys
    BY <1>0 DEF SlotKeys
  <2> QED BY <1>1, <1>3, <2>1 DEF SetSlot
<1>4. ASSUME NEW p \in traffic, Receive(p) PROVE DnsTypes'
  BY <1>4, <1>0 DEF Receive, DnsGoto
<1>5. CASE LookupCache
  <2>1. \A q \in traffic : cache[q].r \in Replies
    BY DEF Entries
  <2>2. reply' \in Replies
    BY <1>5, <2>1 DEF LookupCache, GetCachedResponse
  <2> QED BY <1>5, <2>2, <1>0 DEF LookupCache, DnsGoto
<1>6. CASE ParsePacket
  <2>1. packet \in traffic
    BY <1>6 DEF ParsePacket
  <2>2. reply' \in Replies
    BY <1>6, <2>1, <1>p, BuiltReplies DEF ParsePacket
  <2> QED BY <1>6, <2>2, <1>0 DEF ParsePacket, DnsGoto
<1>7. CASE LookupSlotInRedis
  <2>1. packet.name \in Names
    BY <1>7, <1>p DEF LookupSlotInRedis
  <2>2. slot[packet.name].v \in Values
    BY <2>1 DEF SlotKeys
  <2> QED BY <1>7, <2>2, <1>0 DEF LookupSlotInRedis, DnsGoto
<1>8. CASE BuildResponse
  <2>1. reply' \in Replies
    BY <1>8, <1>p, BuiltReplies DEF BuildResponse
  <2> QED BY <1>8, <2>1 DEF BuildResponse
<1>9. CASE CacheResponse
  <2>1. [r |-> reply, left |-> EntryTtl(reply)] \in Entries
    BY <1>0 DEF Entries, EntryTtl
  <2> QED BY <1>9, <2>1, <1>0 DEF CacheResponse, DnsGoto
<1>10. CASE SendReply
  BY <1>10, <1>0, <1>n DEF SendReply, DnsGoto
<1>11. CASE SignalStop \/ StopServer
  BY <1>11 DEF SignalStop, StopServer
<1>12. CASE Purge
  BY <1>12, <1>n DEF Purge
<1>13. CASE DnsTick
  <2>1. slot' \in [Names -> SlotKeys]
    BY <1>13, <1>n DEF DnsTick, AgedSlot, SlotKeys
  <2>2. \A e \in Entries : [e EXCEPT !.left = @ - 1] \in Entries
    BY DEF Entries
  <2>3. cache' \in [traffic -> Entries]
    BY <1>13, <2>2, <1>n DEF DnsTick
  <2>4. held' \in [Names -> [Values -> Nat]] /\ failed' \in Nat
    BY <1>13, <1>0 DEF DnsTick, Older
  <2>5. waited' \in 0..MaxDelay
    BY <1>13, <1>0 DEF DnsTick
  <2> QED BY <1>13, <2>1, <2>3, <2>4, <2>5 DEF DnsTick
<1>14. CASE UNCHANGED dnsVars
  BY <1>14 DEF dnsVars
<1> QED BY <1>2, <1>3, <1>4, <1>5, <1>6, <1>7, <1>8, <1>9, <1>10, <1>11, <1>12, <1>13, <1>14
        DEF DnsNext, Handler

\* Every step keeps the echoes.
LEMMA EchoStep == DnsTypes /\ EchoInv /\ [DnsNext]_dnsVars => EchoInv'
<1> SUFFICES ASSUME DnsTypes, EchoInv, [DnsNext]_dnsVars PROVE EchoInv'
  OBVIOUS
<1> USE DEF EchoInv
<1>p. /\ pc # "idle" => packet \in traffic /\ packet \in Packets
      /\ cache \in [traffic -> Entries]
  BY TrafficPackets DEF DnsTypes
<1>1. ASSUME NEW n \in Names, DelSlot(n) \/ \E v \in Values \ {NoAddr} : SetSlot(n, v)
      PROVE EchoInv'
  BY <1>1 DEF DelSlot, SetSlot, SlotChanges
<1>2. ASSUME NEW p \in traffic, Receive(p) PROVE EchoInv'
  BY <1>2 DEF Receive, DnsGoto
<1>3. CASE LookupCache
  BY <1>3, <1>p DEF LookupCache, GetCachedResponse, GenerateCacheKey, DnsGoto
<1>4. CASE ParsePacket
  <2>1. pc' = "store" => Echoes(packet', reply')
    BY <1>4, <1>p, BuiltReplies DEF ParsePacket, DnsGoto
  <2> QED BY <1>4, <2>1 DEF ParsePacket, DnsGoto
<1>5. CASE LookupSlotInRedis
  BY <1>5 DEF LookupSlotInRedis, DnsGoto
<1>6. CASE BuildResponse
  <2>1. Echoes(packet', reply')
    BY <1>6, <1>p, BuiltReplies DEF BuildResponse, DnsTypes
  <2> QED BY <1>6, <2>1 DEF BuildResponse
<1>7. CASE CacheResponse
  BY <1>7, <1>p DEF CacheResponse, DnsGoto
<1>8. CASE SendReply
  BY <1>8 DEF SendReply, DnsGoto
<1>9. CASE SignalStop \/ StopServer
  BY <1>9 DEF SignalStop, StopServer
<1>10. CASE Purge
  BY <1>10 DEF Purge, NoEntry
<1>11. CASE DnsTick
  <2>1. \A e \in Entries : /\ [e EXCEPT !.left = @ - 1].left = e.left - 1 /\ e.left \in Int
                           /\ [e EXCEPT !.left = @ - 1].r = e.r
    BY DEF Entries
  <2>2. \A p \in traffic : cache'[p].left > 0 => cache[p].left > 0 /\ cache'[p].r = cache[p].r
    BY <1>11, <1>p, <2>1 DEF DnsTick, NoEntry
  <2> QED BY <1>11, <2>2 DEF DnsTick
<1>12. CASE UNCHANGED dnsVars
  BY <1>12 DEF dnsVars
<1> QED BY <1>1, <1>2, <1>3, <1>4, <1>5, <1>6, <1>7, <1>8, <1>9, <1>10, <1>11, <1>12
        DEF DnsNext, Handler

\* Ages h, f that grow to at most h2, f2 while the budget grows from b to c keep
\* an answer recent.
LEMMA RecentlyKept ==
  ASSUME NEW h \in [Names -> [Values -> Nat]], NEW f \in Nat,
         NEW h2 \in [Names -> [Values -> Nat]], NEW f2 \in Nat,
         NEW p, p.name \in Names, NEW r, NEW b \in Int, NEW c \in Int,
         \A v \in Values : h2[p.name][v] <= h[p.name][v] + (c - b),
         f2 <= f + (c - b),
         Recently(h, f, p, r, b)
  PROVE  Recently(h2, f2, p, r, c)
<1>1. CASE \E v \in Values : h[p.name][v] <= b /\ SaysFor(p, v, r)
  <2>1. PICK v \in Values : h[p.name][v] <= b /\ SaysFor(p, v, r)
    BY <1>1
  <2>2. h2[p.name][v] <= c
    <3>1. h2[p.name][v] \in Nat /\ h[p.name][v] \in Nat
      OBVIOUS
    <3>2. h2[p.name][v] <= h[p.name][v] + (c - b)
      OBVIOUS
    <3> QED BY <2>1, <3>1, <3>2
  <2> QED BY <2>1, <2>2 DEF Recently
<1>2. CASE f <= b /\ SaysFor(p, NoAddr, r)
  <2>1. f2 <= c
    BY <1>2
  <2> QED BY <1>2, <2>1 DEF Recently
<1> QED BY <1>1, <1>2 DEF Recently

\* Every step keeps the ages within their budgets.
LEMMA FreshStep == DnsTypes /\ DnsTypes' /\ FreshInv /\ [DnsNext]_dnsVars => FreshInv'
<1> SUFFICES ASSUME DnsTypes, DnsTypes', FreshInv, [DnsNext]_dnsVars PROVE FreshInv'
  OBVIOUS
<1>0. NoAddr \in Values /\ MaxDelay \in Nat \ {0} /\ CacheTtl \in Nat \ {0} /\ Never \in Nat
  BY DnsAssumption DEF Values, Never, Window
<1>p. \A p \in traffic : p \in Packets /\ p.name \in Names
  BY TrafficPackets DEF DnsTypes
<1>q. pc # "idle" => packet \in traffic /\ packet \in Packets /\ packet.name \in Names
  BY <1>p DEF DnsTypes
<1>c. \A p \in traffic : cache[p].left \in Int
  BY DEF DnsTypes, Entries
<1>h. /\ held \in [Names -> [Values -> Nat]] /\ failed \in Nat
      /\ held' \in [Names -> [Values -> Nat]] /\ failed' \in Nat
      /\ waited \in 0..MaxDelay /\ waited' \in Int
  BY <1>0 DEF DnsTypes
\* No age grows: every answer stays as recent as it was.
<1>k. ASSUME \A m \in Names : \A v \in Values : held'[m][v] <= held[m][v], failed' <= failed,
             NEW p, p.name \in Names, NEW r, NEW b \in Int, NEW c \in Int, b <= c,
             Recently(held, failed, p, r, b)
      PROVE  Recently(held', failed', p, r, c)
  <2>1. \A v \in Values : held'[p.name][v] <= held[p.name][v] + (c - b)
    BY <1>h, <1>k
  <2>2. failed' <= failed + (c - b)
    BY <1>h, <1>k
  <2> QED BY <1>h, <1>k, <2>1, <2>2, RecentlyKept
<1>u. ASSUME UNCHANGED <<held, failed>>
      PROVE  failed' <= failed /\ \A m \in Names : \A v \in Values : held'[m][v] <= held[m][v]
  BY <1>u, <1>h
\* A slot changes: its new value is of age 0.
<1>1. ASSUME NEW n \in Names, NEW s \in SlotKeys, SlotChanges(n, s) PROVE FreshInv'
  <2>1. s.v \in Values
    BY DEF SlotKeys
  <2>2. \A m \in Names : \A v \in Values : held'[m][v] <= held[m][v]
    BY <1>1, <2>1 DEF SlotChanges, DnsTypes
  <2>3. \A m \in Names : held'[m][slot'[m].v] = 0
    BY <1>1, <2>1 DEF SlotChanges, DnsTypes, FreshInv
  <2>f. failed' <= failed
    BY <1>1, <1>h DEF SlotChanges
  <2>5. pc' = "build" => \/ held'[packet'.name][found'] <= waited'
                         \/ failed' <= waited' /\ found' = NoAddr
    <3> SUFFICES ASSUME pc = "build"
                 PROVE \/ held'[packet.name][found] <= waited
                       \/ failed <= waited /\ found = NoAddr
      BY <1>1 DEF SlotChanges
    <3>1. found \in Values /\ packet.name \in Names
      BY <1>q DEF DnsTypes
    <3>2. held'[packet.name][found] <= held[packet.name][found]
      BY <2>2, <3>1
    <3>3. held'[packet.name][found] \in Nat /\ held[packet.name][found] \in Nat
      BY <3>1, <1>h
    <3> QED BY <3>2, <3>3, <1>h DEF FreshInv
  <2>6. pc = "store" /\ packet.kind = "query" => Recently(held', failed', packet, reply, waited)
    BY <1>k, <2>2, <2>f, <1>q, <1>h DEF FreshInv
  <2>7. pc = "send" /\ packet.kind = "query" =>
           Recently(held', failed', packet, reply, MaxDelay + CacheTtl - 1 + waited)
    BY <1>k, <2>2, <2>f, <1>q, <1>h, <1>0 DEF FreshInv
  <2>8. \A p \in traffic : cache[p].left > 0 /\ p.kind = "query" =>
           Recently(held', failed', p, cache[p].r, MaxDelay + CacheTtl - cache[p].left)
    BY <1>k, <2>2, <2>f, <1>p, <1>c, <1>0 DEF FreshInv
  <2> QED BY <1>1, <2>3, <2>5, <2>6, <2>7, <2>8 DEF SlotChanges, FreshInv
<1>2. ASSUME NEW n \in Names, DelSlot(n) PROVE FreshInv'
  <2>1. NoSlot \in SlotKeys
    BY <1>0 DEF NoSlot, SlotKeys
  <2> QED BY <1>1, <1>2, <2>1 DEF DelSlot
<1>3. ASSUME NEW n \in Names, NEW v \in Values, SetSlot(n, v) PROVE FreshInv'
  <2>1. [v |-> v, left |-> SlotTtl] \in SlotKeys
    BY DnsAssumption DEF SlotKeys
  <2> QED BY <1>1, <1>3, <2>1 DEF SetSlot
<1>4. ASSUME NEW p \in traffic, Receive(p) PROVE FreshInv'
  BY <1>4 DEF Receive, DnsGoto, FreshInv
\* An entry that is served has life left: its age is below the cache's.
<1>5. CASE LookupCache
  <2>0. UNCHANGED <<held, failed, slot, cache, traffic, packet>> /\ pc = "cache"
    BY <1>5 DEF LookupCache
  <2>1. CASE pc' = "send"
    <3>1. cache[packet].left > 0 /\ reply' = cache[packet].r /\ waited' = 0
      BY <1>5, <2>1 DEF LookupCache, GetCachedResponse, GenerateCacheKey, DnsGoto
    <3>2. packet \in traffic /\ packet.name \in Names /\ cache[packet].left \in Int
      BY <2>0, <1>q, <1>c
    <3>3. packet.kind = "query" =>
             Recently(held, failed, packet, reply', MaxDelay + CacheTtl - cache[packet].left)
      BY <3>1, <3>2 DEF FreshInv
    <3>4. packet.kind = "query" =>
             Recently(held', failed', packet, reply', MaxDelay + CacheTtl - 1 + waited')
      <4>1. /\ MaxDelay + CacheTtl - cache[packet].left \in Int
            /\ MaxDelay + CacheTtl - 1 + waited' \in Int
            /\ MaxDelay + CacheTtl - cache[packet].left <= MaxDelay + CacheTtl - 1 + waited'
        BY <3>1, <3>2, <1>0
      <4> QED BY <2>0, <3>2, <3>3, <4>1, <1>k, <1>u
    <3> QED BY <2>0, <2>1, <3>4 DEF FreshInv
  <2>2. CASE pc' = "parse"
    BY <2>0, <2>2 DEF FreshInv
  <2> QED BY <1>5, <2>1, <2>2 DEF LookupCache, DnsGoto
<1>6. CASE ParsePacket
  BY <1>6 DEF ParsePacket, DnsGoto, FreshInv
\* The value read is the slot's now, or the call fails now.
<1>7. CASE LookupSlotInRedis
  <2>0. packet.name \in Names
    BY <1>7, <1>q DEF LookupSlotInRedis
  <2>1. held[packet.name][slot[packet.name].v] = 0
    BY <2>0 DEF FreshInv
  <2>2. \/ held'[packet'.name][found'] <= waited'
        \/ failed' <= waited' /\ found' = NoAddr
    BY <1>7, <2>1 DEF LookupSlotInRedis, DnsGoto
  <2>3. failed' <= failed /\ \A m \in Names : \A v \in Values : held'[m][v] <= held[m][v]
    BY <1>7, <1>h DEF LookupSlotInRedis
  <2>4. \A p \in traffic : cache[p].left > 0 /\ p.kind = "query" =>
           Recently(held', failed', p, cache[p].r, MaxDelay + CacheTtl - cache[p].left)
    BY <1>k, <2>3, <1>p, <1>c, <1>0 DEF FreshInv
  <2>5. pc' = "build" /\ UNCHANGED <<held, slot, cache, traffic>>
    BY <1>7 DEF LookupSlotInRedis, DnsGoto
  <2> QED BY <2>2, <2>4, <2>5 DEF FreshInv
<1>8. CASE BuildResponse
  <2>0. /\ UNCHANGED <<held, failed, slot, cache, traffic, packet, found, waited>>
        /\ pc = "build" /\ pc' = "store" /\ reply' = BuildDnsResponse(packet, found)
    BY <1>8 DEF BuildResponse
  <2>1. SaysFor(packet, found, reply')
    BY <2>0 DEF SaysFor
  <2>2. Recently(held, failed, packet, reply', waited)
    BY <2>0, <2>1, <1>0 DEF FreshInv, Recently, DnsTypes
  <2> QED BY <2>0, <2>2 DEF FreshInv
\* The answer waited at most MaxDelay before it is cached and sent.
<1>9. CASE CacheResponse
  <2>0. /\ UNCHANGED <<held, failed, slot, traffic, packet, reply>>
        /\ pc = "store" /\ pc' = "send" /\ waited' = 0
        /\ cache' = [cache EXCEPT ![packet] = [r |-> reply, left |-> CacheTtl]]
    BY <1>9 DEF CacheResponse, DnsGoto, EntryTtl
  <2>1. packet \in traffic /\ packet.name \in Names
    BY <2>0, <1>q
  <2>2. packet.kind = "query" => Recently(held, failed, packet, reply, waited)
    BY <2>0 DEF FreshInv
  <2>3. ASSUME packet.kind = "query"
        PROVE  /\ Recently(held', failed', packet, reply, MaxDelay + CacheTtl - 1 + waited')
               /\ Recently(held', failed', packet, reply, MaxDelay + CacheTtl - CacheTtl)
    <3>1. /\ waited \in Int /\ waited <= MaxDelay + CacheTtl - 1 + waited'
          /\ waited <= MaxDelay + CacheTtl - CacheTtl
          /\ MaxDelay + CacheTtl - 1 + waited' \in Int /\ MaxDelay + CacheTtl - CacheTtl \in Int
      BY <2>0, <1>h, <1>0
    <3> QED BY <2>0, <2>1, <2>2, <2>3, <3>1, <1>k, <1>u
  <2>4. \A p \in traffic : cache'[p].left > 0 /\ p.kind = "query" =>
           Recently(held', failed', p, cache'[p].r, MaxDelay + CacheTtl - cache'[p].left)
    <3> SUFFICES ASSUME NEW p \in traffic, cache'[p].left > 0, p.kind = "query"
                 PROVE Recently(held', failed', p, cache'[p].r, MaxDelay + CacheTtl - cache'[p].left)
      OBVIOUS
    <3>1. CASE p = packet
      <4>1. cache'[p] = [r |-> reply, left |-> CacheTtl]
        BY <2>0, <3>1 DEF DnsTypes
      <4> QED BY <2>3, <3>1, <4>1
    <3>2. CASE p # packet
      <4>1. cache'[p] = cache[p]
        BY <2>0, <3>2 DEF DnsTypes
      <4> QED BY <2>0, <4>1 DEF FreshInv
    <3> QED BY <3>1, <3>2
  <2> QED BY <2>0, <2>3, <2>4 DEF FreshInv
<1>10. CASE SendReply
  BY <1>10 DEF SendReply, DnsGoto, FreshInv
<1>11. CASE SignalStop \/ StopServer
  BY <1>11 DEF SignalStop, StopServer, FreshInv
<1>12. CASE Purge
  <2>1. \A p \in traffic : cache'[p].left > 0 => cache'[p] = cache[p]
    BY <1>12 DEF Purge, NoEntry
  <2>2. UNCHANGED <<held, failed, slot, traffic, packet, reply, found, waited, pc>>
    BY <1>12 DEF Purge
  <2> QED BY <2>1, <2>2 DEF FreshInv
\* Time passes: every age and every budget grow by one at most.
<1>13. CASE DnsTick
  <2>0. /\ UNCHANGED <<traffic, pc, packet, found, reply>>
        /\ pc # "idle" => waited' = waited + 1
        /\ failed' = Older(failed)
    BY <1>13 DEF DnsTick
  <2>1. \A a \in Nat : Older(a) <= a + 1
    BY <1>0 DEF Older
  <2>2. \A n \in Names : \A v \in Values : held'[n][v] <= held[n][v] + 1
    BY <1>13, <1>h, <2>1 DEF DnsTick
  <2>3. failed' <= failed + 1
    BY <2>0, <2>1, <1>h
  <2>4. ASSUME NEW p, p.name \in Names, NEW r, NEW b \in Int, Recently(held, failed, p, r, b)
        PROVE  Recently(held', failed', p, r, b + 1)
    <3>1. \A v \in Values : held'[p.name][v] <= held[p.name][v] + ((b + 1) - b)
      BY <2>2, <2>4, <1>h
    <3>2. failed' <= failed + ((b + 1) - b)
      BY <2>3, <1>h
    <3>3. b + 1 \in Int
      OBVIOUS
    <3> QED BY <2>4, <3>1, <3>2, <3>3, <1>h, RecentlyKept
  <2>5. \A n \in Names : held'[n][slot'[n].v] = 0
    <3>1. \A n \in Names : slot'[n].v \in Values
      BY DEF DnsTypes, SlotKeys
    <3> QED BY <1>13, <3>1 DEF DnsTick
  <2>6. pc' = "build" => \/ held'[packet'.name][found'] <= waited'
                         \/ failed' <= waited' /\ found' = NoAddr
    <3> SUFFICES ASSUME pc = "build"
                 PROVE \/ held'[packet.name][found] <= waited'
                       \/ failed' <= waited' /\ found = NoAddr
      BY <2>0
    <3>1. found \in Values /\ packet.name \in Names
      BY <1>q DEF DnsTypes
    <3>2. held'[packet.name][found] <= held[packet.name][found] + 1
      BY <2>2, <3>1
    <3>3. held'[packet.name][found] \in Nat /\ held[packet.name][found] \in Nat
      BY <3>1, <1>h
    <3> QED BY <2>0, <2>3, <3>2, <3>3, <1>h DEF FreshInv
  <2>7. pc = "store" /\ packet.kind = "query" => Recently(held', failed', packet, reply, waited')
    BY <2>0, <2>4, <1>q, <1>h DEF FreshInv
  <2>8. pc = "send" /\ packet.kind = "query" =>
           Recently(held', failed', packet, reply, MaxDelay + CacheTtl - 1 + waited')
    <3>1. pc = "send" => /\ MaxDelay + CacheTtl - 1 + waited \in Int
                         /\ MaxDelay + CacheTtl - 1 + waited' = (MaxDelay + CacheTtl - 1 + waited) + 1
      BY <2>0, <1>h, <1>0
    <3> QED BY <2>0, <2>4, <3>1, <1>q DEF FreshInv
  <2>9. ASSUME NEW p \in traffic, cache'[p].left > 0, p.kind = "query"
        PROVE  Recently(held', failed', p, cache'[p].r, MaxDelay + CacheTtl - cache'[p].left)
    <3>1. \A e \in Entries : /\ [e EXCEPT !.left = @ - 1].left = e.left - 1 /\ e.left \in Int
                             /\ [e EXCEPT !.left = @ - 1].r = e.r
      BY DEF Entries
    <3>2. cache[p].left > 0 /\ cache'[p].r = cache[p].r /\ cache'[p].left = cache[p].left - 1
      BY <1>13, <2>9, <3>1 DEF DnsTick, NoEntry, DnsTypes
    <3>3. Recently(held, failed, p, cache[p].r, MaxDelay + CacheTtl - cache[p].left)
      BY <2>9, <3>2 DEF FreshInv
    <3>4. /\ MaxDelay + CacheTtl - cache[p].left \in Int
          /\ MaxDelay + CacheTtl - cache'[p].left = (MaxDelay + CacheTtl - cache[p].left) + 1
      BY <3>2, <1>c, <1>0
    <3> QED BY <2>4, <3>2, <3>3, <3>4, <1>p
  <2> QED BY <2>0, <2>5, <2>6, <2>7, <2>8, <2>9 DEF FreshInv
<1>14. CASE UNCHANGED dnsVars
  BY <1>14 DEF dnsVars, FreshInv
<1> QED BY <1>2, <1>3, <1>4, <1>5, <1>6, <1>7, <1>8, <1>9, <1>10, <1>11, <1>12, <1>13, <1>14
        DEF DnsNext, Handler

\* The server's invariant holds in every state it can reach.
THEOREM DnsInvariance == DnsSpec => []DnsInv
<1>1. DnsInit => DnsInv
  BY DnsStarts
<1>2. DnsInv /\ [DnsNext]_dnsVars => DnsInv'
  BY DnsTypesStep, EchoStep, FreshStep DEF DnsInv
<1> QED BY <1>1, <1>2, PTL DEF DnsSpec

\* A response carries the id and the question of the packet it answers, whether
\* handle_packet built it or found it in the response cache.
THEOREM RepliesEcho == DnsSpec => []ReplyEchoesQuery
<1>1. DnsInv => ReplyEchoesQuery
  BY DEF DnsInv, EchoInv, Echoes, ReplyEchoesQuery
<1> QED BY <1>1, DnsInvariance, PTL

\* What is sent is the answer for a value the slot had, or a failure that
\* happened, within one life of a cached response and two awaits.
THEOREM RepliesFresh == DnsSpec => []AnswersFresh
<1>1. DnsInv => AnswersFresh
  <2> SUFFICES ASSUME DnsInv, pc = "send", packet.kind = "query" PROVE AnswersFresh
    BY DEF AnswersFresh
  <2>1. packet.name \in Names
    BY TrafficPackets DEF DnsInv, DnsTypes
  <2>2. /\ held \in [Names -> [Values -> Nat]] /\ failed \in Nat
        /\ waited \in Int /\ waited <= MaxDelay /\ MaxDelay \in Nat /\ CacheTtl \in Nat
    BY DnsAssumption DEF DnsInv, DnsTypes
  <2>3. Recently(held, failed, packet, reply, MaxDelay + CacheTtl - 1 + waited)
    BY DEF DnsInv, FreshInv
  <2>4. /\ MaxDelay + CacheTtl - 1 + waited \in Int /\ Window \in Int
        /\ MaxDelay + CacheTtl - 1 + waited <= Window
    BY <2>2 DEF Window
  <2>5. Recently(held, failed, packet, reply, Window)
    <3>1. \A v \in Values : held[packet.name][v] <=
             held[packet.name][v] + (Window - (MaxDelay + CacheTtl - 1 + waited))
      BY <2>1, <2>2, <2>4
    <3>2. failed <= failed + (Window - (MaxDelay + CacheTtl - 1 + waited))
      BY <2>2, <2>4
    <3> QED BY <2>1, <2>2, <2>3, <2>4, <3>1, <3>2, RecentlyKept
  <2> QED BY <2>5 DEF Recently, SaysFor, AnswersFresh
<1> QED BY <1>1, DnsInvariance, PTL

-----------------------------------------------------------------------------
(* ResponseCompression. *)

\* The cardinality the code compares with its limit is that of a finite map.
CompInv == IsFiniteSet(patterns) /\ PatternsBounded

\* An insertion, into a cache that other tasks may have filled since the look-up,
\* keeps it within its limit: a full one first loses at least one entry.
LEMMA InsertBounded ==
  ASSUME CompInv, NEW r, InsertPattern(r)
  PROVE  CompInv'
<1>0. /\ IsFiniteSet(patterns) /\ Cardinality(patterns) \in Nat
      /\ Cardinality(patterns) <= PatternCap /\ PatternCap \in Nat
      /\ EvictCount \in Nat \ {0} /\ EvictCount <= PatternCap
  BY FS_CardinalityType, CompressionAssumption DEF CompInv, PatternsBounded
<1>1. ASSUME NEW kept, IsFiniteSet(kept), Cardinality(kept) < PatternCap, patterns' = kept \cup {r}
      PROVE  CompInv'
  <2>1. /\ IsFiniteSet(kept \cup {r}) /\ Cardinality(kept) \in Nat
        /\ Cardinality(kept \cup {r}) = IF r \in kept THEN Cardinality(kept)
                                                    ELSE Cardinality(kept) + 1
    BY <1>1, FS_AddElement, FS_CardinalityType
  <2> QED BY <1>0, <1>1, <2>1 DEF CompInv, PatternsBounded
<1>2. CASE Cardinality(patterns) >= PatternCap
  <2>1. PICK gone \in SUBSET patterns : /\ Cardinality(gone) = EvictCount
                                        /\ patterns' = (patterns \ gone) \cup {r}
    BY <1>2 DEF InsertPattern, InsertWithin
  <2>2. IsFiniteSet(gone) /\ patterns \cap gone = gone
    BY <1>0, <2>1, FS_Subset
  <2>3. /\ IsFiniteSet(patterns \ gone)
        /\ Cardinality(patterns \ gone) = Cardinality(patterns) - EvictCount
    BY <1>0, <2>1, <2>2, FS_Difference
  <2>4. Cardinality(patterns \ gone) < PatternCap
    BY <1>0, <2>3
  <2> QED BY <1>1, <2>1, <2>3, <2>4
<1>3. CASE Cardinality(patterns) < PatternCap
  BY <1>0, <1>1, <1>3 DEF InsertPattern, InsertWithin
<1> QED BY <1>0, <1>2, <1>3

\* Concurrent compressions never push the pattern cache past its limit.
THEOREM PatternsWithinCap == CompSpec => []PatternsBounded
<1>1. CompInit => CompInv
  BY FS_EmptySet, CompressionAssumption DEF CompInit, CompInv, PatternsBounded
<1>2. CompInv /\ [CompNext \/ MetricsNext]_compVars => CompInv'
  <2> SUFFICES ASSUME CompInv, [CompNext \/ MetricsNext]_compVars PROVE CompInv'
    OBVIOUS
  <2>1. CASE UNCHANGED patterns
    BY <2>1 DEF CompInv, PatternsBounded
  <2>2. ASSUME NEW t \in Tasks, CompressData(t) PROVE CompInv'
    BY <2>1, <2>2, InsertBounded DEF CompressData
  <2>3. ASSUME NEW t \in Tasks, CheckSize(t) \/ Deliver(t) PROVE CompInv'
    BY <2>1, <2>3 DEF CheckSize, Deliver
  <2>4. ASSUME NEW t \in Tasks, NEW r \in Responses, StartCompress(t, r) PROVE CompInv'
    BY <2>1, <2>4 DEF StartCompress
  <2>5. CASE ResetStats \/ MetricsNext
    BY <2>1, <2>5 DEF ResetStats, MetricsNext, ResetMetrics, UpdateMetrics
  <2>6. CASE UNCHANGED compVars
    BY <2>1, <2>6 DEF compVars
  <2> QED BY <2>2, <2>3, <2>4, <2>5, <2>6 DEF CompNext
<1> QED BY <1>1, <1>2, PTL DEF CompSpec, CompInv

-----------------------------------------------------------------------------
(* DnssecSigner: the lists of keys. *)

\* A set of numbers that is not empty has a least one.
LEMMA LeastNumber ==
  ASSUME NEW S \in SUBSET Nat, S # {}
  PROVE  \E i \in S : \A j \in S : i <= j
<1>1. PICK i \in S : \A j \in S : ~(<<j, i>> \in OpToRel(<, Nat))
  BY NatLessThanWellFounded, WFMin
<1>2. \A j \in S : ~(j < i)
  BY <1>1 DEF OpToRel
<1> QED BY <1>2

\* Vec::retain: each position kept has its rank, each rank its position, and
\* the order is kept.
LEMMA Ranks ==
  ASSUME NEW n \in Nat, NEW kept \in SUBSET (1..n)
  PROVE  /\ Cardinality(kept) \in Nat
         /\ \A i \in kept : Rank(kept, i) \in 1..Cardinality(kept)
         /\ \A i, k \in kept : i < k => Rank(kept, i) < Rank(kept, k)
         /\ \A j \in 1..Cardinality(kept) : \E i \in kept : Rank(kept, i) = j
<1> DEFINE Upto(i) == {k \in kept : k <= i}
<1>0. \A i \in kept : i \in Nat
  OBVIOUS
<1>1. IsFiniteSet(kept) /\ Cardinality(kept) \in Nat
  <2>1. IsFiniteSet(1..n)
    BY FS_Interval
  <2>2. IsFiniteSet(kept)
    BY <2>1, FS_Subset
  <2> QED BY <2>2, FS_CardinalityType
<1>2. ASSUME NEW i \in kept
      PROVE  /\ IsFiniteSet(Upto(i)) /\ Cardinality(Upto(i)) \in 1..Cardinality(kept)
  <2>1. IsFiniteSet(Upto(i)) /\ Cardinality(Upto(i)) <= Cardinality(kept)
    BY <1>1, FS_Subset
  <2>2. Cardinality(Upto(i)) \in Nat /\ Cardinality(Upto(i)) # 0
    BY <2>1, <1>0, FS_CardinalityType, FS_EmptySet
  <2> QED BY <1>1, <2>1, <2>2
<1>3. ASSUME NEW i \in kept, NEW k \in kept, i < k
      PROVE  Rank(kept, i) < Rank(kept, k)
  <2>0. \A x \in kept : x <= i => x <= k
    BY <1>3, <1>0
  <2>a. k <= k /\ ~(k <= i)
    BY <1>3, <1>0
  <2>1. Upto(i) \in SUBSET Upto(k) /\ k \in Upto(k) /\ k \notin Upto(i)
    BY <2>0, <2>a, Zenon
  <2>2. Cardinality(Upto(i)) <= Cardinality(Upto(k)) /\ Cardinality(Upto(i)) # Cardinality(Upto(k))
    BY <1>2, <2>1, FS_Subset
  <2> HIDE DEF Upto
  <2>3. Cardinality(Upto(i)) < Cardinality(Upto(k))
    BY <1>2, <1>1, <2>2
  <2> QED BY <2>3 DEF Rank, Upto
<1>4. \A i \in kept : Rank(kept, i) \in 1..Cardinality(kept)
  BY <1>2 DEF Rank
<1>5. \A i, k \in kept : Rank(kept, i) = Rank(kept, k) => i = k
  <2> SUFFICES ASSUME NEW i \in kept, NEW k \in kept, i # k PROVE Rank(kept, i) # Rank(kept, k)
    OBVIOUS
  <2>1. i < k \/ k < i
    BY <1>0
  <2>2. Rank(kept, i) \in Nat /\ Rank(kept, k) \in Nat
    BY <1>1, <1>4
  <2> QED BY <1>3, <2>1, <2>2
<1>7. \A j \in 1..Cardinality(kept) : \E i \in kept : Rank(kept, i) = j
  <2> DEFINE f == [i \in kept |-> Rank(kept, i)]
  <2>1. f \in [kept -> 1..Cardinality(kept)] /\ \A i \in kept : f[i] = Rank(kept, i)
    BY <1>4
  <2> HIDE DEF f
  <2>2. f \in Injection(kept, 1..Cardinality(kept))
    BY <1>5, <2>1 DEF Injection, IsInjective
  <2>3. IsFiniteSet(1..Cardinality(kept)) /\ Cardinality(1..Cardinality(kept)) = Cardinality(kept)
    BY <1>1, FS_Interval
  <2>4. f \in Surjection(kept, 1..Cardinality(kept))
    BY <2>2, <2>3, FS_Injection
  <2> QED BY <2>1, <2>4 DEF Surjection
<1> QED BY <1>1, <1>3, <1>4, <1>7

\* Vec::retain: the element at a position kept is found at its rank.
LEMMA RetainedElements ==
  ASSUME NEW n \in Nat, NEW s, NEW kept \in SUBSET (1..n)
  PROVE  \A i \in kept : Retained(s, kept)[Rank(kept, i)] = s[i]
<1>0. Cardinality(kept) \in Nat
  BY Ranks
<1>1. \A i \in kept : i \in Nat /\ Rank(kept, i) \in 1..Cardinality(kept)
                     /\ Rank(kept, i) \in Nat
  BY <1>0, Ranks
<1>2. \A i, k \in kept : i < k => Rank(kept, i) < Rank(kept, k)
  BY <1>0, Ranks
<1>3. \A i, k \in kept : Rank(kept, i) = Rank(kept, k) => i = k
  <2> SUFFICES ASSUME NEW i \in kept, NEW k \in kept, i # k PROVE Rank(kept, i) # Rank(kept, k)
    OBVIOUS
  <2>1. i < k \/ k < i
    BY <1>1
  <2> QED BY <1>1, <1>2, <2>1
<1> QED BY <1>1, <1>3 DEF Retained

Keys == [id : KeyIds, left : Int, active : BOOLEAN]
Sigs == [key : KeyIds \cup {NoKey}, life : Int]
Rotations == [pc : {"idle", "generate", "mark"}, todo : SUBSET Algs, took : Nat,
              failed : SUBSET Algs]
CachedSigs == [sig : Sigs, age : Nat]
Statuses == {"none", "Error", "Invalid", "Valid", "Unsigned"}
Rrsigs == [pc : {"idle", "make", "made", "signed", "tagged", "validated"}, alg : Algs,
           sig : Sigs, tag : KeyIds \cup {NoKey}, status : Statuses, took : Nat]

SignTypes ==
    /\ keys \in [Algs -> Seq(Keys)]
    /\ rotAge \in Nat
    /\ rot \in [Rotators -> Rotations]
    /\ sigCache \in [Algs -> CachedSigs]
    /\ rrsig \in Rrsigs
    /\ missed \in SUBSET Algs

\* The signature s was made with the key of ks that get_active_key returns.
FirstUsable(ks, s) ==
    \E i \in 1..Len(ks) :
        /\ ks[i].id = s.key /\ ks[i].left = s.life /\ ks[i].active
        /\ \A j \in 1..Len(ks) : j < i => ~Usable(ks[j])

\* ks has a key with x or more ahead of it.
HasKey(ks, x) == x <= 0 \/ \E i \in 1..Len(ks) : ks[i].active /\ ks[i].left >= x

\* The constants are numbers.
LEMMA SignNumbers ==
  /\ Interval \in Nat \ {0} /\ Grace \in Nat \ {0} /\ SigTtl \in Nat \ {0} /\ MaxHold \in Nat \ {0}
  /\ \A k \in KeyIds : k \in Nat /\ k # NoKey
  /\ Stale \in Nat \ {0} /\ Stale = SigTtl + MaxHold
  /\ NoSig \in Sigs /\ NoSig.life = -Stale /\ NoSig.key = NoKey
  /\ \A id \in KeyIds : NewKey(id) \in Keys
<1>1. /\ Interval \in Nat \ {0} /\ Grace \in Nat \ {0} /\ SigTtl \in Nat \ {0} /\ MaxHold \in Nat \ {0}
      /\ \A k \in KeyIds : k \in Nat /\ k # NoKey
  BY SignerAssumption DEF NoKey
<1>2. Stale \in Nat \ {0} /\ Stale = SigTtl + MaxHold
  BY <1>1 DEF Stale
<1> QED BY <1>1, <1>2 DEF NoSig, Sigs, NewKey, Keys, NoKey

\* get_active_key: a usable key with none before it, or none is usable.
LEMMA ActiveKey ==
  ASSUME keys \in [Algs -> Seq(Keys)], NEW a \in Algs
  PROVE  \/ /\ \A i \in 1..Len(keys[a]) : ~Usable(keys[a][i])
            /\ GetActiveKey(a) = [id |-> NoKey, left |-> -Stale]
         \/ \E i \in 1..Len(keys[a]) :
               /\ Usable(keys[a][i])
               /\ \A j \in 1..Len(keys[a]) : j < i => ~Usable(keys[a][j])
               /\ GetActiveKey(a) = keys[a][i]
<1> DEFINE U == {i \in DOMAIN keys[a] : Usable(keys[a][i])}
<1>1. Len(keys[a]) \in Nat /\ DOMAIN keys[a] = 1..Len(keys[a])
  BY LenProperties
<1>2. CASE U = {}
  BY <1>1, <1>2 DEF GetActiveKey
<1>3. CASE U # {}
  <2>1. U \in SUBSET Nat
    BY <1>1
  <2>2. \E i \in U : \A j \in U : i <= j
    BY <1>3, <2>1, LeastNumber
  <2> DEFINE m == CHOOSE i \in U : \A j \in U : i <= j
  <2>3. m \in U /\ \A j \in U : m <= j
    BY <2>2
  <2>4. GetActiveKey(a) = keys[a][m]
    BY <1>3 DEF GetActiveKey
  <2> HIDE DEF m
  <2>5. m \in 1..Len(keys[a]) /\ Usable(keys[a][m])
    BY <1>1, <2>3
  <2>6. \A j \in 1..Len(keys[a]) : j < m => ~Usable(keys[a][j])
    <3> SUFFICES ASSUME NEW j \in 1..Len(keys[a]), j < m, Usable(keys[a][j]) PROVE FALSE
      OBVIOUS
    <3>1. j \in U
      BY <1>1
    <3> QED BY <1>1, <2>3, <2>5, <3>1
  <2> QED BY <2>4, <2>5, <2>6
<1> QED BY <1>2, <1>3

\* The key of a signature that is the first usable one is the active key.
LEMMA FirstIsActive ==
  ASSUME keys \in [Algs -> Seq(Keys)], NEW a \in Algs, NEW s \in Sigs, s.life > 0,
         FirstUsable(keys[a], s)
  PROVE  GetActiveKey(a).id = s.key
<1>1. Len(keys[a]) \in Nat
  BY LenProperties
<1>2. PICK i \in 1..Len(keys[a]) :
         /\ keys[a][i].id = s.key /\ keys[a][i].left = s.life /\ keys[a][i].active
         /\ \A j \in 1..Len(keys[a]) : j < i => ~Usable(keys[a][j])
  BY DEF FirstUsable
<1>3. Usable(keys[a][i])
  BY <1>2 DEF Usable
<1>4. PICK k \in 1..Len(keys[a]) :
         /\ Usable(keys[a][k])
         /\ \A j \in 1..Len(keys[a]) : j < k => ~Usable(keys[a][j])
         /\ GetActiveKey(a) = keys[a][k]
  BY <1>3, ActiveKey
<1>5. i = k
  BY <1>1, <1>2, <1>3, <1>4
<1> QED BY <1>2, <1>4, <1>5

\* The active key's signature is of the first usable key.
LEMMA ActiveIsFirst ==
  ASSUME keys \in [Algs -> Seq(Keys)], NEW a \in Algs, GetActiveKey(a).id # NoKey
  PROVE  /\ GetActiveKey(a).id \in KeyIds /\ GetActiveKey(a).left \in Int /\ GetActiveKey(a).left > 0
         /\ FirstUsable(keys[a], [key |-> GetActiveKey(a).id, life |-> GetActiveKey(a).left])
<1>1. PICK k \in 1..Len(keys[a]) :
         /\ Usable(keys[a][k])
         /\ \A j \in 1..Len(keys[a]) : j < k => ~Usable(keys[a][j])
         /\ GetActiveKey(a) = keys[a][k]
  BY ActiveKey
<1>2. keys[a][k] \in Keys
  BY ElementOfSeq
<1> QED BY <1>1, <1>2 DEF Usable, FirstUsable, Keys

\* generate_key appends: the first usable key stays first, and no key is lost.
LEMMA PushedKey ==
  ASSUME NEW ks \in Seq(Keys), NEW k \in Keys
  PROVE  /\ PushKey(ks, k) \in Seq(Keys)
         /\ \A s : FirstUsable(ks, s) => FirstUsable(PushKey(ks, k), s)
         /\ \A x : HasKey(ks, x) => HasKey(PushKey(ks, k), x)
         /\ \A x \in Int : k.active /\ k.left >= x => HasKey(PushKey(ks, k), x)
<1>1. /\ Append(ks, k) \in Seq(Keys) /\ Len(ks) \in Nat /\ Len(Append(ks, k)) = Len(ks) + 1
      /\ \A i \in 1..Len(ks) : Append(ks, k)[i] = ks[i] /\ i \in 1..Len(Append(ks, k))
      /\ Append(ks, k)[Len(ks) + 1] = k /\ Len(ks) + 1 \in 1..Len(Append(ks, k))
  OBVIOUS
<1>2. ASSUME NEW s, FirstUsable(ks, s) PROVE FirstUsable(Append(ks, k), s)
  <2>1. PICK i \in 1..Len(ks) :
           /\ ks[i].id = s.key /\ ks[i].left = s.life /\ ks[i].active
           /\ \A j \in 1..Len(ks) : j < i => ~Usable(ks[j])
    BY <1>2 DEF FirstUsable
  <2>2. \A j \in 1..Len(Append(ks, k)) : j < i => j \in 1..Len(ks)
    BY <1>1
  <2> QED BY <1>1, <2>1, <2>2 DEF FirstUsable
<1>3. \A x : HasKey(ks, x) => HasKey(Append(ks, k), x)
  BY <1>1 DEF HasKey
<1>4. \A x \in Int : k.active /\ k.left >= x => HasKey(Append(ks, k), x)
  BY <1>1 DEF HasKey
<1> QED BY <1>1, <1>2, <1>3, <1>4 DEF PushKey

\* deactivate_old_keys: keys that have not expired stay as they are, in order.
LEMMA DeactivatedKeys ==
  ASSUME NEW ks \in Seq(Keys)
  PROVE  /\ Deactivated(ks) \in Seq(Keys)
         /\ \A s : s.life \in Int /\ s.life > 0 /\ FirstUsable(ks, s) => FirstUsable(Deactivated(ks), s)
         /\ \A x \in Int : HasKey(ks, x) => HasKey(Deactivated(ks), x)
<1> DEFINE kept == {i \in DOMAIN ks : ks[i].left + Grace > 0}
           marked == [i \in DOMAIN ks |->
                        IF ks[i].left < 0 THEN [ks[i] EXCEPT !.active = FALSE] ELSE ks[i]]
           new == Deactivated(ks)
<1>0. Grace \in Nat \ {0}
  BY SignNumbers
<1>1. Len(ks) \in Nat /\ DOMAIN ks = 1..Len(ks) /\ \A i \in 1..Len(ks) : ks[i] \in Keys
  BY LenProperties, ElementOfSeq
<1>2. \A i \in 1..Len(ks) : /\ marked[i] \in Keys
                            /\ ks[i].left >= 0 => marked[i] = ks[i]
                            /\ Usable(marked[i]) => Usable(ks[i])
  <2>1. \A k \in Keys : /\ [k EXCEPT !.active = FALSE] \in Keys
                        /\ ~Usable([k EXCEPT !.active = FALSE]) /\ k.left \in Int
    BY DEF Keys, Usable
  <2> QED BY <1>1, <2>1
<1>3. kept \in SUBSET (1..Len(ks))
  BY <1>1
<1>4. \A i \in 1..Len(ks) : ks[i].left >= 0 => i \in kept
  BY <1>0, <1>1 DEF Keys
<1>5. new = Retained(marked, kept)
  BY DEF Deactivated
<1> HIDE DEF kept, marked, new
<1>6. /\ Cardinality(kept) \in Nat
      /\ \A i \in kept : Rank(kept, i) \in 1..Cardinality(kept) /\ new[Rank(kept, i)] = marked[i]
      /\ \A i, k \in kept : i < k => Rank(kept, i) < Rank(kept, k)
      /\ \A j \in 1..Cardinality(kept) : \E i \in kept : Rank(kept, i) = j
  <2>0. Cardinality(kept) \in Nat
    BY <1>1, <1>3, Ranks
  <2>1. \A i \in kept : Rank(kept, i) \in 1..Cardinality(kept)
    BY <1>1, <1>3, <2>0, Ranks
  <2>2. \A i \in kept : new[Rank(kept, i)] = marked[i]
    BY <1>1, <1>3, <1>5, RetainedElements
  <2>3. \A i, k \in kept : i < k => Rank(kept, i) < Rank(kept, k)
    BY <1>1, <1>3, <2>0, Ranks
  <2>4. \A j \in 1..Cardinality(kept) : \E i \in kept : Rank(kept, i) = j
    BY <1>1, <1>3, <2>0, Ranks
  <2> QED BY <2>0, <2>1, <2>2, <2>3, <2>4
<1>7. \A j \in 1..Cardinality(kept) : new[j] \in Keys
  BY <1>2, <1>3, <1>6
<1>8. new \in [1..Cardinality(kept) -> Keys]
  BY <1>5, <1>7 DEF Retained
<1>9. new \in Seq(Keys) /\ Len(new) = Cardinality(kept)
  BY <1>6, <1>8, SeqDef, LenProperties
<1>10. ASSUME NEW s, s.life \in Int, s.life > 0, FirstUsable(ks, s) PROVE FirstUsable(new, s)
  <2>1. PICK i \in 1..Len(ks) :
           /\ ks[i].id = s.key /\ ks[i].left = s.life /\ ks[i].active
           /\ \A j \in 1..Len(ks) : j < i => ~Usable(ks[j])
    BY <1>10 DEF FirstUsable
  <2>2. i \in kept /\ marked[i] = ks[i]
    BY <1>10, <1>2, <1>4, <2>1
  <2>3. ASSUME NEW j \in 1..Len(new), j < Rank(kept, i) PROVE ~Usable(new[j])
    <3>1. PICK k \in kept : Rank(kept, k) = j
      BY <1>6, <1>9
    <3>2. k \in 1..Len(ks) /\ new[j] = marked[k]
      BY <1>3, <1>6, <3>1
    <3>3. k < i
      BY <1>1, <1>3, <1>6, <2>2, <2>3, <3>1, <3>2
    <3> QED BY <1>2, <2>1, <3>2, <3>3
  <2> QED BY <1>6, <1>9, <2>1, <2>2, <2>3 DEF FirstUsable
<1>11. ASSUME NEW x \in Int, HasKey(ks, x) PROVE HasKey(new, x)
  <2>1. CASE x > 0
    <3>1. PICK i \in 1..Len(ks) : ks[i].active /\ ks[i].left >= x
      BY <1>11, <2>1 DEF HasKey
    <3>2. ks[i].left \in Int
      BY <1>1 DEF Keys
    <3>3. i \in kept /\ marked[i] = ks[i]
      BY <1>2, <1>4, <2>1, <3>1, <3>2
    <3> QED BY <1>6, <1>9, <3>1, <3>3 DEF HasKey
  <2> QED BY <2>1 DEF HasKey
<1> QED BY <1>9, <1>10, <1>11 DEF new

\* A tick: the first usable key of a signature stays first until it expires, and
\* every key loses one.
LEMMA AgedKeys ==
  ASSUME NEW ks \in Seq(Keys)
  PROVE  LET aged == [i \in DOMAIN ks |-> AgedKey(ks[i])]
         IN /\ aged \in Seq(Keys)
            /\ \A s \in Sigs : s.life > 1 /\ FirstUsable(ks, s) => FirstUsable(aged, Aged(s))
            /\ \A x \in Int : HasKey(ks, x) => HasKey(aged, x - 1)
<1> DEFINE aged == [i \in DOMAIN ks |-> AgedKey(ks[i])]
<1>0. Grace \in Nat \ {0} /\ Stale \in Nat \ {0}
  BY SignNumbers
<1>1. Len(ks) \in Nat /\ DOMAIN ks = 1..Len(ks) /\ \A i \in 1..Len(ks) : ks[i] \in Keys
  BY LenProperties, ElementOfSeq
<1>2. \A k \in Keys : /\ AgedKey(k) \in Keys /\ AgedKey(k).id = k.id
                      /\ AgedKey(k).active = k.active /\ AgedKey(k).left <= k.left
                      /\ AgedKey(k).left >= k.left - 1
                      /\ k.left > 0 => AgedKey(k).left = k.left - 1
  BY <1>0 DEF AgedKey, Keys
<1>3. \A k \in Keys : Usable(AgedKey(k)) => Usable(k)
  <2> SUFFICES ASSUME NEW k \in Keys, Usable(AgedKey(k)) PROVE Usable(k)
    OBVIOUS
  <2>1. AgedKey(k).left \in Int /\ k.left \in Int
    BY <1>2 DEF Keys
  <2> QED BY <1>2, <2>1 DEF Usable
<1>4. aged \in [1..Len(ks) -> Keys] /\ \A i \in 1..Len(ks) : aged[i] = AgedKey(ks[i])
  BY <1>1, <1>2
<1> HIDE DEF aged
<1>5. aged \in Seq(Keys) /\ Len(aged) = Len(ks)
  BY <1>1, <1>4, SeqDef, LenProperties
<1>6. ASSUME NEW s \in Sigs, s.life > 1, FirstUsable(ks, s) PROVE FirstUsable(aged, Aged(s))
  <2>1. PICK i \in 1..Len(ks) :
           /\ ks[i].id = s.key /\ ks[i].left = s.life /\ ks[i].active
           /\ \A j \in 1..Len(ks) : j < i => ~Usable(ks[j])
    BY <1>6 DEF FirstUsable
  <2>2. s.life \in Int /\ Aged(s).key = s.key /\ Aged(s).life = s.life - 1
    BY <1>0, <1>6 DEF Sigs, Aged
  <2>3. aged[i].id = Aged(s).key /\ aged[i].left = Aged(s).life /\ aged[i].active
    BY <1>1, <1>2, <1>4, <1>6, <2>1, <2>2
  <2>4. \A j \in 1..Len(ks) : j < i => ~Usable(aged[j])
    BY <1>1, <1>3, <1>4, <2>1
  <2> QED BY <1>5, <2>3, <2>4 DEF FirstUsable
<1>7. ASSUME NEW x \in Int, HasKey(ks, x) PROVE HasKey(aged, x - 1)
  <2>1. CASE x <= 0
    BY <2>1 DEF HasKey
  <2>2. CASE \E i \in 1..Len(ks) : ks[i].active /\ ks[i].left >= x
    <3>1. PICK i \in 1..Len(ks) : ks[i].active /\ ks[i].left >= x
      BY <2>2
    <3>2. ks[i].left \in Int /\ aged[i].left \in Int
      BY <1>1, <1>4 DEF Keys
    <3>3. aged[i].active /\ aged[i].left >= x - 1
      BY <1>1, <1>2, <1>4, <3>1, <3>2
    <3> QED BY <1>5, <3>3 DEF HasKey
  <2> QED BY <1>7, <2>1, <2>2 DEF HasKey
<1> QED BY <1>5, <1>6, <1>7 DEF aged

-----------------------------------------------------------------------------
(* DnssecSigner: signatures. *)

\* Signatures whose key has not expired are of the first usable key of their
\* algorithm, cached ones are no older than their key's expiry allows, and the
\* record under construction agrees with its signature.
SignatureInv ==
    /\ \A a \in Algs : sigCache[a].sig.life > 0 => FirstUsable(keys[a], sigCache[a].sig)
    /\ \A a \in Algs : sigCache[a].sig.key # NoKey =>
          sigCache[a].age >= SigTtl \/ sigCache[a].sig.life > -(sigCache[a].age + MaxHold)
    /\ \A a \in Algs : sigCache[a].sig.key = NoKey => sigCache[a].sig = NoSig
    /\ rrsig.pc = "make" => rrsig.took = 0
    /\ rrsig.pc = "made" => /\ rrsig.took <= MaxHold /\ rrsig.sig.life > -rrsig.took
                            /\ rrsig.sig.key # NoKey
    /\ rrsig.sig.life > 0 => FirstUsable(keys[rrsig.alg], rrsig.sig)
    /\ rrsig.pc \in {"tagged", "validated"} /\ rrsig.tag # rrsig.sig.key => rrsig.sig.life <= 0
    /\ rrsig.status \in {"Invalid", "Error", "Unsigned"} => rrsig.sig.life <= 0
    /\ rrsig.pc # "validated" => rrsig.status = "none"

\* A rotation has made a key for the algorithms it is done with, and the keys of
\* the last rotation are as old as its mark, or as its start at most.
RotationInv ==
    /\ \A r \in Rotators : rot[r].pc # "idle" =>
          /\ rot[r].took <= MaxHold
          /\ \A a \in Algs : a \notin rot[r].todo /\ a \notin rot[r].failed =>
                HasKey(keys[a], Interval - rot[r].took)
    /\ \A r \in Rotators : rot[r].pc = "mark" => rot[r].todo = {}
    /\ \A a \in Algs : a \notin missed => HasKey(keys[a], Interval - MaxHold - rotAge)

SignInv == SignTypes /\ SignatureInv /\ RotationInv

\* No key has been rotated and nothing signed when the manager is made.
LEMMA SignStarts == SignInit => SignInv
<1> SUFFICES ASSUME SignInit PROVE SignInv
  OBVIOUS
<1>1. keys \in [Algs -> Seq(Keys)]
  <2>1. PICK id1 \in KeyIds, id2 \in KeyIds :
           \/ keys = [a \in Algs |-> IF a = DefaultAlg THEN <<NewKey(id1)>> ELSE <<>>]
           \/ keys = [a \in Algs |-> (IF a = DefaultAlg THEN <<NewKey(id1)>> ELSE <<>>)
                                  \o (IF a = HmacAlg THEN <<NewKey(id2)>> ELSE <<>>)]
    BY DEF SignInit
  <2>2. NewKey(id1) \in Keys /\ NewKey(id2) \in Keys
    BY SignNumbers
  <2>3. <<NewKey(id1)>> \in Seq(Keys) /\ <<NewKey(id2)>> \in Seq(Keys) /\ <<>> \in Seq(Keys)
    BY <2>2
  <2>4. \A a \in Algs : /\ (IF a = DefaultAlg THEN <<NewKey(id1)>> ELSE <<>>) \in Seq(Keys)
                        /\ (IF a = HmacAlg THEN <<NewKey(id2)>> ELSE <<>>) \in Seq(Keys)
    BY <2>3
  <2>5. \A s, t \in Seq(Keys) : s \o t \in Seq(Keys)
    BY ConcatProperties
  <2> QED BY <2>1, <2>4, <2>5
<1>2. /\ DefaultAlg \in Algs /\ Interval \in Nat /\ SigTtl \in Nat /\ NoSig \in Sigs
      /\ NoSig.life = -Stale /\ Stale \in Nat /\ NoSig.key = NoKey
  BY SignNumbers, SignerAssumption
<1>3. NoRrsig \in Rrsigs /\ IdleRot \in Rotations /\ [sig |-> NoSig, age |-> SigTtl] \in CachedSigs
  BY <1>2 DEF NoRrsig, Rrsigs, IdleRot, Rotations, CachedSigs, Statuses
<1>4. SignTypes
  BY <1>1, <1>2, <1>3 DEF SignInit, SignTypes
<1>5. SignatureInv
  <2>1. \A a \in Algs : sigCache[a].sig = NoSig
    BY DEF SignInit
  <2>2. rrsig.sig = NoSig /\ rrsig.pc = "idle" /\ rrsig.status = "none"
    BY DEF SignInit, NoRrsig
  <2> QED BY <1>2, <2>1, <2>2 DEF SignatureInv
<1>6. RotationInv
  BY DEF SignInit, IdleRot, RotationInv
<1> QED BY <1>4, <1>5, <1>6 DEF SignInv

\* What a step that touches only the keys must keep for the rest to stand.
LEMMA KeysChange ==
  ASSUME SignInv, keys' \in [Algs -> Seq(Keys)], UNCHANGED <<rotAge, sigCache, rrsig, missed>>,
         \A a \in Algs : \A s \in Sigs :
            s.life > 0 /\ FirstUsable(keys[a], s) => FirstUsable(keys'[a], s),
         \A a \in Algs : \A x \in Int : HasKey(keys[a], x) => HasKey(keys'[a], x)
  PROVE  /\ SignatureInv'
         /\ \A a \in Algs : a \notin missed' => HasKey(keys'[a], Interval - MaxHold - rotAge')
<1>1. /\ \A a \in Algs : sigCache[a].sig \in Sigs
      /\ rrsig.sig \in Sigs /\ rrsig.alg \in Algs /\ rotAge \in Nat
  BY DEF SignInv, SignTypes, CachedSigs, Rrsigs
<1>2. Interval - MaxHold - rotAge \in Int
  BY <1>1, SignNumbers
<1>3. \A a \in Algs : sigCache[a].sig.life > 0 => FirstUsable(keys'[a], sigCache[a].sig)
  BY <1>1 DEF SignInv, SignatureInv
<1>4. rrsig.sig.life > 0 => FirstUsable(keys'[rrsig.alg], rrsig.sig)
  BY <1>1 DEF SignInv, SignatureInv
<1> QED BY <1>2, <1>3, <1>4 DEF SignInv, SignatureInv, RotationInv

\* generate_key of a rotation.
LEMMA GenerateStep ==
  ASSUME SignInv, NEW r \in Rotators, NEW a \in Algs, GenerateKey(r, a)
  PROVE  SignInv'
<1>0. /\ Interval \in Nat \ {0} /\ MaxHold \in Nat
      /\ rot \in [Rotators -> Rotations] /\ keys \in [Algs -> Seq(Keys)]
  BY SignNumbers DEF SignInv, SignTypes
<1>1. UNCHANGED <<rotAge, sigCache, rrsig, missed>> /\ rot[r].pc = "generate"
  BY DEF GenerateKey
<1>t. \A q \in Rotators : rot[q].took \in Nat
  BY <1>0 DEF Rotations
<1>2. CASE /\ Fresh # {}
           /\ keys' = [keys EXCEPT ![a] = PushKey(@, NewKey(CHOOSE i \in Fresh : \A j \in Fresh : i <= j))]
           /\ rot' = [rot EXCEPT ![r].todo = @ \ {a}]
  <2> DEFINE id == CHOOSE i \in Fresh : \A j \in Fresh : i <= j
             k == NewKey(id)
  <2>1. id \in KeyIds
    <3>1. Fresh \in SUBSET Nat /\ Fresh \subseteq KeyIds
      BY SignerAssumption DEF Fresh
    <3>2. \E i \in Fresh : \A j \in Fresh : i <= j
      BY <1>2, <3>1, LeastNumber
    <3> QED BY <3>1, <3>2
  <2>2. k \in Keys /\ k.active /\ k.left = Interval
    <3> HIDE DEF id
    <3> QED BY <2>1, SignNumbers DEF NewKey
  <2>3. keys' = [keys EXCEPT ![a] = PushKey(keys[a], k)]
    BY <1>2
  <2> HIDE DEF k, id
  <2>4. keys[a] \in Seq(Keys)
    BY <1>0
  <2>5. /\ keys'[a] = PushKey(keys[a], k) /\ \A b \in Algs \ {a} : keys'[b] = keys[b]
        /\ keys' \in [Algs -> Seq(Keys)]
    BY <1>0, <2>2, <2>3, <2>4, PushedKey
  <2>6. \A b \in Algs : \A s \in Sigs : FirstUsable(keys[b], s) => FirstUsable(keys'[b], s)
    BY <2>2, <2>4, <2>5, PushedKey
  <2>7. \A b \in Algs : \A x \in Int : HasKey(keys[b], x) => HasKey(keys'[b], x)
    BY <2>2, <2>4, <2>5, PushedKey
  <2>8. SignatureInv' /\ \A b \in Algs : b \notin missed' => HasKey(keys'[b], Interval - MaxHold - rotAge')
    BY <1>1, <2>5, <2>6, <2>7, KeysChange
  <2>9. /\ rot' \in [Rotators -> Rotations]
        /\ \A q \in Rotators : /\ rot'[q].pc = rot[q].pc /\ rot'[q].took = rot[q].took
                               /\ rot'[q].failed = rot[q].failed
                               /\ rot'[q].todo = IF q = r THEN rot[q].todo \ {a} ELSE rot[q].todo
    BY <1>0, <1>2 DEF Rotations
  <2>10. SignTypes'
    BY <1>1, <2>5, <2>9 DEF SignInv, SignTypes
  <2>11. \A q \in Rotators : Interval - rot[q].took \in Int /\ Interval - rot[q].took <= Interval
    BY <1>0, <1>t
  <2>12. \A q \in Rotators : HasKey(keys'[a], Interval - rot[q].took)
    BY <2>2, <2>4, <2>5, <2>11, PushedKey
  <2>13. ASSUME NEW q \in Rotators, rot'[q].pc # "idle", NEW b \in Algs,
                b \notin rot'[q].todo, b \notin rot'[q].failed
         PROVE  HasKey(keys'[b], Interval - rot'[q].took)
    <3>1. CASE b = a
      BY <2>9, <2>12, <3>1
    <3>2. CASE b # a
      <4>1. b \notin rot[q].todo /\ b \notin rot[q].failed /\ rot[q].pc # "idle"
        BY <2>9, <2>13, <3>2
      <4>2. HasKey(keys[b], Interval - rot[q].took)
        BY <4>1 DEF SignInv, RotationInv
      <4> QED BY <2>7, <2>9, <2>11, <4>2
    <3> QED BY <3>1, <3>2
  <2>14. \A q \in Rotators : /\ rot'[q].pc # "idle" => rot'[q].took <= MaxHold
                             /\ rot'[q].pc = "mark" => rot'[q].todo = {}
    BY <2>9 DEF SignInv, RotationInv
  <2> QED BY <2>8, <2>10, <2>13, <2>14 DEF SignInv, RotationInv
<1>3. CASE rot' = [rot EXCEPT ![r].todo = @ \ {a}, ![r].failed = @ \cup {a}] /\ UNCHANGED keys
  <2>1. /\ rot' \in [Rotators -> Rotations]
        /\ \A q \in Rotators : /\ rot'[q].pc = rot[q].pc /\ rot'[q].took = rot[q].took
                               /\ rot'[q].todo = IF q = r THEN rot[q].todo \ {a} ELSE rot[q].todo
                               /\ rot'[q].failed = IF q = r THEN rot[q].failed \cup {a}
                                                            ELSE rot[q].failed
    BY <1>0, <1>3 DEF Rotations
  <2>2. SignTypes' /\ SignatureInv'
    BY <1>1, <1>3, <2>1 DEF SignInv, SignTypes, SignatureInv
  <2>3. ASSUME NEW q \in Rotators, rot'[q].pc # "idle", NEW b \in Algs,
               b \notin rot'[q].todo, b \notin rot'[q].failed
        PROVE  HasKey(keys'[b], Interval - rot'[q].took)
    <3>1. b \notin rot[q].todo /\ b \notin rot[q].failed /\ rot[q].pc # "idle"
      BY <2>1, <2>3
    <3> QED BY <1>3, <2>1, <3>1 DEF SignInv, RotationInv
  <2>4. \A q \in Rotators : /\ rot'[q].pc # "idle" => rot'[q].took <= MaxHold
                            /\ rot'[q].pc = "mark" => rot'[q].todo = {}
    BY <2>1 DEF SignInv, RotationInv
  <2>5. \A b \in Algs : b \notin missed' => HasKey(keys'[b], Interval - MaxHold - rotAge')
    BY <1>1, <1>3 DEF SignInv, RotationInv
  <2> QED BY <2>2, <2>3, <2>4, <2>5 DEF SignInv, RotationInv
<1> QED BY <1>2, <1>3 DEF GenerateKey

\* deactivate_old_keys of a rotation.
LEMMA DeactivateStep ==
  ASSUME SignInv, NEW r \in Rotators, DeactivateOldKeys(r)
  PROVE  SignInv'
<1>0. /\ Interval \in Nat /\ MaxHold \in Nat
      /\ rot \in [Rotators -> Rotations] /\ keys \in [Algs -> Seq(Keys)]
  BY SignNumbers DEF SignInv, SignTypes
<1>1. /\ UNCHANGED <<rotAge, sigCache, rrsig, missed>> /\ rot[r].todo = {} /\ rot[r].pc = "generate"
      /\ keys' = [a \in Algs |-> Deactivated(keys[a])]
      /\ rot' = [rot EXCEPT ![r].pc = "mark"]
  BY DEF DeactivateOldKeys
<1>2. /\ keys' \in [Algs -> Seq(Keys)]
      /\ \A a \in Algs : \A s \in Sigs : s.life > 0 /\ FirstUsable(keys[a], s) => FirstUsable(keys'[a], s)
      /\ \A a \in Algs : \A x \in Int : HasKey(keys[a], x) => HasKey(keys'[a], x)
  <2>1. \A s \in Sigs : s.life \in Int
    BY DEF Sigs
  <2>2. \A a \in Algs : keys[a] \in Seq(Keys) /\ keys'[a] = Deactivated(keys[a])
    BY <1>0, <1>1
  <2>3. \A a \in Algs : keys'[a] \in Seq(Keys)
    BY <2>2, DeactivatedKeys
  <2> QED BY <1>1, <2>1, <2>2, <2>3, DeactivatedKeys
<1>3. SignatureInv' /\ \A b \in Algs : b \notin missed' => HasKey(keys'[b], Interval - MaxHold - rotAge')
  BY <1>1, <1>2, KeysChange
<1>4. /\ rot' \in [Rotators -> Rotations]
      /\ \A q \in Rotators : /\ rot'[q].pc = IF q = r THEN "mark" ELSE rot[q].pc
                             /\ rot'[q].took = rot[q].took /\ rot'[q].took \in Nat
                             /\ rot'[q].failed = rot[q].failed /\ rot'[q].todo = rot[q].todo
  BY <1>0, <1>1 DEF Rotations
<1>5. SignTypes'
  BY <1>1, <1>2, <1>4 DEF SignInv, SignTypes
<1>6. ASSUME NEW q \in Rotators, rot'[q].pc # "idle", NEW b \in Algs,
             b \notin rot'[q].todo, b \notin rot'[q].failed
      PROVE  HasKey(keys'[b], Interval - rot'[q].took)
  <2>1. Interval - rot[q].took \in Int
    BY <1>0, <1>4
  <2>2. HasKey(keys[b], Interval - rot[q].took)
    BY <1>1, <1>4, <1>6 DEF SignInv, RotationInv
  <2> QED BY <1>2, <1>4, <2>1, <2>2
<1>7. \A q \in Rotators : /\ rot'[q].pc # "idle" => rot'[q].took <= MaxHold
                          /\ rot'[q].pc = "mark" => rot'[q].todo = {}
  BY <1>1, <1>4 DEF SignInv, RotationInv
<1> QED BY <1>3, <1>5, <1>6, <1>7 DEF SignInv, RotationInv

\* The start of a rotation and its mark.
LEMMA RotateStep ==
  ASSUME SignInv, NEW r \in Rotators, StartRotation(r) \/ MarkRotation(r)
  PROVE  SignInv'
<1>0. /\ Interval \in Nat /\ MaxHold \in Nat /\ rot \in [Rotators -> Rotations]
  BY SignNumbers DEF SignInv, SignTypes
<1>t. \A q \in Rotators : rot[q].took \in Nat
  BY <1>0 DEF Rotations
<1>1. CASE StartRotation(r)
  <2>1. /\ UNCHANGED <<keys, rotAge, sigCache, rrsig, missed>>
        /\ rot' = [rot EXCEPT ![r] = [IdleRot EXCEPT !.pc = "generate", !.todo = Algs]]
    BY <1>1 DEF StartRotation
  <2> DEFINE new == [IdleRot EXCEPT !.pc = "generate", !.todo = Algs]
  <2>2. new \in Rotations /\ new.pc = "generate" /\ new.took = 0 /\ new.todo = Algs
    <3>1. IdleRot \in Rotations /\ IdleRot.took = 0
      BY DEF IdleRot, Rotations
    <3> HIDE DEF IdleRot
    <3> QED BY <3>1 DEF Rotations
  <2> HIDE DEF new
  <2>3. /\ rot' \in [Rotators -> Rotations] /\ rot'[r].pc = "generate"
        /\ rot'[r].took = 0 /\ rot'[r].todo = Algs /\ \A q \in Rotators \ {r} : rot'[q] = rot[q]
    BY <1>0, <2>1, <2>2 DEF new
  <2>4. SignTypes' /\ SignatureInv'
    BY <2>1, <2>3 DEF SignInv, SignTypes, SignatureInv
  <2>5. RotationInv'
    BY <1>0, <2>1, <2>3 DEF SignInv, RotationInv
  <2> QED BY <2>4, <2>5 DEF SignInv
<1>2. CASE MarkRotation(r)
  <2>1. /\ UNCHANGED <<keys, sigCache, rrsig>> /\ rot[r].pc = "mark" /\ rotAge' = 0
        /\ missed' = rot[r].failed /\ rot' = [rot EXCEPT ![r] = IdleRot]
    BY <1>2 DEF MarkRotation
  <2>2. /\ rot' \in [Rotators -> Rotations] /\ rot'[r].pc = "idle"
        /\ \A q \in Rotators \ {r} : rot'[q] = rot[q]
    BY <1>0, <2>1 DEF Rotations, IdleRot
  <2>3. missed' \in SUBSET Algs
    BY <1>0, <2>1 DEF Rotations
  <2>4. SignTypes' /\ SignatureInv'
    BY <2>1, <2>2, <2>3 DEF SignInv, SignTypes, SignatureInv
  <2>5. ASSUME NEW a \in Algs, a \notin missed' PROVE HasKey(keys'[a], Interval - MaxHold - rotAge')
    <3>1. HasKey(keys[a], Interval - rot[r].took) /\ rot[r].took <= MaxHold
      BY <2>1, <2>5 DEF SignInv, RotationInv
    <3>2. \A i \in 1..Len(keys[a]) : keys[a][i].left \in Int
      <4>1. keys[a] \in Seq(Keys)
        BY DEF SignInv, SignTypes
      <4>2. \A i \in 1..Len(keys[a]) : keys[a][i] \in Keys
        BY <4>1, ElementOfSeq
      <4> QED BY <4>2 DEF Keys
    <3>3. Interval - MaxHold - rotAge' \in Int /\ Interval - MaxHold - rotAge' <= Interval - rot[r].took
      BY <1>0, <1>t, <2>1, <3>1
    <3>4. Interval - rot[r].took \in Int
      BY <1>0, <1>t
    <3>5. HasKey(keys[a], Interval - MaxHold - rotAge')
      BY <3>1, <3>2, <3>3, <3>4 DEF HasKey
    <3> QED BY <2>1, <3>5
  <2>6. RotationInv'
    BY <2>1, <2>2, <2>5 DEF SignInv, RotationInv
  <2> QED BY <2>4, <2>6 DEF SignInv
<1> QED BY <1>1, <1>2

\* sign, its look into the cache: a cached signature is of a key that was usable
\* less than the cache's life ago.
LEMMA LookUpStep ==
  ASSUME SignInv, NEW a \in Algs, LookUp(a)
  PROVE  SignInv' /\ (rrsig'.pc = "signed" => rrsig'.sig.life > -Stale)
<1> DEFINE s == IF Cached(a) THEN sigCache[a].sig ELSE NoSig
<1>0. /\ SigTtl \in Nat \ {0} /\ MaxHold \in Nat /\ sigCache \in [Algs -> CachedSigs]
      /\ NoSig \in Sigs /\ NoSig.life = -Stale /\ NoSig.key = NoKey
      /\ Stale = SigTtl + MaxHold /\ Stale \in Nat \ {0}
  BY SignNumbers DEF SignInv, SignTypes
<1>1. /\ UNCHANGED <<keys, rotAge, rot, sigCache, missed>>
      /\ rrsig' = [NoRrsig EXCEPT !.pc = IF Cached(a) THEN "signed" ELSE "make", !.alg = a, !.sig = s]
  BY DEF LookUp
<1>2. s \in Sigs /\ (s.life > 0 => FirstUsable(keys[a], s))
  <2>1. CASE Cached(a)
    BY <1>0, <2>1 DEF CachedSigs, SignInv, SignatureInv
  <2>2. CASE ~Cached(a)
    BY <1>0, <2>2
  <2> QED BY <2>1, <2>2
<1>3. Cached(a) => s.life > -Stale
  <2> SUFFICES ASSUME Cached(a) PROVE s.life > -Stale
    OBVIOUS
  <2>1. s = sigCache[a].sig /\ sigCache[a].age < SigTtl /\ s # NoSig
    BY DEF Cached
  <2>2. s \in Sigs /\ sigCache[a].age \in Nat /\ s.life \in Int
    BY <1>0, <2>1 DEF CachedSigs, Sigs
  <2> HIDE DEF s
  <2>3. CASE s.key # NoKey
    <3>1. s.life > -(sigCache[a].age + MaxHold)
      BY <1>0, <2>1, <2>2, <2>3 DEF SignInv, SignatureInv
    <3> QED BY <1>0, <2>1, <2>2, <3>1
  <2>4. CASE s.key = NoKey
    <3>1. s = NoSig
      BY <2>1, <2>4 DEF SignInv, SignatureInv
    <3> QED BY <2>1, <3>1
  <2> QED BY <2>3, <2>4
<1> HIDE DEF s
<1>4. /\ rrsig' \in Rrsigs /\ rrsig'.pc = (IF Cached(a) THEN "signed" ELSE "make")
      /\ rrsig'.alg = a /\ rrsig'.sig = s /\ rrsig'.status = "none" /\ rrsig'.took = 0
  <2>1. NoRrsig \in Rrsigs /\ NoRrsig.status = "none" /\ NoRrsig.took = 0
    BY <1>0, SignerAssumption DEF NoRrsig, Rrsigs, Statuses
  <2> HIDE DEF NoRrsig
  <2> QED BY <1>1, <1>2, <2>1 DEF Rrsigs
<1>5. SignatureInv'
  BY <1>1, <1>2, <1>4 DEF SignInv, SignatureInv
<1>6. SignTypes' /\ RotationInv'
  BY <1>1, <1>4 DEF SignInv, SignTypes, RotationInv
<1> QED BY <1>3, <1>4, <1>5, <1>6 DEF SignInv

\* sign, its caching of a new signature.
LEMMA CacheStep ==
  ASSUME SignInv, CacheSignature
  PROVE  SignInv' /\ rrsig'.sig.life > -Stale
<1>0. /\ SigTtl \in Nat \ {0} /\ MaxHold \in Nat /\ sigCache \in [Algs -> CachedSigs]
      /\ NoSig \in Sigs /\ NoSig.life = -Stale /\ NoSig.key = NoKey
      /\ Stale = SigTtl + MaxHold /\ Stale \in Nat \ {0}
      /\ rrsig \in Rrsigs /\ rrsig.sig \in Sigs /\ rrsig.sig.life \in Int /\ rrsig.took \in Nat
      /\ rrsig.alg \in Algs
  BY SignNumbers DEF SignInv, SignTypes, Rrsigs, Sigs
<1>1. /\ rrsig.pc = "made" /\ UNCHANGED <<keys, rotAge, rot, missed>>
      /\ rrsig' = [rrsig EXCEPT !.pc = "signed", !.took = 0]
      /\ sigCache' = [b \in Algs |-> IF b = rrsig.alg THEN [sig |-> rrsig.sig, age |-> 0]
                                     ELSE IF Cached(b) THEN sigCache[b]
                                     ELSE [sig |-> NoSig, age |-> SigTtl]]
  BY DEF CacheSignature
<1>2. /\ rrsig.sig.life > -MaxHold /\ rrsig.status = "none"
      /\ rrsig.sig.life > 0 => FirstUsable(keys[rrsig.alg], rrsig.sig)
  <2>1. rrsig.took <= MaxHold /\ rrsig.sig.life > -rrsig.took
    BY <1>1 DEF SignInv, SignatureInv
  <2> QED BY <1>0, <1>1, <2>1 DEF SignInv, SignatureInv
<1>3. /\ rrsig' \in Rrsigs /\ rrsig'.pc = "signed" /\ rrsig'.alg = rrsig.alg
      /\ rrsig'.sig = rrsig.sig /\ rrsig'.status = "none"
  BY <1>0, <1>1, <1>2 DEF Rrsigs
<1>4. sigCache' \in [Algs -> CachedSigs]
  <2>1. [sig |-> rrsig.sig, age |-> 0] \in CachedSigs /\ [sig |-> NoSig, age |-> SigTtl] \in CachedSigs
    BY <1>0 DEF CachedSigs
  <2> QED BY <1>0, <1>1, <2>1
<1>5. ASSUME NEW b \in Algs
      PROVE  /\ sigCache'[b].sig.life > 0 => FirstUsable(keys'[b], sigCache'[b].sig)
             /\ sigCache'[b].sig.key = NoKey => sigCache'[b].sig = NoSig
             /\ sigCache'[b].sig.key # NoKey =>
                   sigCache'[b].age >= SigTtl \/ sigCache'[b].sig.life > -(sigCache'[b].age + MaxHold)
  <2>1. CASE sigCache'[b] = sigCache[b]
    BY <1>1, <2>1 DEF SignInv, SignatureInv
  <2>2. CASE b = rrsig.alg
    <3>1. sigCache'[b] = [sig |-> rrsig.sig, age |-> 0]
      BY <1>1, <2>2
    <3>2. sigCache'[b].sig = rrsig.sig /\ sigCache'[b].age = 0
      BY <3>1
    <3>3. rrsig.sig.key # NoKey
      BY <1>1 DEF SignInv, SignatureInv
    <3> QED BY <1>0, <1>1, <1>2, <2>2, <3>2, <3>3
  <2>3. CASE sigCache'[b] = [sig |-> NoSig, age |-> SigTtl]
    BY <1>0, <2>3
  <2> QED BY <1>1, <2>1, <2>2, <2>3
<1>6. SignatureInv'
  BY <1>1, <1>2, <1>3, <1>5 DEF SignatureInv
<1>7. SignTypes' /\ RotationInv'
  BY <1>1, <1>3, <1>4 DEF SignInv, SignTypes, RotationInv
<1>8. rrsig'.sig.life > -Stale
  BY <1>0, <1>2, <1>3
<1> QED BY <1>6, <1>7, <1>8 DEF SignInv

\* A new signature, the key tag, the validation and the end of a record.
LEMMA RecordStep ==
  ASSUME SignInv, MakeSignature \/ TakeTag \/ ValidateMessage \/ DropRrsig
  PROVE  SignInv' /\ rrsig'.pc # "signed"
<1>0. /\ keys \in [Algs -> Seq(Keys)] /\ rrsig \in Rrsigs /\ rrsig.alg \in Algs
      /\ rrsig.sig \in Sigs /\ rrsig.sig.life \in Int /\ rrsig.sig.key \in KeyIds \cup {NoKey}
  BY DEF SignInv, SignTypes, Rrsigs, Sigs
<1>1. UNCHANGED <<keys, rotAge, rot, sigCache, missed>>
  BY DEF MakeSignature, TakeTag, ValidateMessage, DropRrsig
<1>2. NoRrsig \in Rrsigs /\ NoRrsig.pc = "idle" /\ NoRrsig.status = "none" /\ ~(NoRrsig.sig.life > 0)
  <2>1. NoSig \in Sigs /\ NoSig.life = -Stale /\ Stale \in Nat \ {0}
    BY SignNumbers
  <2> QED BY <2>1, SignerAssumption DEF NoRrsig, Rrsigs, Statuses
\* What is left to show of each step.
<1>3. ASSUME rrsig' \in Rrsigs, rrsig'.pc \notin {"signed", "make"},
             rrsig'.pc = "made" => /\ rrsig'.took <= MaxHold /\ rrsig'.sig.life > -rrsig'.took
                                   /\ rrsig'.sig.key # NoKey,
             rrsig'.sig.life > 0 => FirstUsable(keys[rrsig'.alg], rrsig'.sig),
             rrsig'.pc \in {"tagged", "validated"} /\ rrsig'.tag # rrsig'.sig.key => rrsig'.sig.life <= 0,
             rrsig'.status \in {"Invalid", "Error", "Unsigned"} => rrsig'.sig.life <= 0,
             rrsig'.pc # "validated" => rrsig'.status = "none"
      PROVE  SignInv' /\ rrsig'.pc # "signed"
  <2>1. SignTypes'
    BY <1>1, <1>3 DEF SignInv, SignTypes
  <2>2. SignatureInv'
    BY <1>1, <1>3 DEF SignInv, SignatureInv
  <2>3. RotationInv'
    BY <1>1 DEF SignInv, RotationInv
  <2> QED BY <1>3, <2>1, <2>2, <2>3 DEF SignInv
<1>4. CASE rrsig' = NoRrsig
  <2>1. rrsig'.pc = "idle" /\ rrsig'.status = "none" /\ ~(rrsig'.sig.life > 0)
    BY <1>2, <1>4
  <2> QED BY <1>2, <1>3, <1>4, <2>1
<1>5. CASE TakeTag /\ rrsig' # NoRrsig
  <2> DEFINE k == GetActiveKey(rrsig.alg)
  <2>1. /\ rrsig.pc = "signed" /\ k.id # NoKey
        /\ rrsig' = [rrsig EXCEPT !.pc = "tagged", !.tag = k.id]
    BY <1>5 DEF TakeTag
  <2>2. k.id \in KeyIds
    BY <1>0, <2>1, ActiveIsFirst
  <2>3. rrsig.sig.life > 0 => k.id = rrsig.sig.key
    BY <1>0, FirstIsActive DEF SignInv, SignatureInv
  <2> HIDE DEF k
  <2>4. /\ rrsig' \in Rrsigs /\ rrsig'.pc = "tagged" /\ rrsig'.tag = k.id
        /\ rrsig'.sig = rrsig.sig /\ rrsig'.alg = rrsig.alg /\ rrsig'.status = rrsig.status
    BY <1>0, <2>1, <2>2 DEF Rrsigs
  <2>5. rrsig.status = "none"
    BY <2>1 DEF SignInv, SignatureInv
  <2>6. rrsig.sig.life > 0 => FirstUsable(keys[rrsig.alg], rrsig.sig)
    BY DEF SignInv, SignatureInv
  <2>7. rrsig'.tag # rrsig'.sig.key => rrsig'.sig.life <= 0
    BY <1>0, <2>3, <2>4
  <2> QED BY <1>3, <2>4, <2>5, <2>6, <2>7
<1>6. CASE ValidateMessage
  <2>1. PICK others \in SUBSET {"unsupported", "uncovered"} :
           rrsig' = [rrsig EXCEPT !.pc = "validated",
                       !.status = MessageStatus({ValidateRrsig(rrsig.sig, rrsig.alg)} \cup others)]
    BY <1>6 DEF ValidateMessage
  <2> DEFINE st == MessageStatus({ValidateRrsig(rrsig.sig, rrsig.alg)} \cup others)
  <2>2. st \in Statuses
    BY DEF MessageStatus, Statuses
  <2>3. rrsig.pc = "tagged"
    BY <1>6 DEF ValidateMessage
  <2>4. rrsig.sig.life > 0 => st = "Valid"
    <3> SUFFICES ASSUME rrsig.sig.life > 0 PROVE st = "Valid"
      OBVIOUS
    <3>1. GetActiveKey(rrsig.alg).id = rrsig.sig.key
      BY <1>0, FirstIsActive DEF SignInv, SignatureInv
    <3>2. rrsig.sig.key # NoKey
      <4>1. PICK i \in 1..Len(keys[rrsig.alg]) : keys[rrsig.alg][i].id = rrsig.sig.key
        BY DEF SignInv, SignatureInv, FirstUsable
      <4>2. keys[rrsig.alg][i] \in Keys
        BY <1>0, ElementOfSeq
      <4> QED BY <4>1, <4>2, SignNumbers DEF Keys
    <3>3. ValidateRrsig(rrsig.sig, rrsig.alg) = "valid"
      BY <3>1, <3>2 DEF ValidateRrsig
    <3> QED BY <3>3 DEF MessageStatus
  <2> HIDE DEF st
  <2>5. /\ rrsig' \in Rrsigs /\ rrsig'.pc = "validated" /\ rrsig'.tag = rrsig.tag
        /\ rrsig'.sig = rrsig.sig /\ rrsig'.alg = rrsig.alg /\ rrsig'.status = st
    BY <1>0, <2>1, <2>2 DEF Rrsigs, st
  <2>6. rrsig.sig.life > 0 => FirstUsable(keys[rrsig.alg], rrsig.sig)
    BY DEF SignInv, SignatureInv
  <2>7. rrsig.tag # rrsig.sig.key => rrsig.sig.life <= 0
    BY <2>3 DEF SignInv, SignatureInv
  <2>8. rrsig'.status \in {"Invalid", "Error", "Unsigned"} => rrsig'.sig.life <= 0
    BY <1>0, <2>4, <2>5
  <2> QED BY <1>3, <2>5, <2>6, <2>7, <2>8
<1>7. CASE MakeSignature /\ rrsig' # NoRrsig
  <2> DEFINE k == GetActiveKey(rrsig.alg)
             s == [key |-> k.id, life |-> k.left]
  <2>1. /\ rrsig.pc = "make" /\ k.id # NoKey
        /\ rrsig' = [rrsig EXCEPT !.pc = "made", !.sig = s]
    BY <1>7 DEF MakeSignature
  <2>2. k.id \in KeyIds /\ k.left \in Int /\ k.left > 0 /\ FirstUsable(keys[rrsig.alg], s)
    BY <1>0, <2>1, ActiveIsFirst
  <2> HIDE DEF k
  <2>3. s \in Sigs /\ s.life = k.left /\ s.key = k.id
    BY <2>2 DEF Sigs
  <2> HIDE DEF s
  <2>4. /\ rrsig' \in Rrsigs /\ rrsig'.pc = "made" /\ rrsig'.sig = s /\ rrsig'.alg = rrsig.alg
        /\ rrsig'.status = rrsig.status /\ rrsig'.took = rrsig.took
    BY <1>0, <2>1, <2>3 DEF Rrsigs
  <2>5. rrsig.took = 0 /\ rrsig.status = "none"
    BY <2>1 DEF SignInv, SignatureInv
  <2>6. MaxHold \in Nat
    BY SignNumbers
  <2>7. /\ rrsig'.took <= MaxHold /\ rrsig'.sig.life > -rrsig'.took
        /\ rrsig'.sig.key # NoKey
    BY <2>1, <2>2, <2>3, <2>4, <2>5, <2>6
  <2> QED BY <1>3, <2>2, <2>4, <2>5, <2>7
<1> QED BY <1>4, <1>5, <1>6, <1>7 DEF DropRrsig

\* Time passes: keys, signatures, the cache and the rotations age together.
LEMMA SignTickStep ==
  ASSUME SignInv, SignTick
  PROVE  SignInv' /\ rrsig'.pc = rrsig.pc
<1>0. /\ keys \in [Algs -> Seq(Keys)] /\ SigTtl \in Nat \ {0} /\ Interval \in Nat /\ MaxHold \in Nat
      /\ Stale \in Nat \ {0} /\ NoSig \in Sigs /\ NoSig.life = -Stale
      /\ sigCache \in [Algs -> CachedSigs] /\ rrsig \in Rrsigs /\ rot \in [Rotators -> Rotations]
      /\ rotAge \in Nat
  BY SignNumbers DEF SignInv, SignTypes
<1>1. \A s \in Sigs : /\ Aged(s) \in Sigs /\ Aged(s).key = s.key /\ s.life \in Int
                      /\ Aged(s).life \in Int /\ Aged(s).life <= s.life
                      /\ Aged(s).life >= s.life - 1
                      /\ Aged(s).life > 0 => s.life > 1
  <2>1. Stale \in Nat \ {0}
    BY <1>0
  <2> QED BY <2>1 DEF Sigs, Aged
<1>1a. Aged(NoSig) = NoSig
  BY <1>0 DEF Aged
<1>2. /\ \A a \in Algs : /\ keys[a] \in Seq(Keys)
                         /\ keys'[a] = [i \in DOMAIN keys[a] |-> AgedKey(keys[a][i])]
      /\ keys' = [a \in Algs |-> [i \in DOMAIN keys[a] |-> AgedKey(keys[a][i])]]
  BY <1>0 DEF SignTick
<1>3. \A a \in Algs : /\ keys'[a] \in Seq(Keys)
                      /\ \A s \in Sigs : s.life > 1 /\ FirstUsable(keys[a], s) => FirstUsable(keys'[a], Aged(s))
                      /\ \A x \in Int : HasKey(keys[a], x) => HasKey(keys'[a], x - 1)
  BY <1>2, AgedKeys
<1>4. keys' \in [Algs -> Seq(Keys)]
  BY <1>2, <1>3
<1>5. \A a \in Algs : /\ sigCache[a].sig \in Sigs /\ sigCache[a].age \in Nat
                      /\ sigCache'[a].sig = Aged(sigCache[a].sig)
                      /\ sigCache'[a].age = IF sigCache[a].age < SigTtl
                                            THEN sigCache[a].age + 1 ELSE SigTtl
  BY <1>0 DEF SignTick, CachedSigs
<1>6. sigCache' \in [Algs -> CachedSigs]
  <2>1. ASSUME NEW a \in Algs, NEW n \in Nat
        PROVE  [sig |-> Aged(sigCache[a].sig), age |-> n] \in CachedSigs
    BY <1>1, <1>5 DEF CachedSigs
  <2>2. \A a \in Algs : (IF sigCache[a].age < SigTtl THEN sigCache[a].age + 1 ELSE SigTtl) \in Nat
    BY <1>0, <1>5
  <2> QED BY <2>1, <2>2 DEF SignTick
<1>7. /\ rrsig' \in Rrsigs /\ rrsig'.sig = Aged(rrsig.sig) /\ rrsig'.pc = rrsig.pc
      /\ rrsig'.alg = rrsig.alg /\ rrsig'.tag = rrsig.tag /\ rrsig'.status = rrsig.status
      /\ rrsig.sig \in Sigs /\ rrsig.alg \in Algs /\ rrsig.took \in Nat
      /\ rrsig'.took = IF rrsig.pc = "made" THEN rrsig.took + 1 ELSE rrsig.took
      /\ rrsig.pc = "made" => rrsig.took < MaxHold
  <2>1. rrsig.sig \in Sigs /\ rrsig.alg \in Algs /\ rrsig.took \in Nat
    BY <1>0 DEF Rrsigs
  <2>2. Aged(rrsig.sig) \in Sigs
    BY <1>1, <2>1
  <2>3. /\ rrsig' = [rrsig EXCEPT !.sig = Aged(@), !.took = IF rrsig.pc = "made" THEN @ + 1 ELSE @]
        /\ rrsig.pc = "made" => rrsig.took < MaxHold
    BY DEF SignTick
  <2>4. /\ rrsig \in Rrsigs
        /\ (IF rrsig.pc = "made" THEN rrsig.took + 1 ELSE rrsig.took) \in Nat
    BY <1>0, <2>1
  <2> QED BY <2>1, <2>2, <2>3, <2>4 DEF Rrsigs
<1>8. /\ rot' \in [Rotators -> Rotations]
      /\ \A r \in Rotators : /\ rot'[r].pc = rot[r].pc /\ rot'[r].todo = rot[r].todo
                             /\ rot'[r].failed = rot[r].failed /\ rot[r].took \in Nat
                             /\ rot[r].pc # "idle" => rot'[r].took = rot[r].took + 1
                                                      /\ rot[r].took < MaxHold
  <2>1. \A x \in Rotations :
           LET y == [x EXCEPT !.took = @ + 1]
           IN /\ y \in Rotations /\ y.took = x.took + 1 /\ x.took \in Nat
              /\ y.pc = x.pc /\ y.todo = x.todo /\ y.failed = x.failed
    BY DEF Rotations
  <2>2. \A r \in Rotators : rot[r] \in Rotations
    BY <1>0
  <2>3. /\ rot' = [r \in Rotators |-> IF rot[r].pc = "idle" THEN rot[r]
                                     ELSE [rot[r] EXCEPT !.took = @ + 1]]
        /\ \A r \in Rotators : rot[r].pc # "idle" => rot[r].took < MaxHold
    BY DEF SignTick
  <2> QED BY <2>1, <2>2, <2>3
<1>9. SignTypes'
  <2>1. rotAge' \in Nat /\ missed' = missed
    BY <1>0 DEF SignTick
  <2> QED BY <1>4, <1>6, <1>7, <1>8, <2>1 DEF SignInv, SignTypes
<1>10. ASSUME NEW a \in Algs
       PROVE  /\ sigCache'[a].sig.life > 0 => FirstUsable(keys'[a], sigCache'[a].sig)
              /\ sigCache'[a].sig.key = NoKey => sigCache'[a].sig = NoSig
              /\ sigCache'[a].sig.key # NoKey =>
                    sigCache'[a].age >= SigTtl \/ sigCache'[a].sig.life > -(sigCache'[a].age + MaxHold)
  <2>1. sigCache'[a].sig = Aged(sigCache[a].sig)
    BY <1>5
  <2>2. sigCache'[a].sig.life > 0 => FirstUsable(keys'[a], sigCache'[a].sig)
    <3> SUFFICES ASSUME sigCache'[a].sig.life > 0 PROVE FirstUsable(keys'[a], Aged(sigCache[a].sig))
      BY <2>1
    <3>1. sigCache[a].sig.life > 1
      BY <1>1, <1>5, <2>1
    <3>2. FirstUsable(keys[a], sigCache[a].sig)
      BY <1>1, <1>5, <3>1 DEF SignInv, SignatureInv
    <3> QED BY <1>3, <1>5, <3>1, <3>2
  <2>3. sigCache'[a].sig.key # NoKey =>
           sigCache'[a].age >= SigTtl \/ sigCache'[a].sig.life > -(sigCache'[a].age + MaxHold)
    <3> SUFFICES ASSUME Aged(sigCache[a].sig).key # NoKey
                 PROVE  sigCache'[a].age >= SigTtl \/ Aged(sigCache[a].sig).life > -(sigCache'[a].age + MaxHold)
      BY <2>1
    <3>1. sigCache[a].age >= SigTtl \/ sigCache[a].sig.life > -(sigCache[a].age + MaxHold)
      BY <1>1, <1>5 DEF SignInv, SignatureInv
    <3>2. sigCache'[a].age = IF sigCache[a].age < SigTtl THEN sigCache[a].age + 1 ELSE SigTtl
      BY <1>5
    <3>3. /\ sigCache[a].age \in Nat /\ sigCache[a].sig.life \in Int
          /\ Aged(sigCache[a].sig).life \in Int
          /\ Aged(sigCache[a].sig).life >= sigCache[a].sig.life - 1
      BY <1>1, <1>5
    <3>4. SigTtl \in Nat /\ MaxHold \in Nat
      BY <1>0
    <3> QED BY <3>1, <3>2, <3>3, <3>4
  <2>4. sigCache'[a].sig.key = NoKey => sigCache'[a].sig = NoSig
    BY <1>1, <1>1a, <1>5 DEF SignInv, SignatureInv
  <2> QED BY <2>2, <2>3, <2>4
<1>11. SignatureInv'
  <2>1. rrsig'.sig.life > 0 => FirstUsable(keys'[rrsig'.alg], rrsig'.sig)
    <3> SUFFICES ASSUME Aged(rrsig.sig).life > 0 PROVE FirstUsable(keys'[rrsig.alg], Aged(rrsig.sig))
      BY <1>7
    <3>1. rrsig.sig.life > 1
      BY <1>1, <1>7
    <3>2. FirstUsable(keys[rrsig.alg], rrsig.sig)
      BY <1>1, <1>7, <3>1 DEF SignInv, SignatureInv
    <3> QED BY <1>3, <1>7, <3>1, <3>2
  <2>2. rrsig.sig.life <= 0 => rrsig'.sig.life <= 0
    BY <1>1, <1>7
  <2>3. rrsig'.sig.key = rrsig.sig.key
    BY <1>1, <1>7
  <2>4. /\ rrsig'.pc \in {"tagged", "validated"} /\ rrsig'.tag # rrsig'.sig.key => rrsig'.sig.life <= 0
        /\ rrsig'.status \in {"Invalid", "Error", "Unsigned"} => rrsig'.sig.life <= 0
        /\ rrsig'.pc # "validated" => rrsig'.status = "none"
    BY <1>7, <2>2, <2>3 DEF SignInv, SignatureInv
  <2>5. rrsig'.pc = "make" => rrsig'.took = 0
    BY <1>7 DEF SignInv, SignatureInv
  <2>6. rrsig'.pc = "made" => /\ rrsig'.took <= MaxHold /\ rrsig'.sig.life > -rrsig'.took
                              /\ rrsig'.sig.key # NoKey
    <3> SUFFICES ASSUME rrsig.pc = "made"
                 PROVE  /\ rrsig'.took <= MaxHold /\ rrsig'.sig.life > -rrsig'.took
                        /\ rrsig'.sig.key # NoKey
      BY <1>7
    <3>1. rrsig.sig.life > -rrsig.took /\ rrsig.sig.key # NoKey
      BY DEF SignInv, SignatureInv
    <3>2. rrsig'.took = rrsig.took + 1 /\ rrsig.took < MaxHold /\ rrsig.took \in Nat
      BY <1>7
    <3>3. rrsig'.sig.life >= rrsig.sig.life - 1 /\ rrsig'.sig.life \in Int /\ rrsig.sig.life \in Int
      BY <1>1, <1>7
    <3> QED BY <1>0, <2>3, <3>1, <3>2, <3>3
  <2> QED BY <1>10, <2>1, <2>4, <2>5, <2>6 DEF SignatureInv
<1>12. RotationInv'
  <2>1. ASSUME NEW r \in Rotators, rot'[r].pc # "idle", NEW a \in Algs,
               a \notin rot'[r].todo, a \notin rot'[r].failed
        PROVE  HasKey(keys'[a], Interval - rot'[r].took)
    <3>1. HasKey(keys[a], Interval - rot[r].took)
      BY <1>8, <2>1 DEF SignInv, RotationInv
    <3>a. rot[r].took \in Nat /\ rot'[r].took = rot[r].took + 1
      BY <1>8, <2>1
    <3>2. Interval - rot[r].took \in Int /\ Interval - rot'[r].took = (Interval - rot[r].took) - 1
      BY <1>0, <3>a
    <3> QED BY <1>3, <3>1, <3>2
  <2>2. \A r \in Rotators : /\ rot'[r].pc # "idle" => rot'[r].took <= MaxHold
                            /\ rot'[r].pc = "mark" => rot'[r].todo = {}
    BY <1>0, <1>8 DEF SignInv, RotationInv
  <2>3. ASSUME NEW a \in Algs, a \notin missed' PROVE HasKey(keys'[a], Interval - MaxHold - rotAge')
    <3>1. HasKey(keys[a], Interval - MaxHold - rotAge)
      BY <2>3 DEF SignInv, RotationInv, SignTick
    <3>2. Interval - MaxHold - rotAge \in Int
      BY <1>0
    <3>3. HasKey(keys'[a], (Interval - MaxHold - rotAge) - 1)
      BY <1>3, <3>1, <3>2
    <3>4. CASE rotAge > Interval
      <4>1. Interval - MaxHold - rotAge' <= 0
        BY <1>0, <3>4 DEF SignTick
      <4> QED BY <4>1 DEF HasKey
    <3>5. CASE ~(rotAge > Interval)
      <4>1. Interval - MaxHold - rotAge' = (Interval - MaxHold - rotAge) - 1
        BY <1>0, <3>5 DEF SignTick
      <4> QED BY <3>3, <4>1
    <3> QED BY <3>4, <3>5
  <2> QED BY <2>1, <2>2, <2>3 DEF RotationInv
<1> QED BY <1>7, <1>9, <1>11, <1>12 DEF SignInv

\* Every step keeps the signer's invariant, and a record that is signed holds a
\* signature of a key that was usable less than the cache's life ago.
LEMMA SignerStep ==
  ASSUME SignInv, [SignNext]_signVars
  PROVE  /\ SignInv'
         /\ signVars' # signVars /\ rrsig.pc # "signed" /\ rrsig'.pc = "signed" =>
               rrsig'.sig.life > -Stale
<1>1. ASSUME NEW r \in Rotators, StartRotation(r) \/ MarkRotation(r)
      PROVE  SignInv' /\ rrsig' = rrsig
  BY <1>1, RotateStep DEF StartRotation, MarkRotation
<1>2. ASSUME NEW r \in Rotators, DeactivateOldKeys(r) PROVE SignInv' /\ rrsig' = rrsig
  BY <1>2, DeactivateStep DEF DeactivateOldKeys
<1>3. ASSUME NEW r \in Rotators, NEW a \in Algs, GenerateKey(r, a) PROVE SignInv' /\ rrsig' = rrsig
  BY <1>3, GenerateStep DEF GenerateKey
<1>4. ASSUME NEW a \in Algs, LookUp(a)
      PROVE  SignInv' /\ (rrsig'.pc = "signed" => rrsig'.sig.life > -Stale)
  BY <1>4, LookUpStep
<1>4a. CASE CacheSignature
  BY <1>4a, CacheStep
<1>5. CASE MakeSignature \/ TakeTag \/ ValidateMessage \/ DropRrsig
  BY <1>5, RecordStep
<1>6. CASE SignTick
  BY <1>6, SignTickStep
<1>7. CASE UNCHANGED signVars
  BY <1>7 DEF signVars, SignInv, SignTypes, SignatureInv, RotationInv
<1> QED BY <1>1, <1>2, <1>3, <1>4, <1>4a, <1>5, <1>6, <1>7 DEF SignNext

\* The signer's invariant holds in every state it can reach.
THEOREM SignerInvariance == SignSpec => []SignInv
<1>1. SignInv /\ [SignNext]_signVars => SignInv'
  BY SignerStep
<1> QED BY <1>1, SignStarts, PTL DEF SignSpec

\* An RRSIG names the key that signed it and validates until that key expires,
\* however rotations fall between signing, tagging and validation.
THEOREM TagsNameSigners == SignSpec => []TagNamesSigner
<1>1. SignInv => TagNamesSigner
  BY DEF SignInv, SignatureInv, TagNamesSigner
<1> QED BY <1>1, SignerInvariance, PTL

\* After a rotation that generated a key for it, an algorithm has a usable key
\* until the rotation interval, less the time a rotation takes, is over.
THEOREM KeysUntilDue == SignSpec => []KeyUntilDue
<1>1. SignInv => KeyUntilDue
  <2> SUFFICES ASSUME SignInv, NEW a \in Algs, GetActiveKey(a).id = NoKey, a \notin missed
               PROVE  rotAge >= Interval - MaxHold
    BY DEF KeyUntilDue
  <2>0. keys \in [Algs -> Seq(Keys)] /\ rotAge \in Nat /\ Interval \in Nat /\ MaxHold \in Nat
    BY SignNumbers DEF SignInv, SignTypes
  <2>1. \A i \in 1..Len(keys[a]) : keys[a][i] \in Keys
    BY <2>0, ElementOfSeq
  <2>2. \A i \in 1..Len(keys[a]) : ~Usable(keys[a][i])
    BY <2>0, <2>1, ActiveKey, SignNumbers DEF Keys
  <2>3. HasKey(keys[a], Interval - MaxHold - rotAge)
    BY DEF SignInv, RotationInv
  <2>4. CASE Interval - MaxHold - rotAge > 0
    <3>1. PICK i \in 1..Len(keys[a]) : keys[a][i].active /\ keys[a][i].left >= Interval - MaxHold - rotAge
      BY <2>0, <2>3, <2>4 DEF HasKey
    <3>2. keys[a][i].left \in Int
      BY <2>1 DEF Keys
    <3> QED BY <2>0, <2>2, <2>4, <3>1, <3>2 DEF Usable
  <2> QED BY <2>0, <2>4
<1> QED BY <1>1, SignerInvariance, PTL

\* A signature that is handed out, cached or not, was made with a key that was
\* usable less than signature_cache_ttl ago.
THEOREM SignaturesRecent == SignSpec => SignatureRecent
<1>1. SignInv /\ [SignNext]_signVars =>
         [rrsig.pc # "signed" /\ rrsig'.pc = "signed" => rrsig'.sig.life > -Stale]_signVars
  BY SignerStep
<1> QED BY <1>1, SignerInvariance, PTL DEF SignSpec, SignatureRecent

=============================================================================
