-------------------------------- MODULE MCDns --------------------------------
(***************************************************************************)
(* Instance of the DNS server's components.  They share no state, so each  *)
(* is explored by itself: part names the component that takes the steps of *)
(* a behaviour, the others keep their initial state.                       *)
(***************************************************************************)
EXTENDS DnsServer, DnssecSigner, ResponseCompression

VARIABLE part

vars == <<dnsVars, signVars, compVars, part>>

\* The clients send two A queries that differ in their id only, or two queries
\* the slot's value does not fit, or packets of the broken kinds.
Pk(kind, id, type) == [kind |-> kind, id |-> id, name |-> "n1", type |-> type]
MCTraffics == {{Pk("query", 1, "A"), Pk("query", 2, "A")},
               {Pk("query", 1, "AAAA"), Pk("query", 1, "TXT")},
               {Pk("response", 1, "A"), Pk("empty", 1, "A"), Pk("malformed", 1, "A")}}
MCPackets == UNION MCTraffics
MCNames == {"n1"}

Resp(n, s, p) == [name |-> n, size |-> s, packed |-> p]
MCResponses == {Resp("small", 1, 1), Resp("good1", 10, 5), Resp("good2", 10, 6),
                Resp("good3", 10, 6), Resp("grows", 10, 11), Resp("fails", 10, 0)}

MCInit == /\ part \in {"dns", "sign", "compress", "metrics"}
          /\ DnsInit /\ SignInit /\ CompInit
          /\ part # "dns" => traffic = CHOOSE T \in MCTraffics : TRUE
          /\ part # "sign" => Len(keys[HmacAlg]) = 1

MCNext ==
    /\ part' = part
    /\ \/ part = "dns" /\ DnsNext /\ UNCHANGED <<signVars, compVars>>
       \/ part = "sign" /\ SignNext /\ UNCHANGED <<dnsVars, compVars>>
       \/ part = "compress" /\ CompNext /\ UNCHANGED <<dnsVars, signVars>>
       \/ part = "metrics" /\ MetricsNext /\ UNCHANGED <<dnsVars, signVars>>

MCSpec == MCInit /\ [][MCNext]_vars /\ (part = "dns" => DnsFairness)

TypeOK == DnsTypeOK /\ SignTypeOK
==============================================================================
