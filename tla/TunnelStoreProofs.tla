------------------------- MODULE TunnelStoreProofs -------------------------
(***************************************************************************)
(* What TunnelStore promises for every number of requests, users,          *)
(* subdomains and ports and for every TTL: the leases on slots exclude     *)
(* each other, a claimed routing key is kept while its tunnel lives, the   *)
(* SSH session record is there until the tunnel expires, and what readers  *)
(* of the keyspace see is the Registry.                                    *)
(***************************************************************************)
EXTENDS TunnelStoreRefinement, TLAPS

\* Where a create handler is before it holds a port, and before it has
\* written tunnel:{id}.
BeforeLease == {"validate", "available", "available2", "issue", "port"}
BeforeStore == BeforeLease \cup {"store"}

\* Where a delete handler is once tunnel:{id} is gone.
AfterRecord == {"subdomain", "fqdn", "listGet", "listSet"}

\* A running lease is the whole life of its port key, and only a handler past
\* allocate_port has one.
LeaseBacked ==
    \A t \in Creates :
        resv[t] > 0 => pc[t] \notin BeforeLease /\ portKey[port[t]] = resv[t]

\* No record before StoreRecord; afterwards it never outlives expires_at, nor
\* the TTL that its subdomain key is given.
RecordBounded ==
    \A t \in Creates :
        /\ pc[t] \in BeforeStore => tunnelKey[t] = 0
        /\ tunnelKey[t] <= life[t]
        /\ tunnelKey[t] <= storeTtl[t]

\* A delete handler past its DEL works on a tunnel without a record.
DeletedGone ==
    \A d \in Deletes :
        /\ d \in cut => target[d].id \in Creates /\ pc[d] # "known"
        /\ pc[d] \in AfterRecord \cup {"record"} =>
               pc[target[d].id] \notin BeforeStore
        /\ pc[d] \in AfterRecord => tunnelKey[target[d].id] = 0

\* RoutingKeyKept with what makes it inductive: the key outlives the record.
ClaimBacked ==
    \A t \in Creates :
        Claimed(t) /\ tunnelKey[t] > 0 =>
            \/ /\ subKey[Sub(t)].id = t
               /\ subKey[Sub(t)].ttl >= tunnelKey[t]
            \/ CutByAnother(t)

\* SessionUntilExpiry with what makes it inductive: the grace is more than the
\* fraction of a second that the TTL drops.
SessionBacked ==
    \A t \in Creates : pc[t] = "acked" => life[t] <= sessKey[t]

IInv ==
    /\ TypeOK
    /\ LeaseBacked
    /\ LeasesExclusive
    /\ RecordBounded
    /\ DeletedGone
    /\ ClaimBacked
    /\ SessionBacked

-----------------------------------------------------------------------------
(* Whole seconds                                                           *)

\* num_seconds() gives a whole number of seconds, at most what is left and
\* less than a second short of it.
LEMMA WholeBounds ==
    \A n \in Nat :
        /\ WholeSeconds(n) \in Nat
        /\ WholeSeconds(n) <= n
        /\ n < WholeSeconds(n) + Second
BY TtlAssumption DEF WholeSeconds

-----------------------------------------------------------------------------
(* Types                                                                   *)

\* A create handler that moves leaves the types of all handlers in order.
LEMMA CreateMoves ==
    ASSUME TypeOK, NEW t \in Creates, NEW v \in CreatePC \cup DonePC,
           pc' = [pc EXCEPT ![t] = v], UNCHANGED target
    PROVE  HandlersTypeOK'
BY RequestAssumption
DEF TypeOK, HandlersTypeOK, Requests, CreatePC, DeletePC, DonePC

\* Every step keeps the types.
LEMMA TypeStep ==
    TypeOK /\ [Next]_vars => TypeOK'
<1> SUFFICES ASSUME TypeOK, [Next]_vars PROVE TypeOK'
    OBVIOUS
<1> USE DEF HandlersTypeOK, redisVars, meterVars, createVars, deleteVars, Goto
<1>1. ASSUME NEW t \in Creates, ValidateRequest(t) PROVE TypeOK'
  <2>1. HandlersTypeOK'
    BY <1>1, RequestAssumption
    DEF TypeOK, ValidateRequest, Requests, CreatePC, DeletePC, DonePC
  <2>2. UNCHANGED <<tunnelKey, lookup, subKey, dnsKey, portKey, sessKey,
                    opened, closed, arg, port, tries, life, storeTtl,
                    resv, target, cut, snap>>
    BY <1>1 DEF ValidateRequest
  <2>3. QED
    BY <2>1, <2>2 DEF TypeOK
<1>2. ASSUME NEW t \in Creates, CheckSubdomain(t) PROVE TypeOK'
  <2>1. HandlersTypeOK'
    BY <1>2, RequestAssumption
    DEF TypeOK, CheckSubdomain, Requests, CreatePC, DeletePC, DonePC
  <2>2. UNCHANGED <<tunnelKey, lookup, subKey, dnsKey, portKey, sessKey,
                    opened, closed, arg, port, tries, life, storeTtl,
                    resv, target, cut>>
    BY <1>2 DEF CheckSubdomain
  <2>3. snap' \in [Requests -> SUBSET Creates]
    BY <1>2 DEF TypeOK, CheckSubdomain, Requests, Sub
  <2>4. QED
    BY <2>1, <2>2, <2>3 DEF TypeOK
<1>3. ASSUME NEW t \in Creates, CheckHolderRecord(t) PROVE TypeOK'
  <2>1. HandlersTypeOK'
    BY <1>3, RequestAssumption
    DEF TypeOK, CheckHolderRecord, Requests, CreatePC, DeletePC, DonePC
  <2>2. UNCHANGED <<tunnelKey, lookup, subKey, dnsKey, portKey, sessKey,
                    opened, closed, arg, port, tries, life, storeTtl,
                    resv, target, cut>>
    BY <1>3 DEF CheckHolderRecord
  <2>3. snap' \in [Requests -> SUBSET Creates]
    BY <1>3 DEF TypeOK, CheckHolderRecord, Requests
  <2>4. QED
    BY <2>1, <2>2, <2>3 DEF TypeOK
<1>4. ASSUME NEW t \in Creates, IssueCertificate(t) PROVE TypeOK'
  <2>1. HandlersTypeOK'
    BY <1>4, RequestAssumption
    DEF TypeOK, IssueCertificate, Requests, CreatePC, DeletePC, DonePC
  <2>2. UNCHANGED <<tunnelKey, lookup, subKey, dnsKey, portKey, sessKey,
                    opened, closed, arg, tries, life, storeTtl, resv,
                    target, cut, snap>>
    BY <1>4 DEF IssueCertificate
  <2>3. port' \in [Creates -> Ports]
    BY <1>4, PortAssumption DEF TypeOK, IssueCertificate, Ports
  <2>4. QED
    BY <2>1, <2>2, <2>3 DEF TypeOK
<1>5. ASSUME NEW t \in Creates, AllocatePort(t) PROVE TypeOK'
  <2>1. HandlersTypeOK'
    <3>1. PICK v \in {"store", "port", "failed"} : pc' = [pc EXCEPT ![t] = v]
      BY <1>5 DEF AllocatePort
    <3>2. QED
      BY <1>5, <3>1, CreateMoves DEF AllocatePort, CreatePC, DonePC
  <2>2. UNCHANGED <<tunnelKey, lookup, subKey, dnsKey, sessKey, opened,
                    closed, arg, storeTtl, target, cut, snap>>
    BY <1>5 DEF AllocatePort
  <2>3. /\ portKey' \in [Ports -> Nat]
        /\ port' \in [Creates -> Ports]
        /\ tries' \in [Creates -> Nat]
        /\ resv' \in [Creates -> Nat]
        /\ life' \in [Creates -> Nat]
    <3>1. TunnelTtl(arg[t].ttl) \in Nat
      BY TtlAssumption DEF TypeOK, TunnelTtl
    <3>2. NextPort(port[t]) \in Ports
      <4>1. port[t] \in Ports
        BY DEF TypeOK
      <4>2. QED
        BY <4>1, PortAssumption DEF Ports, NextPort
    <3>3. CASE PortFree(port[t])
      <4>1. /\ portKey' = [portKey EXCEPT ![port[t]] = CertTtl]
            /\ resv' = [resv EXCEPT ![t] = CertTtl]
            /\ life' = [life EXCEPT ![t] = TunnelTtl(arg[t].ttl)]
            /\ tries' = [tries EXCEPT ![t] = 0]
            /\ port' = port
        BY <1>5, <3>3 DEF AllocatePort
      <4>2. CertTtl \in Nat
        BY TtlAssumption
      <4>3. QED
        BY <3>1, <4>1, <4>2 DEF TypeOK
    <3>4. CASE ~PortFree(port[t])
      <4>1. /\ tries' = [tries EXCEPT ![t] = tries[t] + 1]
            /\ port' = [port EXCEPT ![t] = NextPort(port[t])]
            /\ UNCHANGED <<portKey, resv, life>>
        BY <1>5, <3>4 DEF AllocatePort, NextTry
      <4>2. QED
        BY <3>2, <4>1 DEF TypeOK
    <3>5. QED
      BY <3>3, <3>4
  <2>4. QED
    BY <2>1, <2>2, <2>3 DEF TypeOK
<1>6. ASSUME NEW t \in Creates, StoreRecord(t) PROVE TypeOK'
  <2>1. HandlersTypeOK'
    <3>1. PICK v \in {"lookupGet", "failed"} : pc' = [pc EXCEPT ![t] = v]
      BY <1>6 DEF StoreRecord
    <3>2. QED
      BY <1>6, <3>1, CreateMoves DEF StoreRecord, CreatePC, DonePC
  <2>2. UNCHANGED <<lookup, subKey, dnsKey, portKey, sessKey, opened,
                    closed, arg, port, tries, life, resv, target, cut,
                    snap>>
    BY <1>6 DEF StoreRecord
  <2>3. /\ tunnelKey' \in [Creates -> Nat]
        /\ storeTtl' \in [Creates -> Nat]
    <3>1. life[t] \in Nat
      BY DEF TypeOK
    <3>2. WholeSeconds(life[t]) \in Nat
      BY <3>1, WholeBounds
    <3>3. \/ UNCHANGED <<tunnelKey, storeTtl>>
          \/ /\ tunnelKey' = [tunnelKey EXCEPT ![t] = WholeSeconds(life[t])]
             /\ storeTtl' = [storeTtl EXCEPT ![t] = WholeSeconds(life[t])]
      BY <1>6 DEF StoreRecord
    <3>4. tunnelKey \in [Creates -> Nat] /\ storeTtl \in [Creates -> Nat]
      BY DEF TypeOK
    <3>5. QED
      BY <3>2, <3>3, <3>4
  <2>4. QED
    BY <2>1, <2>2, <2>3 DEF TypeOK
<1>7. ASSUME NEW t \in Creates, StoreLookupGet(t) PROVE TypeOK'
  <2>1. HandlersTypeOK'
    BY <1>7, RequestAssumption
    DEF TypeOK, StoreLookupGet, Requests, CreatePC, DeletePC, DonePC
  <2>2. UNCHANGED <<tunnelKey, lookup, subKey, dnsKey, portKey, sessKey,
                    opened, closed, arg, port, tries, life, storeTtl,
                    resv, target, cut>>
    BY <1>7 DEF StoreLookupGet
  <2>3. snap' \in [Requests -> SUBSET Creates]
    BY <1>7 DEF TypeOK, StoreLookupGet, Requests, User
  <2>4. QED
    BY <2>1, <2>2, <2>3 DEF TypeOK
<1>8. ASSUME NEW t \in Creates, StoreLookupSet(t) PROVE TypeOK'
  <2>1. HandlersTypeOK'
    BY <1>8, RequestAssumption
    DEF TypeOK, StoreLookupSet, Requests, CreatePC, DeletePC, DonePC
  <2>2. UNCHANGED <<tunnelKey, subKey, dnsKey, portKey, sessKey, opened,
                    closed, arg, port, tries, life, storeTtl, resv,
                    target, cut>>
    BY <1>8 DEF StoreLookupSet
  <2>3. /\ lookup' \in [Users -> SUBSET Creates]
        /\ snap' \in [Requests -> SUBSET Creates]
    BY <1>8 DEF TypeOK, StoreLookupSet, Requests, User
  <2>4. QED
    BY <2>1, <2>2, <2>3 DEF TypeOK
<1>9. ASSUME NEW t \in Creates, ClaimSubdomain(t) PROVE TypeOK'
  <2>1. HandlersTypeOK'
    <3>1. PICK v \in {"dns", "holder"} : pc' = [pc EXCEPT ![t] = v]
      BY <1>9 DEF ClaimSubdomain
    <3>2. QED
      BY <1>9, <3>1, CreateMoves DEF ClaimSubdomain, CreatePC, DonePC
  <2>2. UNCHANGED <<tunnelKey, lookup, dnsKey, portKey, sessKey, opened,
                    closed, arg, port, tries, life, storeTtl, resv,
                    target, cut, snap>>
    BY <1>9 DEF ClaimSubdomain
  <2>3. subKey' \in [Subdomains -> [id : Creates \cup {None}, ttl : Nat]]
    <3>1. [id |-> t, ttl |-> storeTtl[t]] \in [id : Creates \cup {None}, ttl : Nat]
      BY DEF TypeOK
    <3>2. QED
      BY <1>9, <3>1 DEF TypeOK, ClaimSubdomain, Sub
  <2>4. QED
    BY <2>1, <2>2, <2>3 DEF TypeOK
<1>10. ASSUME NEW t \in Creates, ReadHolder(t) PROVE TypeOK'
  <2>1. HandlersTypeOK'
    BY <1>10, RequestAssumption
    DEF TypeOK, ReadHolder, Requests, CreatePC, DeletePC, DonePC
  <2>2. UNCHANGED <<tunnelKey, lookup, subKey, dnsKey, portKey, sessKey,
                    opened, closed, arg, port, tries, life, storeTtl,
                    resv, target, cut, snap>>
    BY <1>10 DEF ReadHolder
  <2>3. QED
    BY <2>1, <2>2 DEF TypeOK
<1>11. ASSUME NEW t \in Creates, StoreDnsSlot(t) PROVE TypeOK'
  <2>1. HandlersTypeOK'
    BY <1>11, RequestAssumption
    DEF TypeOK, StoreDnsSlot, Requests, CreatePC, DeletePC, DonePC
  <2>2. UNCHANGED <<tunnelKey, lookup, subKey, portKey, sessKey, closed,
                    arg, port, tries, life, storeTtl, resv, target, cut,
                    snap>>
    BY <1>11 DEF StoreDnsSlot
  <2>3. /\ dnsKey' \in [Subdomains -> Nat]
        /\ opened' \in [Creates -> Nat]
    BY <1>11 DEF TypeOK, StoreDnsSlot, Sub
  <2>4. QED
    BY <2>1, <2>2, <2>3 DEF TypeOK
<1>12. ASSUME NEW t \in Creates, StoreSshSession(t) PROVE TypeOK'
  <2>1. HandlersTypeOK'
    BY <1>12, RequestAssumption
    DEF TypeOK, StoreSshSession, Requests, CreatePC, DeletePC, DonePC
  <2>2. UNCHANGED <<tunnelKey, lookup, subKey, dnsKey, portKey, opened,
                    closed, arg, port, tries, life, storeTtl, resv,
                    target, cut, snap>>
    BY <1>12 DEF StoreSshSession
  <2>3. sessKey' \in [Creates -> Nat]
    <3>1. life[t] \in Nat
      BY DEF TypeOK
    <3>2. SessionTtl(life[t]) \in Nat
      BY <3>1, WholeBounds, TtlAssumption DEF SessionTtl, AtLeastASecond
    <3>3. QED
      BY <1>12, <3>2 DEF TypeOK, StoreSshSession
  <2>4. QED
    BY <2>1, <2>2, <2>3 DEF TypeOK
<1>13. ASSUME NEW t \in Creates, CreateFail(t) PROVE TypeOK'
  <2>1. HandlersTypeOK'
    BY <1>13, RequestAssumption
    DEF TypeOK, CreateFail, Requests, CreatePC, DeletePC, DonePC
  <2>2. UNCHANGED <<tunnelKey, lookup, subKey, dnsKey, portKey, sessKey,
                    opened, closed, arg, port, tries, life, storeTtl,
                    resv, target, cut>>
    BY <1>13 DEF CreateFail
  <2>3. snap' \in [Requests -> SUBSET Creates]
    BY <1>13 DEF TypeOK, CreateFail, Requests
  <2>4. QED
    BY <2>1, <2>2, <2>3 DEF TypeOK
<1>14. ASSUME NEW d \in Deletes, NEW t \in Creates, DeleteRequest(d, t) PROVE TypeOK'
  <2>1. HandlersTypeOK'
    BY <1>14, RequestAssumption
    DEF TypeOK, DeleteRequest, Requests, CreatePC, DeletePC, DonePC
  <2>2. UNCHANGED <<tunnelKey, lookup, subKey, dnsKey, portKey, sessKey,
                    opened, closed, arg, port, tries, life, storeTtl,
                    resv, cut, snap>>
    BY <1>14 DEF DeleteRequest
  <2>3. target' \in [Deletes -> [user : Users, id : Creates \cup {None}]]
    <3>1. [user |-> target[d].user, id |-> t]
              \in [user : Users, id : Creates \cup {None}]
      BY DEF TypeOK
    <3>2. QED
      BY <1>14, <3>1 DEF TypeOK, DeleteRequest
  <2>4. QED
    BY <2>1, <2>2, <2>3 DEF TypeOK
<1>15. ASSUME NEW d \in Deletes, DeleteCheckOwner(d) PROVE TypeOK'
  <2>1. HandlersTypeOK'
    BY <1>15, RequestAssumption
    DEF TypeOK, DeleteCheckOwner, Requests, CreatePC, DeletePC, DonePC
  <2>2. UNCHANGED <<tunnelKey, lookup, subKey, dnsKey, portKey, sessKey,
                    opened, closed, arg, port, tries, life, storeTtl,
                    resv, target, cut, snap>>
    BY <1>15 DEF DeleteCheckOwner
  <2>3. QED
    BY <2>1, <2>2 DEF TypeOK
<1>16. ASSUME NEW d \in Deletes, DeleteReadAgain(d) PROVE TypeOK'
  <2>1. HandlersTypeOK'
    BY <1>16, RequestAssumption
    DEF TypeOK, DeleteReadAgain, Requests, CreatePC, DeletePC, DonePC
  <2>2. UNCHANGED <<tunnelKey, lookup, subKey, dnsKey, portKey, sessKey,
                    opened, closed, arg, port, tries, life, storeTtl,
                    resv, target, cut, snap>>
    BY <1>16 DEF DeleteReadAgain
  <2>3. QED
    BY <2>1, <2>2 DEF TypeOK
<1>17. ASSUME NEW d \in Deletes, DeleteRecord(d) PROVE TypeOK'
  <2>1. HandlersTypeOK'
    BY <1>17, RequestAssumption
    DEF TypeOK, DeleteRecord, Requests, CreatePC, DeletePC, DonePC
  <2>2. UNCHANGED <<lookup, subKey, dnsKey, portKey, sessKey, opened,
                    closed, arg, port, tries, life, storeTtl, resv,
                    target, cut, snap>>
    BY <1>17 DEF DeleteRecord
  <2>3. tunnelKey' \in [Creates -> Nat]
    BY <1>17 DEF TypeOK, DeleteRecord, DeletePC
  <2>4. QED
    BY <2>1, <2>2, <2>3 DEF TypeOK
<1>18. ASSUME NEW d \in Deletes, DeleteSubdomain(d) PROVE TypeOK'
  <2>1. HandlersTypeOK'
    BY <1>18, RequestAssumption
    DEF TypeOK, DeleteSubdomain, Requests, CreatePC, DeletePC, DonePC
  <2>2. UNCHANGED <<tunnelKey, lookup, dnsKey, portKey, sessKey, opened,
                    closed, arg, port, tries, life, storeTtl, resv,
                    target, snap>>
    BY <1>18 DEF DeleteSubdomain
  <2>3. /\ subKey' \in [Subdomains -> [id : Creates \cup {None}, ttl : Nat]]
        /\ cut' \in SUBSET Deletes
    BY <1>18 DEF TypeOK, DeleteSubdomain, NoHolder, DeletePC, Sub
  <2>4. QED
    BY <2>1, <2>2, <2>3 DEF TypeOK
<1>19. ASSUME NEW d \in Deletes, DeleteDnsSlot(d) PROVE TypeOK'
  <2>1. HandlersTypeOK'
    BY <1>19, RequestAssumption
    DEF TypeOK, DeleteDnsSlot, Requests, CreatePC, DeletePC, DonePC
  <2>2. UNCHANGED <<tunnelKey, lookup, subKey, portKey, sessKey, opened,
                    closed, arg, port, tries, life, storeTtl, resv,
                    target, cut, snap>>
    BY <1>19 DEF DeleteDnsSlot
  <2>3. dnsKey' \in [Subdomains -> Nat]
    BY <1>19 DEF TypeOK, DeleteDnsSlot, DeletePC, Sub
  <2>4. QED
    BY <2>1, <2>2, <2>3 DEF TypeOK
<1>20. ASSUME NEW d \in Deletes, DeleteLookupGet(d) PROVE TypeOK'
  <2>1. HandlersTypeOK'
    BY <1>20, RequestAssumption
    DEF TypeOK, DeleteLookupGet, Requests, CreatePC, DeletePC, DonePC
  <2>2. UNCHANGED <<tunnelKey, lookup, subKey, dnsKey, portKey, sessKey,
                    opened, closed, arg, port, tries, life, storeTtl,
                    resv, target, cut>>
    BY <1>20 DEF DeleteLookupGet
  <2>3. snap' \in [Requests -> SUBSET Creates]
    BY <1>20 DEF TypeOK, DeleteLookupGet, Requests, DeletePC, User
  <2>4. QED
    BY <2>1, <2>2, <2>3 DEF TypeOK
<1>21. ASSUME NEW d \in Deletes, DeleteLookupSet(d) PROVE TypeOK'
  <2>1. HandlersTypeOK'
    BY <1>21, RequestAssumption
    DEF TypeOK, DeleteLookupSet, Requests, CreatePC, DeletePC, DonePC
  <2>2. UNCHANGED <<tunnelKey, subKey, dnsKey, portKey, sessKey, opened,
                    arg, port, tries, life, storeTtl, resv, target, cut>>
    BY <1>21 DEF DeleteLookupSet
  <2>3. /\ lookup' \in [Users -> SUBSET Creates]
        /\ snap' \in [Requests -> SUBSET Creates]
        /\ closed' \in [Creates -> Nat]
    BY <1>21 DEF TypeOK, DeleteLookupSet, Requests, DeletePC, User
  <2>4. QED
    BY <2>1, <2>2, <2>3 DEF TypeOK
<1>22. ASSUME NEW d \in Deletes, DeleteFail(d) PROVE TypeOK'
  <2>1. HandlersTypeOK'
    BY <1>22, RequestAssumption
    DEF TypeOK, DeleteFail, Requests, CreatePC, DeletePC, DonePC
  <2>2. UNCHANGED <<tunnelKey, lookup, subKey, dnsKey, portKey, sessKey,
                    opened, closed, arg, port, tries, life, storeTtl,
                    resv, target, cut>>
    BY <1>22 DEF DeleteFail
  <2>3. snap' \in [Requests -> SUBSET Creates]
    BY <1>22 DEF TypeOK, DeleteFail, Requests
  <2>4. QED
    BY <2>1, <2>2, <2>3 DEF TypeOK
<1>23. ASSUME Tick PROVE TypeOK'
  <2>1. UNCHANGED <<lookup, opened, closed, arg, port, tries, storeTtl,
                    target, cut, snap, pc>>
    BY <1>23 DEF Tick
  <2>2. /\ tunnelKey' \in [Creates -> Nat]
        /\ dnsKey' \in [Subdomains -> Nat]
        /\ portKey' \in [Ports -> Nat]
        /\ sessKey' \in [Creates -> Nat]
        /\ life' \in [Creates -> Nat]
        /\ resv' \in [Creates -> Nat]
    BY <1>23 DEF TypeOK, Tick, Dec
  <2>3. subKey' \in [Subdomains -> [id : Creates \cup {None}, ttl : Nat]]
    BY <1>23 DEF TypeOK, Tick, AgedHolder, NoHolder
  <2>4. QED
    BY <2>1, <2>2, <2>3 DEF TypeOK
<1>24. CASE UNCHANGED vars
    BY <1>24 DEF TypeOK, vars
<1>25. QED BY <1>1, <1>2, <1>3, <1>4, <1>5, <1>6, <1>7, <1>8, <1>9, <1>10,
              <1>11, <1>12, <1>13, <1>14, <1>15, <1>16, <1>17, <1>18,
              <1>19, <1>20, <1>21, <1>22, <1>23, <1>24 DEF Next,
              CreateStep, DeleteStep


-----------------------------------------------------------------------------
(* Handlers move forward                                                   *)

\* A create handler never goes back to a point before its port or its record,
\* a record is written only by StoreRecord, a routing key is won only by
\* ClaimSubdomain and the 200 is sent only by StoreSshSession.
Forward(t) ==
    /\ pc'[t] \in BeforeLease => pc[t] \in BeforeLease
    /\ pc'[t] \in BeforeStore => pc[t] \in BeforeStore
    /\ Claimed(t)' => Claimed(t) \/ ClaimSubdomain(t)
    /\ pc'[t] = "acked" => pc[t] = "acked" \/ StoreSshSession(t)

\* Every step of the API moves a create handler forward only, by its own actions.
LEMMA MovesForward ==
    TypeOK /\ [Next]_vars => \A t \in Creates : Forward(t)
<1> SUFFICES ASSUME TypeOK, [Next]_vars, NEW t \in Creates PROVE Forward(t)
    OBVIOUS
<1> USE RequestAssumption
    DEF TypeOK, HandlersTypeOK, Goto, Forward, Claimed, BeforeLease, BeforeStore
<1>1. CASE \E w \in Creates : CreateStep(w) \/ CreateFail(w)
  <2>1. PICK w \in Creates : CreateStep(w) \/ CreateFail(w)
    BY <1>1
  <2>2. CASE \/ ValidateRequest(w) \/ CheckSubdomain(w) \/ CheckHolderRecord(w)
             \/ IssueCertificate(w)
    BY <2>2 DEF ValidateRequest, CheckSubdomain, CheckHolderRecord,
                IssueCertificate, Requests
  <2>3. CASE AllocatePort(w) \/ StoreRecord(w)
    BY <2>3 DEF AllocatePort, StoreRecord, Requests
  <2>4. CASE StoreLookupGet(w) \/ StoreLookupSet(w) \/ ReadHolder(w)
    BY <2>4 DEF StoreLookupGet, StoreLookupSet, ReadHolder, Requests
  <2>5. CASE ClaimSubdomain(w)
    <3>1. CASE w = t
      BY <2>5, <3>1 DEF ClaimSubdomain, Requests
    <3>2. CASE w # t
      BY <2>5, <3>2 DEF ClaimSubdomain, Requests
    <3>3. QED
      BY <3>1, <3>2
  <2>6. CASE StoreDnsSlot(w)
    BY <2>6 DEF StoreDnsSlot, Requests
  <2>7. CASE StoreSshSession(w)
    <3>1. CASE w = t
      BY <2>7, <3>1 DEF StoreSshSession, Requests
    <3>2. CASE w # t
      BY <2>7, <3>2 DEF StoreSshSession, Requests
    <3>3. QED
      BY <3>1, <3>2
  <2>8. CASE CreateFail(w)
    BY <2>8 DEF CreateFail, Requests
  <2>9. QED
    BY <2>1, <2>2, <2>3, <2>4, <2>5, <2>6, <2>7, <2>8 DEF CreateStep
<1>2. CASE \E d \in Deletes, w \in Creates : DeleteRequest(d, w)
    BY <1>2 DEF DeleteRequest, Requests
<1>3. CASE \E d \in Deletes : DeleteStep(d) \/ DeleteFail(d)
  <2>1. PICK d \in Deletes : DeleteStep(d) \/ DeleteFail(d)
    BY <1>3
  <2>2. pc'[t] = pc[t]
    BY <2>1 DEF DeleteStep, DeleteCheckOwner, DeleteReadAgain, DeleteRecord,
        DeleteSubdomain, DeleteDnsSlot, DeleteLookupGet, DeleteLookupSet,
        DeleteFail, Requests
  <2>3. QED
    BY <2>2
<1>4. CASE Tick \/ UNCHANGED vars
    BY <1>4 DEF Tick, vars
<1>5. QED
    BY <1>1, <1>2, <1>3, <1>4 DEF Next

\* A delete handler gets to its DEL only through DeleteReadAgain, past it only
\* through DeleteRecord, and never changes its target on the way.
DeleteForward(d) ==
    /\ pc'[d] \in AfterRecord \cup {"record"} =>
           pc[d] \in AfterRecord \cup {"record"} \/ DeleteReadAgain(d)
    /\ pc'[d] \in AfterRecord => pc[d] \in AfterRecord \/ DeleteRecord(d)
    /\ pc'[d] = "known" => pc[d] = "known"
    /\ target'[d] = target[d] \/ (pc[d] = "known" /\ pc'[d] = "get")
    /\ d \in cut' => d \in cut \/ DeleteSubdomain(d)

\* Every step of the API moves a delete handler forward only, by its own actions.
LEMMA DeletesForward ==
    TypeOK /\ [Next]_vars => \A d \in Deletes : DeleteForward(d)
<1> SUFFICES ASSUME TypeOK, [Next]_vars, NEW d \in Deletes
             PROVE  DeleteForward(d)
    OBVIOUS
<1> USE RequestAssumption
    DEF TypeOK, HandlersTypeOK, Goto, DeleteForward, AfterRecord, deleteVars
<1>1. CASE \E w \in Creates : CreateStep(w) \/ CreateFail(w)
  <2>1. pc'[d] = pc[d] /\ target' = target /\ cut' = cut
    BY <1>1 DEF CreateStep, ValidateRequest, CheckSubdomain,
        CheckHolderRecord, IssueCertificate, AllocatePort, StoreRecord,
        StoreLookupGet, StoreLookupSet, ClaimSubdomain, ReadHolder,
        StoreDnsSlot, StoreSshSession, CreateFail, Requests
  <2>2. QED
    BY <2>1
<1>2. CASE \E e \in Deletes, w \in Creates : DeleteRequest(e, w)
    BY <1>2 DEF DeleteRequest, Requests
<1>3. CASE \E e \in Deletes : DeleteStep(e) \/ DeleteFail(e)
  <2>1. PICK e \in Deletes : DeleteStep(e) \/ DeleteFail(e)
    BY <1>3
  <2>2. CASE e # d
    <3>1. pc'[d] = pc[d] /\ target' = target /\ (d \in cut' => d \in cut)
      BY <2>1, <2>2 DEF DeleteStep, DeleteCheckOwner, DeleteReadAgain,
          DeleteRecord, DeleteSubdomain, DeleteDnsSlot, DeleteLookupGet,
          DeleteLookupSet, DeleteFail, Requests
    <3>2. QED
      BY <3>1
  <2>3. CASE e = d
    <3>1. CASE DeleteCheckOwner(d)
      BY <3>1 DEF DeleteCheckOwner, Requests
    <3>2. CASE DeleteReadAgain(d)
      BY <3>2 DEF DeleteReadAgain, Requests
    <3>3. CASE DeleteRecord(d)
      BY <3>3 DEF DeleteRecord, Requests
    <3>4. CASE DeleteSubdomain(d)
      BY <3>4 DEF DeleteSubdomain, Requests
    <3>5. CASE DeleteDnsSlot(d) \/ DeleteLookupGet(d)
      BY <3>5 DEF DeleteDnsSlot, DeleteLookupGet, Requests
    <3>6. CASE DeleteLookupSet(d) \/ DeleteFail(d)
      BY <3>6 DEF DeleteLookupSet, DeleteFail, Requests
    <3>7. QED
      BY <2>1, <2>3, <3>1, <3>2, <3>3, <3>4, <3>5, <3>6 DEF DeleteStep
  <2>4. QED
    BY <2>2, <2>3
<1>4. CASE Tick \/ UNCHANGED vars
    BY <1>4 DEF Tick, vars
<1>5. QED
    BY <1>1, <1>2, <1>3, <1>4 DEF Next

-----------------------------------------------------------------------------
(* Which actions touch what                                                *)

\* Only the allocation of a port, and time, change ports and their leases.
LEMMA LeaseFrame ==
    [Next]_vars =>
        \/ \E t \in Creates : IssueCertificate(t) \/ AllocatePort(t)
        \/ Tick
        \/ UNCHANGED <<portKey, port, resv>>
BY DEF Next, CreateStep, DeleteStep, ValidateRequest, CheckSubdomain,
    CheckHolderRecord, StoreRecord, StoreLookupGet, StoreLookupSet,
    ClaimSubdomain, ReadHolder, StoreDnsSlot, StoreSshSession, CreateFail,
    DeleteRequest, DeleteCheckOwner, DeleteReadAgain, DeleteRecord,
    DeleteSubdomain, DeleteDnsSlot, DeleteLookupGet, DeleteLookupSet,
    DeleteFail, redisVars, createVars, vars

\* Only the allocation of a port, the store, a delete and time change how long
\* a tunnel and its record live.
LEMMA RecordFrame ==
    [Next]_vars =>
        \/ \E t \in Creates : AllocatePort(t) \/ StoreRecord(t)
        \/ \E d \in Deletes : DeleteRecord(d)
        \/ Tick
        \/ UNCHANGED <<tunnelKey, life, storeTtl>>
BY DEF Next, CreateStep, DeleteStep, ValidateRequest, CheckSubdomain,
    CheckHolderRecord, IssueCertificate, StoreLookupGet, StoreLookupSet,
    ClaimSubdomain, ReadHolder, StoreDnsSlot, StoreSshSession, CreateFail,
    DeleteRequest, DeleteCheckOwner, DeleteReadAgain,
    DeleteSubdomain, DeleteDnsSlot, DeleteLookupGet, DeleteLookupSet,
    DeleteFail, redisVars, createVars, vars

\* Only the claim, a delete and time change the routing keys; requests never
\* change.
LEMMA ClaimFrame ==
    [Next]_vars =>
        /\ arg' = arg
        /\ \/ \E t \in Creates : ClaimSubdomain(t)
           \/ \E d \in Deletes : DeleteSubdomain(d)
           \/ Tick
           \/ UNCHANGED subKey
BY DEF Next, CreateStep, DeleteStep, ValidateRequest, CheckSubdomain,
    CheckHolderRecord, IssueCertificate, AllocatePort, StoreRecord,
    StoreLookupGet, StoreLookupSet, ClaimSubdomain,
    ReadHolder, StoreDnsSlot, StoreSshSession, CreateFail,
    DeleteRequest, DeleteCheckOwner, DeleteReadAgain, DeleteRecord,
    DeleteSubdomain, DeleteDnsSlot, DeleteLookupGet, DeleteLookupSet,
    DeleteFail, Tick, redisVars, createVars, vars

-----------------------------------------------------------------------------
(* The invariants, one at a time                                           *)

\* A port is given out only when no lease on it runs.
LEMMA LeaseStep ==
    TypeOK /\ LeaseBacked /\ LeasesExclusive /\ [Next]_vars
        => LeaseBacked' /\ LeasesExclusive'
<1> SUFFICES ASSUME TypeOK, LeaseBacked, LeasesExclusive, [Next]_vars
             PROVE  LeaseBacked' /\ LeasesExclusive'
    OBVIOUS
<1>1. \A t \in Creates : pc'[t] \in BeforeLease => pc[t] \in BeforeLease
    BY MovesForward DEF Forward
<1>2. ASSUME NEW w \in Creates, IssueCertificate(w)
      PROVE  LeaseBacked' /\ LeasesExclusive'
  <2>1. pc[w] \in BeforeLease
    BY <1>2 DEF IssueCertificate, Goto, BeforeLease
  <2>2. resv[w] = 0
    BY <2>1 DEF LeaseBacked, TypeOK
  <2>3. resv' = resv /\ portKey' = portKey
    BY <1>2 DEF IssueCertificate, redisVars
  <2>4. \A t \in Creates : t # w => port'[t] = port[t]
    BY <1>2 DEF IssueCertificate, TypeOK
  <2>5. QED
    BY <1>1, <2>2, <2>3, <2>4 DEF LeaseBacked, LeasesExclusive
<1>3. ASSUME NEW w \in Creates, AllocatePort(w)
      PROVE  LeaseBacked' /\ LeasesExclusive'
  <2>1. pc[w] \in BeforeLease
    BY <1>3 DEF AllocatePort, BeforeLease
  <2>2. resv[w] = 0
    BY <2>1 DEF LeaseBacked, TypeOK
  <2>3. CASE PortFree(port[w])
    <3>1. /\ portKey[port[w]] = 0
          /\ portKey' = [portKey EXCEPT ![port[w]] = CertTtl]
          /\ resv' = [resv EXCEPT ![w] = CertTtl]
          /\ port' = port
          /\ pc' = [pc EXCEPT ![w] = "store"]
      BY <1>3, <2>3 DEF AllocatePort, PortFree
    <3>2. \A t \in Creates : resv[t] > 0 => port[t] # port[w]
      BY <3>1 DEF LeaseBacked, TypeOK
    <3>3. pc'[w] = "store"
      BY <3>1 DEF TypeOK, HandlersTypeOK, Requests
    <3>4. LeaseBacked'
      BY <1>1, <3>1, <3>2, <3>3 DEF LeaseBacked, TypeOK, BeforeLease
    <3>5. LeasesExclusive'
      BY <3>1, <3>2 DEF LeasesExclusive, TypeOK
    <3>6. QED
      BY <3>4, <3>5
  <2>4. CASE ~PortFree(port[w])
    <3>1. /\ resv' = resv /\ portKey' = portKey
          /\ port' = [port EXCEPT ![w] = NextPort(port[w])]
      BY <1>3, <2>4 DEF AllocatePort
    <3>2. \A t \in Creates : t # w => port'[t] = port[t]
      BY <3>1 DEF TypeOK
    <3>3. QED
      BY <1>1, <2>2, <3>1, <3>2 DEF LeaseBacked, LeasesExclusive
  <2>5. QED
    BY <2>3, <2>4
<1>4. ASSUME Tick
      PROVE  LeaseBacked' /\ LeasesExclusive'
  <2>1. /\ \A t \in Creates : resv'[t] = Dec(resv[t])
        /\ \A p \in Ports : portKey'[p] = Dec(portKey[p])
        /\ port' = port
        /\ pc' = pc
    BY <1>4 DEF Tick
  <2>2. \A t \in Creates : resv'[t] > 0 => resv[t] > 0
    BY <2>1 DEF Dec, TypeOK
  <2>3. QED
    BY <2>1, <2>2 DEF LeaseBacked, LeasesExclusive, TypeOK
<1>5. CASE UNCHANGED <<portKey, port, resv>>
    BY <1>1, <1>5 DEF LeaseBacked, LeasesExclusive
<1>6. QED
    BY <1>2, <1>3, <1>4, <1>5, LeaseFrame

\* A record is never given more than the tunnel has to live.
LEMMA RecordStep ==
    TypeOK /\ RecordBounded /\ DeletedGone /\ [Next]_vars => RecordBounded'
<1> SUFFICES ASSUME TypeOK, RecordBounded, DeletedGone, [Next]_vars
             PROVE  RecordBounded'
    OBVIOUS
<1>1. \A t \in Creates : pc'[t] \in BeforeStore => pc[t] \in BeforeStore
    BY MovesForward DEF Forward
<1>2. ASSUME NEW w \in Creates, AllocatePort(w) PROVE RecordBounded'
  <2>1. tunnelKey[w] = 0
    BY <1>2 DEF AllocatePort, RecordBounded, BeforeStore, BeforeLease
  <2>2. tunnelKey' = tunnelKey /\ storeTtl' = storeTtl
    BY <1>2 DEF AllocatePort
  <2>3. \A t \in Creates : t # w => life'[t] = life[t]
    BY <1>2 DEF AllocatePort, TypeOK
  <2>4. life'[w] \in Nat
    BY TypeStep DEF TypeOK
  <2>5. QED
    BY <1>1, <2>1, <2>2, <2>3, <2>4 DEF RecordBounded, TypeOK
<1>3. ASSUME NEW w \in Creates, StoreRecord(w) PROVE RecordBounded'
  <2>1. life' = life
    BY <1>3 DEF StoreRecord
  <2>2. CASE WholeSeconds(life[w]) > 0
    <3>1. /\ tunnelKey' = [tunnelKey EXCEPT ![w] = WholeSeconds(life[w])]
          /\ storeTtl' = [storeTtl EXCEPT ![w] = WholeSeconds(life[w])]
          /\ pc' = [pc EXCEPT ![w] = "lookupGet"]
      BY <1>3, <2>2 DEF StoreRecord
    <3>2. pc'[w] \notin BeforeStore
      BY <3>1 DEF TypeOK, HandlersTypeOK, Requests, BeforeStore, BeforeLease
    <3>3. WholeSeconds(life[w]) \in Nat /\ WholeSeconds(life[w]) <= life[w]
      BY WholeBounds DEF TypeOK
    <3>4. QED
      BY <1>1, <2>1, <3>1, <3>2, <3>3 DEF RecordBounded, TypeOK
  <2>3. CASE ~(WholeSeconds(life[w]) > 0)
    BY <1>1, <1>3, <2>1, <2>3 DEF StoreRecord, RecordBounded, TypeOK
  <2>4. QED
    BY <2>2, <2>3
<1>4. ASSUME NEW d \in Deletes, DeleteRecord(d) PROVE RecordBounded'
  <2>1. tunnelKey' = [tunnelKey EXCEPT ![target[d].id] = 0]
    BY <1>4 DEF DeleteRecord
  <2>2. UNCHANGED <<life, storeTtl>>
    BY <1>4 DEF DeleteRecord, createVars
  <2>3. QED
    BY <1>1, <2>1, <2>2 DEF RecordBounded, TypeOK
<1>5. ASSUME Tick PROVE RecordBounded'
  <2>1. /\ \A t \in Creates : tunnelKey'[t] = Dec(tunnelKey[t])
        /\ \A t \in Creates : life'[t] = Dec(life[t])
        /\ storeTtl' = storeTtl
        /\ pc' = pc
    BY <1>5 DEF Tick
  <2>2. QED
    BY <2>1 DEF RecordBounded, TypeOK, Dec
<1>6. CASE UNCHANGED <<tunnelKey, life, storeTtl>>
    BY <1>1, <1>6 DEF RecordBounded
<1>7. QED
    BY <1>2, <1>3, <1>4, <1>5, <1>6, RecordFrame

\* Nothing brings back the record of a tunnel whose delete is past its DEL.
LEMMA DeletedStep ==
    TypeOK /\ RecordBounded /\ DeletedGone /\ [Next]_vars => DeletedGone'
<1> SUFFICES ASSUME TypeOK, RecordBounded, DeletedGone, [Next]_vars,
                    NEW d \in Deletes
             PROVE  /\ d \in cut' => target'[d].id \in Creates /\ pc'[d] # "known"
                    /\ pc'[d] \in AfterRecord \cup {"record"} =>
                           pc'[target'[d].id] \notin BeforeStore
                    /\ pc'[d] \in AfterRecord => tunnelKey'[target'[d].id] = 0
    BY DEF DeletedGone
<1>1. DeleteForward(d)
    BY DeletesForward
<1>2. \A t \in Creates : pc'[t] \in BeforeStore => pc[t] \in BeforeStore
    BY MovesForward DEF Forward
<1>3. d \in cut' => target'[d].id \in Creates /\ pc'[d] # "known"
  <2>1. CASE d \in cut
    BY <1>1, <2>1 DEF DeletedGone, DeleteForward
  <2>2. CASE DeleteSubdomain(d)
    BY <2>2 DEF DeleteSubdomain, Goto, TypeOK, HandlersTypeOK, DeletePC, Requests
  <2>3. QED
    BY <1>1, <2>1, <2>2 DEF DeleteForward
<1>4. ASSUME pc'[d] \in AfterRecord \cup {"record"}
      PROVE  /\ target'[d] = target[d]
             /\ target[d].id \in Creates
             /\ pc[target[d].id] \notin BeforeStore
  <2>1. CASE pc[d] \in AfterRecord \cup {"record"}
    BY <1>1, <1>4, <2>1
    DEF DeleteForward, DeletedGone, AfterRecord, TypeOK, HandlersTypeOK, DeletePC
  <2>2. CASE DeleteReadAgain(d)
    <3>1. pc[d] = "get2" /\ target' = target
      BY <2>2 DEF DeleteReadAgain, deleteVars
    <3>2. target[d].id \in Creates
      BY <3>1 DEF TypeOK, HandlersTypeOK, DeletePC
    <3>3. tunnelKey[target[d].id] > 0
      BY <2>2, <1>4 DEF DeleteReadAgain, AfterRecord, TypeOK, HandlersTypeOK, Requests
    <3>4. pc[target[d].id] \notin BeforeStore
      BY <3>2, <3>3 DEF RecordBounded
    <3>5. QED
      BY <3>1, <3>2, <3>4
  <2>3. QED
    BY <1>1, <1>4, <2>1, <2>2 DEF DeleteForward
<1>5. ASSUME pc'[d] \in AfterRecord PROVE tunnelKey'[target'[d].id] = 0
  <2> DEFINE t == target[d].id
  <2>1. target'[d] = target[d] /\ t \in Creates /\ pc[t] \notin BeforeStore
    BY <1>4, <1>5
  <2>2. CASE DeleteRecord(d)
    BY <2>1, <2>2 DEF DeleteRecord, TypeOK
  <2>3. CASE pc[d] \in AfterRecord
    <3>1. tunnelKey[t] = 0
      BY <2>3 DEF DeletedGone
    <3>2. ASSUME NEW w \in Creates, AllocatePort(w) PROVE tunnelKey'[t] = 0
      BY <3>1, <3>2 DEF AllocatePort
    <3>3. ASSUME NEW w \in Creates, StoreRecord(w) PROVE tunnelKey'[t] = 0
      <4>1. w # t
        BY <2>1, <3>3 DEF StoreRecord, BeforeStore
      <4>2. \/ tunnelKey' = tunnelKey
            \/ tunnelKey' = [tunnelKey EXCEPT ![w] = WholeSeconds(life[w])]
        BY <3>3 DEF StoreRecord
      <4>3. QED
        BY <2>1, <3>1, <4>1, <4>2 DEF TypeOK
    <3>4. ASSUME NEW e \in Deletes, DeleteRecord(e) PROVE tunnelKey'[t] = 0
      BY <2>1, <3>1, <3>4 DEF DeleteRecord, TypeOK
    <3>5. CASE Tick
      BY <2>1, <3>1, <3>5 DEF Tick, Dec
    <3>6. CASE UNCHANGED tunnelKey
      BY <2>1, <3>1, <3>6
    <3>7. QED
      BY <2>1, <3>2, <3>3, <3>4, <3>5, <3>6, RecordFrame
  <2>4. QED
    BY <1>1, <1>5, <2>1, <2>2, <2>3 DEF DeleteForward
<1>6. QED
    BY <1>2, <1>3, <1>4, <1>5

\* A routing key is taken only from a tunnel without a record, or by a DELETE
\* of another tunnel.
LEMMA ClaimStep ==
    TypeOK /\ RecordBounded /\ DeletedGone /\ ClaimBacked /\ [Next]_vars
        => ClaimBacked'
<1> SUFFICES ASSUME TypeOK, RecordBounded, DeletedGone, ClaimBacked,
                    [Next]_vars
             PROVE  ClaimBacked'
    OBVIOUS
<1>1. arg' = arg
    BY ClaimFrame
<1> SUFFICES ASSUME NEW t \in Creates, Claimed(t)', tunnelKey'[t] > 0
             PROVE  \/ /\ subKey'[Sub(t)].id = t
                       /\ subKey'[Sub(t)].ttl >= tunnelKey'[t]
                    \/ CutByAnother(t)'
    BY <1>1 DEF ClaimBacked, Sub
<1>2. Sub(t) \in Subdomains
    BY DEF TypeOK, Sub
<1>3. CutByAnother(t) => CutByAnother(t)'
  <2>1. SUFFICES ASSUME NEW d \in cut, target[d].id # t,
                        Sub(target[d].id) = Sub(t)
                 PROVE  d \in cut' /\ target'[d] = target[d]
    BY <1>1 DEF CutByAnother, Sub
  <2>2. d \in Deletes /\ pc[d] # "known"
    BY DEF TypeOK, DeletedGone
  <2>3. target'[d] = target[d]
    BY <2>2, DeletesForward DEF DeleteForward
  <2>4. cut \subseteq cut'
    BY DEF Next, CreateStep, DeleteStep, ValidateRequest, CheckSubdomain,
      CheckHolderRecord, IssueCertificate, AllocatePort, StoreRecord,
      StoreLookupGet, StoreLookupSet, ClaimSubdomain,
      ReadHolder, StoreDnsSlot, StoreSshSession, CreateFail,
      DeleteRequest, DeleteCheckOwner, DeleteReadAgain, DeleteRecord,
      DeleteSubdomain, DeleteDnsSlot, DeleteLookupGet, DeleteLookupSet,
      DeleteFail, Tick, deleteVars, vars
  <2>5. QED
    BY <2>3, <2>4
<1>4. CASE ClaimSubdomain(t)
  <2>1. /\ subKey' = [subKey EXCEPT ![Sub(t)] = [id |-> t, ttl |-> storeTtl[t]]]
        /\ tunnelKey' = tunnelKey
    <3>1. pc'[t] # "holder"
      BY DEF Claimed
    <3>2. QED
      BY <1>4, <3>1 DEF ClaimSubdomain, TypeOK, HandlersTypeOK, Requests
  <2>2. tunnelKey[t] <= storeTtl[t]
    BY DEF RecordBounded
  <2>3. QED
    BY <1>2, <2>1, <2>2 DEF TypeOK
<1>5. CASE ~ClaimSubdomain(t)
  <2>1. Claimed(t)
    BY <1>5, MovesForward DEF Forward
  <2>2. pc[t] \notin BeforeStore
    BY <2>1 DEF Claimed, BeforeStore, BeforeLease
  <2>3. tunnelKey[t] > 0 /\ tunnelKey'[t] <= tunnelKey[t]
        /\ (Tick => tunnelKey'[t] = tunnelKey[t] - 1)
    <3>1. ASSUME NEW w \in Creates, AllocatePort(w) PROVE tunnelKey' = tunnelKey
      BY <3>1 DEF AllocatePort
    <3>2. ASSUME NEW w \in Creates, StoreRecord(w)
          PROVE  tunnelKey'[t] = tunnelKey[t]
      BY <2>2, <3>2 DEF StoreRecord, BeforeStore, TypeOK
    <3>3. ASSUME NEW d \in Deletes, DeleteRecord(d)
          PROVE  tunnelKey'[t] = tunnelKey[t]
      BY <3>3 DEF DeleteRecord, TypeOK
    <3>4. CASE Tick
      BY <3>4 DEF Tick, Dec, TypeOK
    <3>5. CASE ~Tick
      <4>1. tunnelKey'[t] = tunnelKey[t]
        BY <3>1, <3>2, <3>3, <3>5, RecordFrame
      <4>2. QED
        BY <3>5, <4>1 DEF TypeOK
    <3>6. QED
      BY <3>4, <3>5
  <2>4. CASE CutByAnother(t)
    BY <1>3, <2>4
  <2>5. CASE ~CutByAnother(t)
    <3>1. subKey[Sub(t)].id = t /\ subKey[Sub(t)].ttl >= tunnelKey[t]
      BY <2>1, <2>3, <2>5 DEF ClaimBacked
    <3>2. ASSUME NEW w \in Creates, ClaimSubdomain(w)
          PROVE  subKey'[Sub(t)] = subKey[Sub(t)]
      BY <1>2, <3>1, <3>2, RequestAssumption
      DEF ClaimSubdomain, SubdomainFree, TypeOK
    <3>3. ASSUME NEW d \in Deletes, DeleteSubdomain(d)
          PROVE  subKey'[Sub(t)] = subKey[Sub(t)] \/ CutByAnother(t)'
      <4>1. target[d].id \in Creates /\ target[d].id # t
        BY <2>3, <3>3
        DEF DeleteSubdomain, Goto, DeletedGone, AfterRecord, TypeOK,
            HandlersTypeOK, DeletePC
      <4>2. target' = target /\ cut' = cut \cup {d}
            /\ subKey' = [subKey EXCEPT ![Sub(target[d].id)] = NoHolder]
        BY <3>3 DEF DeleteSubdomain
      <4>3. CASE Sub(target[d].id) = Sub(t)
        BY <1>1, <4>1, <4>2, <4>3 DEF CutByAnother, Sub
      <4>4. CASE Sub(target[d].id) # Sub(t)
        BY <1>2, <4>2, <4>4 DEF TypeOK
      <4>5. QED
        BY <4>3, <4>4
    <3>4. CASE Tick
      <4>1. subKey'[Sub(t)] = AgedHolder(subKey[Sub(t)])
        BY <1>2, <3>4 DEF Tick
      <4>2. subKey[Sub(t)].ttl > 1
        BY <1>2, <2>3, <3>1, <3>4 DEF TypeOK
      <4>3. QED
        BY <1>2, <2>3, <3>1, <3>4, <4>1, <4>2 DEF AgedHolder, TypeOK
    <3>5. CASE subKey'[Sub(t)] = subKey[Sub(t)] \/ CutByAnother(t)'
      <4>1. tunnelKey'[t] \in Nat /\ tunnelKey[t] \in Nat
            /\ subKey[Sub(t)].ttl \in Nat
        BY <1>2, TypeStep DEF TypeOK
      <4>2. QED
        BY <2>3, <3>1, <3>5, <4>1
    <3>6. QED
      BY <3>2, <3>3, <3>4, <3>5, ClaimFrame
  <2>6. QED
    BY <2>4, <2>5
<1>6. QED
    BY <1>4, <1>5

\* What a tunnel has left of its time, and its session's TTL: only Tunnel::new,
\* store_ssh_session and the clock touch them.
LEMMA SessionFrame ==
    ASSUME TypeOK, [Next]_vars
    PROVE  \/ \E w \in Creates : AllocatePort(w) \/ StoreSshSession(w)
           \/ Tick
           \/ UNCHANGED <<sessKey, life>>
BY DEF Next, CreateStep, DeleteStep, ValidateRequest, CheckSubdomain,
    CheckHolderRecord, IssueCertificate, StoreRecord, StoreLookupGet,
    StoreLookupSet, ClaimSubdomain, ReadHolder, StoreDnsSlot, CreateFail,
    DeleteRequest, DeleteCheckOwner, DeleteReadAgain, DeleteRecord,
    DeleteSubdomain, DeleteDnsSlot, DeleteLookupGet, DeleteLookupSet,
    DeleteFail, redisVars, createVars, vars

\* The session's TTL covers what is left of the tunnel when it is set, and both
\* run down together.
LEMMA SessionStep ==
    TypeOK /\ SessionBacked /\ [Next]_vars => SessionBacked'
<1> SUFFICES ASSUME TypeOK, SessionBacked, [Next]_vars,
                    NEW t \in Creates, pc'[t] = "acked"
             PROVE  life'[t] <= sessKey'[t]
    BY DEF SessionBacked
<1>0. life[t] \in Nat /\ sessKey[t] \in Nat
    BY DEF TypeOK
<1>1. CASE StoreSshSession(t)
  <2>1. sessKey'[t] = SessionTtl(life[t]) /\ life' = life
    BY <1>1 DEF StoreSshSession, TypeOK, createVars
  <2>2. life[t] <= SessionTtl(life[t])
    BY <1>0, WholeBounds, TtlAssumption DEF SessionTtl, AtLeastASecond
  <2>3. QED
    BY <2>1, <2>2
<1>2. CASE ~StoreSshSession(t)
  <2>1. pc[t] = "acked" /\ life[t] <= sessKey[t]
    BY <1>2, MovesForward DEF Forward, SessionBacked
  <2>2. CASE Tick
    <3>1. life'[t] = Dec(life[t]) /\ sessKey'[t] = Dec(sessKey[t])
      BY <2>2 DEF Tick
    <3>2. QED
      BY <1>0, <2>1, <3>1 DEF Dec
  <2>3. ASSUME NEW w \in Creates, AllocatePort(w) PROVE life'[t] <= sessKey'[t]
    BY <2>1, <2>3 DEF AllocatePort, TypeOK
  <2>4. ASSUME NEW w \in Creates, StoreSshSession(w)
        PROVE  life'[t] <= sessKey'[t]
    BY <1>2, <2>1, <2>4 DEF StoreSshSession, TypeOK, createVars
  <2>5. QED
    BY <2>1, <2>2, <2>3, <2>4, SessionFrame
<1>3. QED
    BY <1>1, <1>2

-----------------------------------------------------------------------------
(* The theorems                                                            *)

\* The inductive invariant holds in every reachable state of the API.
THEOREM Invariance == Spec => []IInv
<1>1. Init => IInv
  <2> SUFFICES ASSUME Init PROVE IInv
    OBVIOUS
  <2>1. TypeOK
    <3>1. portKey \in [Ports -> Nat]
      BY TtlAssumption DEF Init
    <3>2. HandlersTypeOK
      BY RequestAssumption
      DEF Init, HandlersTypeOK, Requests, CreatePC, DeletePC, DonePC
    <3>3. QED
      BY <3>1, <3>2, PortAssumption
      DEF Init, TypeOK, NoHolder, Requests, Ports
  <2>2. \A t \in Creates : pc[t] = "validate"
    BY DEF Init, Requests
  <2>3. \A d \in Deletes : pc[d] = "known"
    BY RequestAssumption DEF Init, Requests
  <2>4. LeaseBacked /\ LeasesExclusive
    BY DEF Init, LeaseBacked, LeasesExclusive
  <2>5. RecordBounded
    BY DEF Init, RecordBounded
  <2>6. DeletedGone
    BY <2>3 DEF Init, DeletedGone, AfterRecord
  <2>7. ClaimBacked /\ SessionBacked
    BY <2>2 DEF Claimed, ClaimBacked, SessionBacked
  <2>8. QED
    BY <2>1, <2>4, <2>5, <2>6, <2>7 DEF IInv
<1>2. IInv /\ [Next]_vars => IInv'
    BY TypeStep, LeaseStep, RecordStep, DeletedStep, ClaimStep, SessionStep
    DEF IInv
<1>3. QED
    BY <1>1, <1>2, PTL DEF Spec

\* Every variable of the API model keeps its type.
THEOREM TypeCorrect == Spec => []TypeOK
BY Invariance, PTL DEF IInv

\* allocate_port: two running leases are never on one slot, for any number of
\* concurrent creates and any certificate TTL.
THEOREM SlotLeases == Spec => []LeasesExclusive
BY Invariance, PTL DEF IInv

\* store_tunnel and delete_tunnel: a tunnel that won its subdomain keeps the
\* routing key as long as its record lives; only a DELETE of another tunnel of
\* that subdomain can take it away.
THEOREM RoutingKeys == Spec => []RoutingKeyKept
<1>1. IInv => RoutingKeyKept
    BY DEF IInv, ClaimBacked, RoutingKeyKept
<1>2. QED
    BY <1>1, Invariance, PTL

\* store_ssh_session: however late in the handler it runs, and although its TTL
\* is cut to whole seconds, an acknowledged tunnel has its session record until
\* expires_at.
THEOREM SessionUntilTheEnd == Spec => []SessionUntilExpiry
<1>1. IInv => SessionUntilExpiry
    BY DEF IInv, TypeOK, SessionBacked, SessionUntilExpiry
<1>2. QED
    BY <1>1, Invariance, PTL

-----------------------------------------------------------------------------
(* The refinement of Registry                                              *)

\* Where a create handler is once it has written tunnel:{id}, unless it failed.
AfterStore == {"lookupGet", "lookupSet", "claim", "holder", "dns", "session", "acked"}

\* What was published, and who has a session key, by where the handler is.
PublishedByStore ==
    \A t \in Creates :
        /\ storeTtl[t] > 0 => pc[t] \notin BeforeStore
        /\ pc[t] \in AfterStore => storeTtl[t] > 0
        /\ sessKey[t] > 0 => pc[t] = "acked"

\* A handler that stays on its side of the lease and of the store, or fails
\* where it had no slot to give back.
StaysPut(t) ==
    \/ pc'[t] = pc[t]
    \/ pc[t] \in BeforeLease /\ pc'[t] \in BeforeLease
    \/ pc[t] \in AfterStore \ {"acked"} /\ pc'[t] \in AfterStore \ {"acked"}
    \/ pc[t] \notin {"store", "acked"} /\ pc'[t] = "failed"

Unseen ==
    /\ UNCHANGED <<tunnelKey, sessKey, port, life, storeTtl, resv>>
    /\ \A t \in Creates : StaysPut(t)

\* The steps that a reader of the registry's keys can see, and the rest.
LEMMA RegistryFrame ==
    ASSUME TypeOK, [Next]_vars
    PROVE  \/ \E t \in Creates : \/ IssueCertificate(t) \/ AllocatePort(t)
                                 \/ StoreRecord(t) \/ StoreSshSession(t)
                                 \/ CreateFail(t)
           \/ \E d \in Deletes : DeleteRecord(d)
           \/ Tick
           \/ Unseen
<1>1. pc \in [Requests -> CreatePC \cup DeletePC \cup DonePC]
  BY DEF TypeOK, HandlersTypeOK
<1>2. ASSUME NEW w \in Creates,
             \/ ValidateRequest(w) \/ CheckSubdomain(w) \/ CheckHolderRecord(w)
      PROVE  Unseen
  BY <1>1, <1>2 DEF Unseen, StaysPut, ValidateRequest, CheckSubdomain,
    CheckHolderRecord, redisVars, createVars, Requests, BeforeLease
<1>3. ASSUME NEW w \in Creates,
             \/ StoreLookupGet(w) \/ StoreLookupSet(w) \/ ClaimSubdomain(w)
             \/ ReadHolder(w) \/ StoreDnsSlot(w)
      PROVE  Unseen
  BY <1>1, <1>3 DEF Unseen, StaysPut, StoreLookupGet, StoreLookupSet, ClaimSubdomain,
    ReadHolder, StoreDnsSlot, Goto, redisVars, createVars, Requests, AfterStore
<1>4. ASSUME NEW d \in Deletes,
             \/ \E t \in Creates : DeleteRequest(d, t)
             \/ DeleteCheckOwner(d) \/ DeleteReadAgain(d) \/ DeleteSubdomain(d)
             \/ DeleteDnsSlot(d) \/ DeleteLookupGet(d) \/ DeleteLookupSet(d)
             \/ DeleteFail(d)
      PROVE  Unseen
  BY <1>1, <1>4, RequestAssumption
  DEF Unseen, StaysPut, DeleteRequest, DeleteCheckOwner, DeleteReadAgain,
    DeleteSubdomain, DeleteDnsSlot, DeleteLookupGet, DeleteLookupSet, DeleteFail,
    Goto, redisVars, createVars, Requests
<1>5. CASE UNCHANGED vars
  BY <1>5 DEF Unseen, StaysPut, vars, redisVars, createVars
<1>6. QED
  BY <1>2, <1>3, <1>4, <1>5 DEF Next, CreateStep, DeleteStep

\* Every step keeps PublishedByStore: what is published was stored.
LEMMA PublishedStep ==
    ASSUME TypeOK, PublishedByStore, [Next]_vars
    PROVE  PublishedByStore'
<1> USE RequestAssumption
    DEF TypeOK, HandlersTypeOK, Requests, PublishedByStore, BeforeStore, BeforeLease,
        AfterStore
<1>1. ASSUME NEW t \in Creates, IssueCertificate(t) PROVE PublishedByStore'
  BY <1>1 DEF IssueCertificate, Goto, redisVars
<1>2. ASSUME NEW t \in Creates, AllocatePort(t) PROVE PublishedByStore'
  BY <1>2 DEF AllocatePort
<1>3. ASSUME NEW t \in Creates, StoreRecord(t) PROVE PublishedByStore'
  BY <1>3 DEF StoreRecord
<1>4. ASSUME NEW t \in Creates, StoreSshSession(t) PROVE PublishedByStore'
  BY <1>4 DEF StoreSshSession, Goto, createVars
<1>5. ASSUME NEW t \in Creates, CreateFail(t) PROVE PublishedByStore'
  BY <1>5 DEF CreateFail, redisVars, createVars, CreatePC
<1>6. ASSUME NEW d \in Deletes, DeleteRecord(d) PROVE PublishedByStore'
  BY <1>6 DEF DeleteRecord, Goto, createVars
<1>7. CASE Tick
  BY <1>7 DEF Tick, Dec
<1>8. QED
  BY <1>1, <1>2, <1>3, <1>4, <1>5, <1>6, <1>7, RegistryFrame DEF Unseen, StaysPut

\* Slots that are dropped once neither a lease nor a record names them, and
\* sets that shrink, are a Lapse.
LEMMA SlotDropped ==
    ASSUME UNCHANGED storeTtl,
           \A t \in Creates :
               /\ resv'[t] > 0 => resv[t] > 0
               /\ tunnelKey'[t] > 0 => tunnelKey[t] > 0
               /\ CanAuthenticate(t)' => CanAuthenticate(t)
               /\ \/ SlotOf(t)' = SlotOf(t)
                  \/ SlotOf(t)' = None /\ ~(resv'[t] > 0) /\ ~(storeTtl[t] > 0)
    PROVE  R!Lapse
<1> DEFINE dropped == {t \in Creates : /\ SlotOf(t)' = None
                                        /\ ~(resv'[t] > 0) /\ ~(storeTtl[t] > 0)}
<1>1. \A t \in Creates : SlotOf(t)' = IF t \in dropped THEN None ELSE SlotOf(t)
  OBVIOUS
<1>2. QED
  BY <1>1 DEF R!Lapse

\* Every step of the handlers is a step of the registry, or none.
LEMMA RegistryStep ==
    ASSUME IInv, PublishedByStore, [Next]_vars
    PROVE  [R!RegNext]_(R!regVars)
<1>0. /\ TypeOK /\ LeaseBacked /\ RecordBounded
      /\ pc \in [Requests -> CreatePC \cup DeletePC \cup DonePC]
  BY DEF IInv, TypeOK, HandlersTypeOK
<1>1. ASSUME NEW t \in Creates, AllocatePort(t) PROVE [R!RegNext]_(R!regVars)
  <2>1. pc[t] = "port" /\ resv[t] = 0 /\ storeTtl[t] = 0 /\ sessKey[t] = 0
    <3>1. pc[t] = "port"
      BY <1>1 DEF AllocatePort
    <3>2. resv[t] \in Nat /\ storeTtl[t] \in Nat /\ sessKey[t] \in Nat
      BY <1>0 DEF TypeOK
    <3>3. ~(resv[t] > 0) /\ ~(storeTtl[t] > 0) /\ ~(sessKey[t] > 0)
      BY <1>0, <3>1 DEF LeaseBacked, PublishedByStore, BeforeStore, BeforeLease
    <3>4. QED
      BY <3>1, <3>2, <3>3
  <2>2. SlotOf(t) = None /\ ~CanAuthenticate(t) /\ ~CanAuthenticate(t)'
    BY <1>1, <2>1 DEF AllocatePort, SlotOf, CanAuthenticate
  <2>3. \A w \in Creates \ {t} : SlotOf(w)' = SlotOf(w) /\ CanAuthenticate(w)' = CanAuthenticate(w)
    BY <1>0, <1>1 DEF AllocatePort, SlotOf, CanAuthenticate, TypeOK, Requests
  <2>4. CASE PortFree(port[t])
    <3>1. SlotOf(t)' = port[t] /\ resv'[t] > 0
      BY <1>0, <1>1, <2>4, TtlAssumption DEF AllocatePort, SlotOf, TypeOK
    <3>2. \A w \in Creates : resv[w] > 0 => SlotOf(w) # port[t]
      BY <1>0, <2>4 DEF PortFree, LeaseBacked, SlotOf, TypeOK
    <3>3. \A w \in Creates \ {t} : resv'[w] = resv[w]
      BY <1>0, <1>1 DEF AllocatePort, TypeOK
    <3>4. UNCHANGED <<storeTtl, tunnelKey>>
      BY <1>1 DEF AllocatePort
    <3>5. PICK p \in Ports : p = port[t]
      BY <1>0 DEF TypeOK
    <3>6. R!Grant(t, p)
      BY <2>2, <2>3, <3>1, <3>2, <3>3, <3>4, <3>5 DEF R!Grant
    <3>7. QED
      BY <3>6 DEF R!RegNext
  <2>5. CASE ~PortFree(port[t])
    <3>1. UNCHANGED <<resv, storeTtl, tunnelKey>> /\ pc'[t] # "store"
      BY <1>0, <1>1, <2>5 DEF AllocatePort, Requests
    <3>2. SlotOf(t)' = None
      BY <2>1, <3>1 DEF SlotOf
    <3>3. QED
      BY <2>2, <2>3, <3>1, <3>2 DEF R!regVars
  <2>6. QED
    BY <2>4, <2>5
<1>2. ASSUME NEW t \in Creates, StoreRecord(t) PROVE [R!RegNext]_(R!regVars)
  <2>1. /\ pc[t] = "store" /\ storeTtl[t] = 0
        /\ UNCHANGED <<port, resv, life, sessKey>>
        /\ \A w \in Creates \ {t} : SlotOf(w)' = SlotOf(w)
    BY <1>0, <1>2 DEF StoreRecord, PublishedByStore, BeforeStore, SlotOf, TypeOK,
                      Requests
  <2>0. /\ WholeSeconds(life[t]) \in Nat /\ WholeSeconds(life[t]) <= life[t]
        /\ life[t] \in Nat
    BY <1>0, WholeBounds DEF TypeOK
  <2>2. CASE WholeSeconds(life[t]) > 0
    <3>1. /\ tunnelKey' = [tunnelKey EXCEPT ![t] = WholeSeconds(life[t])]
          /\ storeTtl' = [storeTtl EXCEPT ![t] = WholeSeconds(life[t])]
      BY <1>2, <2>2 DEF StoreRecord
    <3>2. SlotOf(t) = port[t] /\ SlotOf(t)' = port[t]
      BY <1>0, <2>1, <2>2, <3>1 DEF SlotOf, TypeOK
    <3>3. R!Publish(t)
      BY <1>0, <2>1, <2>2, <3>1, <3>2, SlotAssumption DEF R!Publish, CanAuthenticate, TypeOK
    <3>4. QED
      BY <3>3 DEF R!RegNext
  <2>3. CASE WholeSeconds(life[t]) = 0
    <3>1. UNCHANGED <<tunnelKey, storeTtl>> /\ pc'[t] = "failed"
      BY <1>0, <1>2, <2>3 DEF StoreRecord, Requests
    <3>2. SlotOf(t)' = SlotOf(t) \/ (SlotOf(t)' = None /\ ~(resv'[t] > 0))
      BY <2>1, <3>1 DEF SlotOf
    <3>3. R!Lapse
      BY <1>0, <2>1, <3>1, <3>2, SlotDropped DEF CanAuthenticate, TypeOK
    <3>4. QED
      BY <3>3 DEF R!RegNext
  <2>4. QED
    BY <2>0, <2>2, <2>3
<1>3. ASSUME NEW t \in Creates, StoreSshSession(t) PROVE [R!RegNext]_(R!regVars)
  <2>1. /\ UNCHANGED <<tunnelKey, port, resv, storeTtl, life>>
        /\ sessKey' = [sessKey EXCEPT ![t] = SessionTtl(life[t])]
        /\ pc[t] = "session" /\ pc'[t] = "acked"
        /\ \A w \in Creates : SlotOf(w)' = SlotOf(w)
    BY <1>0, <1>3 DEF StoreSshSession, Goto, SlotOf, createVars, Requests
  <2>2. storeTtl[t] > 0 /\ ~CanAuthenticate(t)
    BY <2>1 DEF PublishedByStore, AfterStore, CanAuthenticate
  <2>3. \A w \in Creates \ {t} : CanAuthenticate(w)' = CanAuthenticate(w)
    BY <1>0, <2>1 DEF CanAuthenticate, TypeOK
  <2>4. CASE CanAuthenticate(t)'
    <3>1. R!IssueKey(t)
      BY <2>1, <2>2, <2>3, <2>4 DEF R!IssueKey
    <3>2. QED
      BY <3>1 DEF R!RegNext
  <2>5. CASE ~CanAuthenticate(t)'
    BY <2>1, <2>2, <2>3, <2>5 DEF R!regVars
  <2>6. QED
    BY <2>4, <2>5
<1>4. ASSUME NEW t \in Creates, CreateFail(t) PROVE [R!RegNext]_(R!regVars)
  <2>1. UNCHANGED <<tunnelKey, port, resv, storeTtl, life, sessKey>>
    BY <1>4 DEF CreateFail, redisVars, createVars
  <2>2. \A w \in Creates :
           \/ SlotOf(w)' = SlotOf(w)
           \/ SlotOf(w)' = None /\ ~(resv'[w] > 0) /\ ~(storeTtl[w] > 0)
    BY <1>0, <1>4, <2>1 DEF CreateFail, SlotOf, Requests
  <2>3. R!Lapse
    BY <2>1, <2>2, SlotDropped DEF CanAuthenticate
  <2>4. QED
    BY <2>3 DEF R!RegNext
<1>5. ASSUME NEW d \in Deletes, DeleteRecord(d) PROVE [R!RegNext]_(R!regVars)
  <2>1. /\ tunnelKey' = [tunnelKey EXCEPT ![target[d].id] = 0]
        /\ UNCHANGED <<port, resv, storeTtl, life, sessKey>>
    BY <1>5 DEF DeleteRecord, createVars
  <2>2. \A w \in Creates : SlotOf(w)' = SlotOf(w)
    BY <1>0, <1>5, <2>1, RequestAssumption DEF DeleteRecord, Goto, SlotOf, Requests
  <2>3. R!Lapse
    BY <1>0, <2>1, <2>2, SlotDropped DEF CanAuthenticate, TypeOK
  <2>4. QED
    BY <2>3 DEF R!RegNext
<1>6. CASE Tick
  <2>1. /\ UNCHANGED <<port, storeTtl, pc>>
        /\ \A t \in Creates :
             /\ tunnelKey'[t] = Dec(tunnelKey[t]) /\ sessKey'[t] = Dec(sessKey[t])
             /\ life'[t] = Dec(life[t]) /\ resv'[t] = Dec(resv[t])
    BY <1>6 DEF Tick
  <2>2. \A t \in Creates :
             /\ tunnelKey'[t] > 0 => tunnelKey[t] > 0
             /\ CanAuthenticate(t)' => CanAuthenticate(t)
             /\ resv'[t] > 0 => resv[t] > 0
    BY <1>0, <2>1 DEF Dec, CanAuthenticate, TypeOK
  <2>3. \A w \in Creates :
           \/ SlotOf(w)' = SlotOf(w)
           \/ SlotOf(w)' = None /\ ~(resv'[w] > 0) /\ ~(storeTtl[w] > 0)
    BY <2>1, <2>2 DEF SlotOf
  <2>4. R!Lapse
    BY <2>1, <2>2, <2>3, SlotDropped
  <2>5. QED
    BY <2>4 DEF R!RegNext
<1>7. ASSUME UNCHANGED <<tunnelKey, sessKey, port, life, storeTtl, resv>>,
             \A t \in Creates : pc[t] = "store" <=> pc'[t] = "store"
      PROVE  [R!RegNext]_(R!regVars)
  BY <1>7 DEF R!regVars, SlotOf, CanAuthenticate
<1>8. ASSUME NEW t \in Creates, IssueCertificate(t) PROVE [R!RegNext]_(R!regVars)
  <2>1. /\ UNCHANGED <<tunnelKey, resv, storeTtl, life, sessKey>>
        /\ pc[t] = "issue" /\ pc'[t] # "store"
        /\ \A w \in Creates \ {t} : pc'[w] = pc[w] /\ port'[w] = port[w]
    BY <1>0, <1>8 DEF IssueCertificate, Goto, redisVars, Requests, TypeOK
  <2>2. ~(resv[t] > 0) /\ ~(storeTtl[t] > 0)
    BY <1>0, <2>1 DEF LeaseBacked, PublishedByStore, BeforeStore, BeforeLease
  <2>3. \A w \in Creates : SlotOf(w)' = SlotOf(w)
    BY <2>1, <2>2 DEF SlotOf
  <2>4. QED
    BY <2>1, <2>3 DEF R!regVars, CanAuthenticate
<1>9. Unseen => \A t \in Creates : pc[t] = "store" <=> pc'[t] = "store"
  BY DEF Unseen, StaysPut, BeforeLease, AfterStore
<1>10. QED
  BY <1>0, <1>1, <1>2, <1>3, <1>4, <1>5, <1>6, <1>7, <1>8, <1>9, RegistryFrame
  DEF Unseen

\* For any number of concurrent creates and deletes, failing or late at any
\* point, the keyspace changes the way the hub and the edge are told it does.
THEOREM StoreImplementsRegistry == Spec => ImplementsRegistry
<1>1. Init => R!RegInit /\ PublishedByStore
  BY RequestAssumption
  DEF Init, Requests, R!RegInit, SlotOf, CanAuthenticate, PublishedByStore,
      BeforeStore, BeforeLease, AfterStore
<1>2. IInv /\ PublishedByStore /\ [Next]_vars =>
         PublishedByStore' /\ [R!RegNext]_(R!regVars)
  BY PublishedStep, RegistryStep DEF IInv
<1>3. QED
  BY <1>1, <1>2, Invariance, PTL DEF Spec, ImplementsRegistry, R!RegSpec
=============================================================================
