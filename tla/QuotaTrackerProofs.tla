------------------------- MODULE QuotaTrackerProofs --------------------------
(***************************************************************************)
(* What UsageTracker guarantees for any number of overlapping requests,    *)
(* quota types, limits and resets, in spite of its lost updates: it never  *)
(* charges for an operation that was not allowed, as long as no reset met  *)
(* a running request, and so never refuses a request before the limit.     *)
(***************************************************************************)
EXTENDS QuotaTracker, FiniteSetTheorems, TLAPS

\* The requests that were allowed and have not written their charge yet.
Pending(t) == {q \in QuotaRequests : pc[q] \in {"record", "write"} /\ type[q] = t}
Owed(t) == Cardinality(Pending(t))

\* A request past its arrival knows its handler and its quota type.
Arrived == \A q \in QuotaRequests : pc[q] # "idle" => op[q] \in Ops /\ type[q] \in Types

\* Every usage record that can still reach the cache -- the cached one, the
\* zero record of a miss, the copy a request is about to write back -- leaves
\* room for the charges that are still owed.
Covered ==
    \A t \in Types :
        /\ Owed(t) <= granted[t]
        /\ cache # NoUsage => cache[t] + Owed(t) <= granted[t]
        /\ \A q \in QuotaRequests : pc[q] = "write" => snap[q][t] + Owed(t) <= granted[t]

IInv == QuotaTypeOK /\ Arrived /\ (~torn => Covered)

----------------------------------------------------------------------------
\* A zero record is a record: some quota type exists.
LEMMA ZeroIsUsage == ZeroUsage \in Usage /\ ZeroUsage # NoUsage
<1>1. ZeroUsage \in Usage
  BY DEF ZeroUsage, Usage
<1>2. DOMAIN ZeroUsage = Types /\ DOMAIN NoUsage = {}
  BY DEF ZeroUsage, NoUsage
<1>3. TunnelCreation \in Types
  BY QuotaAssumption
<1>4. QED BY <1>1, <1>2, <1>3

\* Charging a record gives a record.
LEMMA ChargedIsUsage ==
  ASSUME NEW u \in Usage, NEW t \in Types
  PROVE  /\ Charged(u, t) \in Usage
         /\ Charged(u, t) # NoUsage
         /\ \A s \in Types : Charged(u, t)[s] = IF s = t THEN u[s] + 1 ELSE u[s]
<1>1. Charged(u, t) \in Usage /\ \A s \in Types : Charged(u, t)[s] = IF s = t THEN u[s] + 1 ELSE u[s]
  BY DEF Charged, Usage
<1>2. DOMAIN Charged(u, t) = Types /\ DOMAIN NoUsage = {}
  BY DEF Charged, NoUsage, Usage
<1>3. QED BY <1>1, <1>2

\* The number of owed charges is a natural number.
LEMMA OwedType == \A t : IsFiniteSet(Pending(t)) /\ Owed(t) \in Nat
<1> TAKE t
<1>1. Pending(t) \in SUBSET QuotaRequests
  BY DEF Pending
<1>2. IsFiniteSet(Pending(t))
  BY <1>1, QuotaRequestsAssumption, FS_Subset
<1>3. QED BY <1>2, FS_CardinalityType DEF Owed

\* A step that moves one request, from outside Pending to outside it or from
\* inside to inside, owes as much as before.
LEMMA OwedKept ==
  ASSUME NEW q \in QuotaRequests, NEW x, pc \in [QuotaRequests -> PCs],
         pc' = [pc EXCEPT ![q] = x], type' = type,
         x \in {"record", "write"} <=> pc[q] \in {"record", "write"}
  PROVE  \A t : Owed(t)' = Owed(t)
<1> TAKE t
<1>1. Pending(t)' = Pending(t)
  BY DEF Pending
<1>2. QED BY <1>1 DEF Owed

\* An allowed request owes one more charge, of its type only.
LEMMA OwedMore ==
  ASSUME NEW q \in QuotaRequests, pc \in [QuotaRequests -> PCs],
         pc' = [pc EXCEPT ![q] = "record"], type' = type,
         pc[q] \notin {"record", "write"}
  PROVE  \A t : Owed(t)' = IF t = type[q] THEN Owed(t) + 1 ELSE Owed(t)
<1> TAKE t
<1>1. CASE t = type[q]
  <2>1. Pending(t)' = Pending(t) \cup {q} /\ q \notin Pending(t)
    BY <1>1 DEF Pending
  <2>2. QED BY <1>1, <2>1, OwedType, FS_AddElement DEF Owed
<1>2. CASE t # type[q]
  <2>1. Pending(t)' = Pending(t)
    BY <1>2 DEF Pending
  <2>2. QED BY <1>2, <2>1 DEF Owed
<1>3. QED BY <1>1, <1>2

\* A request that writes its charge owes one less, of its type only.
LEMMA OwedLess ==
  ASSUME NEW q \in QuotaRequests, pc \in [QuotaRequests -> PCs],
         pc' = [pc EXCEPT ![q] = "done"], type' = type,
         pc[q] \in {"record", "write"}
  PROVE  \A t : Owed(t)' = IF t = type[q] THEN Owed(t) - 1 ELSE Owed(t)
<1> TAKE t
<1>1. CASE t = type[q]
  <2>1. Pending(t)' = Pending(t) \ {q} /\ q \in Pending(t)
    BY <1>1 DEF Pending
  <2>2. QED BY <1>1, <2>1, OwedType, FS_RemoveElement DEF Owed
<1>2. CASE t # type[q]
  <2>1. Pending(t)' = Pending(t)
    BY <1>2 DEF Pending
  <2>2. QED BY <1>2, <2>1 DEF Owed
<1>3. QED BY <1>1, <1>2

\* The two outcomes of a decision: nothing is granted, or one operation of the
\* request's type is.
LEMMA Decided ==
  ASSUME IInv, NEW q \in QuotaRequests, pc[q] # "idle", NEW u \in Usage, Decide(q, u)
  PROVE  /\ created' \in Usage
         /\ \/ /\ granted' = granted
               /\ \E x \in {"done", "denied"} : pc' = [pc EXCEPT ![q] = x]
            \/ /\ granted' = [granted EXCEPT ![type[q]] = @ + 1]
               /\ pc' = [pc EXCEPT ![q] = "record"]
<1>1. type[q] \in Types /\ granted \in Usage /\ created \in Usage
  BY DEF IInv, Arrived, QuotaTypeOK
<1>2. created' \in Usage
  BY <1>1 DEF Decide, Usage
<1>3. QED BY <1>2 DEF Decide

----------------------------------------------------------------------------
\* A decision on a usage record that fits the invariant keeps the invariant,
\* whether the cache stays or is filled with that record.
LEMMA DecideKeeps ==
  ASSUME IInv, NEW q \in QuotaRequests, pc[q] \in {"check", "fill"},
         NEW u \in Usage, Decide(q, u),
         cache' \in Usage, cache' # NoUsage,
         cache' \in {cache, ZeroUsage},
         UNCHANGED <<op, type, snap, overlap, torn, resets>>
  PROVE  IInv'
<1>1. type[q] \in Types /\ pc \in [QuotaRequests -> PCs] /\ granted \in Usage
  BY DEF IInv, Arrived, QuotaTypeOK
<1>2. PICK x \in {"done", "denied", "record"} :
         /\ pc' = [pc EXCEPT ![q] = x]
         /\ \/ x # "record" /\ granted' = granted
            \/ x = "record" /\ granted' = [granted EXCEPT ![type[q]] = @ + 1]
  BY Decided
<1>3. QuotaTypeOK'
  <2>1. granted' \in Usage /\ created' \in Usage
    <3>1. created' \in Usage
      BY Decided
    <3>2. granted' \in Usage
      BY <1>1, <1>2 DEF Usage
    <3>3. QED BY <3>1, <3>2
  <2>2. pc' \in [QuotaRequests -> PCs]
    BY <1>1, <1>2 DEF PCs
  <2>3. \A r \in QuotaRequests : pc'[r] = "write" => snap'[r] # NoUsage
    BY <1>1, <1>2 DEF IInv, QuotaTypeOK
  <2>4. QED BY <2>1, <2>2, <2>3 DEF IInv, QuotaTypeOK
<1>4. Arrived'
  BY <1>1, <1>2 DEF IInv, Arrived
<1>5. ASSUME ~torn PROVE Covered'
  <2>1. Covered
    BY <1>5 DEF IInv
  <2>2. \A t \in Types : cache'[t] + Owed(t) <= granted[t]
    <3>1. CASE cache' = cache
      BY <2>1, <3>1 DEF Covered
    <3>2. CASE cache' = ZeroUsage
      BY <2>1, <3>2, OwedType DEF Covered, ZeroUsage
    <3>3. QED BY <3>1, <3>2
  <2>3. \A r \in QuotaRequests : pc'[r] = "write" => pc[r] = "write" /\ snap'[r] = snap[r]
    BY <1>1, <1>2
  <2>4. \A r \in QuotaRequests : pc[r] = "write" => snap[r] \in Usage
    BY DEF IInv, QuotaTypeOK
  <2>5. CASE x # "record"
    <3>1. \A t : Owed(t)' = Owed(t)
      BY <1>1, <1>2, <2>5, OwedKept
    <3>2. granted' = granted
      BY <1>2, <2>5
    <3>3. QED BY <2>1, <2>2, <2>3, <3>1, <3>2 DEF Covered
  <2>6. CASE x = "record"
    <3>1. \A t : Owed(t)' = IF t = type[q] THEN Owed(t) + 1 ELSE Owed(t)
      BY <1>1, <1>2, <2>6, OwedMore
    <3>2. \A t \in Types : granted'[t] = IF t = type[q] THEN granted[t] + 1 ELSE granted[t]
      BY <1>1, <1>2, <2>6 DEF Usage
    <3>3. \A t \in Types : Owed(t) \in Nat /\ granted[t] \in Nat /\ cache'[t] \in Nat
      BY <1>1, OwedType DEF Usage
    <3>4. \A t \in Types : Owed(t)' <= granted'[t] /\ cache'[t] + Owed(t)' <= granted'[t]
      BY <2>1, <2>2, <3>1, <3>2, <3>3 DEF Covered
    <3>5. \A t \in Types, r \in QuotaRequests :
             pc'[r] = "write" => snap'[r][t] + Owed(t)' <= granted'[t]
      <4> SUFFICES ASSUME NEW t \in Types, NEW r \in QuotaRequests, pc'[r] = "write"
                   PROVE  snap'[r][t] + Owed(t)' <= granted'[t]
        OBVIOUS
      <4>1. snap'[r] = snap[r] /\ snap[r][t] \in Nat /\ snap[r][t] + Owed(t) <= granted[t]
        BY <2>1, <2>3, <2>4 DEF Covered, Usage
      <4>2. QED BY <3>1, <3>2, <3>3, <4>1
    <3>6. QED BY <3>4, <3>5 DEF Covered
  <2>7. QED BY <1>2, <2>5, <2>6
<1>6. QED BY <1>3, <1>4, <1>5 DEF IInv

\* A request arrives, or misses the cache: nothing is read or charged.
LEMMA MovesKeep ==
  ASSUME IInv, NEW q \in QuotaRequests, AskQuota(q) \/ (ReadUsage(q) /\ cache = NoUsage)
  PROVE  IInv'
<1>1. /\ pc \in [QuotaRequests -> PCs] /\ cache' = cache /\ snap' = snap
      /\ granted' = granted /\ torn' = torn
  BY DEF IInv, QuotaTypeOK, AskQuota, ReadUsage
<1>2. PICK x \in {"check", "fill"} : pc' = [pc EXCEPT ![q] = x]
  BY DEF AskQuota, ReadUsage
<1>3. pc[q] \in {"idle", "check"}
  BY DEF AskQuota, ReadUsage
<1>4. QuotaTypeOK'
  <2>1. op' \in [QuotaRequests -> Ops \cup {None}] /\ type' \in [QuotaRequests -> Types \cup {None}]
    BY DEF IInv, QuotaTypeOK, AskQuota, ReadUsage, quotaLocal
  <2>2. created' = created /\ resets' = resets
    BY DEF IInv, QuotaTypeOK, AskQuota, ReadUsage
  <2>3. overlap' \in BOOLEAN
    BY DEF IInv, QuotaTypeOK, AskQuota, ReadUsage
  <2>4. pc' \in [QuotaRequests -> PCs]
    BY <1>1, <1>2 DEF PCs
  <2>5. \A r \in QuotaRequests : /\ pc'[r] = "record" => pc[r] = "record"
                                 /\ pc'[r] = "write" => pc[r] = "write"
    BY <1>1, <1>2
  <2>6. \A r \in QuotaRequests : /\ pc'[r] = "record" => cache' # NoUsage
                                 /\ pc'[r] = "write" => snap'[r] # NoUsage
    BY <1>1, <2>5 DEF IInv, QuotaTypeOK
  <2>7. torn' \in BOOLEAN
    BY <1>1 DEF IInv, QuotaTypeOK
  <2>8. /\ snap' \in [QuotaRequests -> Usage \cup {NoUsage}]
        /\ granted' \in Usage /\ created' \in Usage /\ resets' \in 0..MaxResets
        /\ cache' \in Usage \cup {NoUsage}
    BY <1>1, <2>2 DEF IInv, QuotaTypeOK
  <2>9. QED BY <2>1, <2>4, <2>6, <2>8, <2>3, <2>7 DEF QuotaTypeOK
<1>5. Arrived'
  BY <1>1, <1>2 DEF IInv, Arrived, QuotaTypeOK, AskQuota, ReadUsage, quotaLocal
<1>6. ASSUME ~torn PROVE Covered'
  <2>1. \A t : Pending(t)' = Pending(t)
    BY <1>1, <1>2, <1>3 DEF Pending, IInv, QuotaTypeOK, AskQuota, ReadUsage, quotaLocal
  <2>2. \A t : Owed(t)' = Owed(t)
    BY <2>1 DEF Owed
  <2>3. \A r \in QuotaRequests : pc'[r] = "write" => pc[r] = "write"
    BY <1>1, <1>2
  <2>4. QED BY <1>1, <1>6, <2>2, <2>3 DEF IInv, Covered
<1>7. QED BY <1>1, <1>4, <1>5, <1>6 DEF IInv

\* record_usage's read takes a copy of a cached record, which fits as it is.
LEMMA RecordReadKeeps ==
  ASSUME IInv, NEW q \in QuotaRequests, ReadForRecord(q)
  PROVE  IInv'
<1>1. /\ pc \in [QuotaRequests -> PCs] /\ snap \in [QuotaRequests -> Usage \cup {NoUsage}]
      /\ cache \in Usage /\ cache # NoUsage
  BY DEF IInv, QuotaTypeOK, ReadForRecord
<1>2. /\ pc[q] = "record" /\ pc' = [pc EXCEPT ![q] = "write"]
      /\ snap' = [snap EXCEPT ![q] = cache]
      /\ UNCHANGED <<cache, op, type, granted, created, overlap, torn, resets>>
  BY DEF ReadForRecord, quotaLocal
<1>3. \A r \in QuotaRequests : pc'[r] = "write" =>
         \/ r = q /\ snap'[r] = cache
         \/ r # q /\ pc[r] = "write" /\ snap'[r] = snap[r]
  BY <1>1, <1>2
<1>4. QuotaTypeOK'
  <2>1. pc' \in [QuotaRequests -> PCs] /\ snap' \in [QuotaRequests -> Usage \cup {NoUsage}]
    BY <1>1, <1>2 DEF PCs
  <2>2. \A r \in QuotaRequests : /\ pc'[r] = "record" => cache' # NoUsage
                                 /\ pc'[r] = "write" => snap'[r] # NoUsage
    BY <1>1, <1>2, <1>3 DEF IInv, QuotaTypeOK
  <2>3. QED BY <1>2, <2>1, <2>2 DEF IInv, QuotaTypeOK
<1>5. Arrived'
  BY <1>1, <1>2 DEF IInv, Arrived
<1>6. ASSUME ~torn PROVE Covered'
  <2>1. \A t : Owed(t)' = Owed(t)
    BY <1>1, <1>2, OwedKept
  <2>2. Covered
    BY <1>6 DEF IInv
  <2>3. \A t \in Types : Owed(t)' <= granted'[t] /\ cache'[t] + Owed(t)' <= granted'[t]
    BY <1>1, <1>2, <2>1, <2>2 DEF Covered
  <2>4. \A t \in Types, r \in QuotaRequests :
           pc'[r] = "write" => snap'[r][t] + Owed(t)' <= granted'[t]
    <3> SUFFICES ASSUME NEW t \in Types, NEW r \in QuotaRequests, pc'[r] = "write"
                 PROVE  snap'[r][t] + Owed(t)' <= granted'[t]
      OBVIOUS
    <3>1. CASE r = q
      BY <1>2, <1>3, <2>3, <3>1
    <3>2. CASE r # q
      <4>1. snap'[r] = snap[r] /\ pc[r] = "write"
        BY <1>3, <3>2
      <4>2. QED BY <1>2, <2>1, <2>2, <4>1 DEF Covered
    <3>3. QED BY <3>1, <3>2
  <2>5. QED BY <2>3, <2>4 DEF Covered
<1>7. QED BY <1>2, <1>4, <1>5, <1>6 DEF IInv

\* record_usage's write may put an older record back, but that record left room
\* for the charge it adds and for every charge still owed.
LEMMA WriteKeeps ==
  ASSUME IInv, NEW q \in QuotaRequests, WriteUsage(q)
  PROVE  IInv'
<1>1. /\ pc \in [QuotaRequests -> PCs] /\ snap \in [QuotaRequests -> Usage \cup {NoUsage}]
      /\ snap[q] \in Usage /\ type[q] \in Types /\ granted \in Usage
  BY DEF IInv, QuotaTypeOK, Arrived, WriteUsage
<1>2. /\ pc[q] = "write" /\ pc' = [pc EXCEPT ![q] = "done"]
      /\ snap' = [snap EXCEPT ![q] = NoUsage]
      /\ UNCHANGED <<op, type, granted, created, overlap, torn, resets>>
  BY DEF WriteUsage, quotaLocal
<1>3. /\ cache' \in Usage /\ cache' # NoUsage
      /\ \A t \in Types : cache'[t] = IF t = type[q] THEN snap[q][t] + 1 ELSE snap[q][t]
  <2>1. cache' = Charged(snap[q], type[q])
    BY DEF WriteUsage
  <2>2. QED BY <1>1, <2>1, ChargedIsUsage
<1>4. \A r \in QuotaRequests : pc'[r] = "write" => r # q /\ pc[r] = "write" /\ snap'[r] = snap[r]
  BY <1>1, <1>2
<1>5. QuotaTypeOK'
  <2>1. pc' \in [QuotaRequests -> PCs] /\ snap' \in [QuotaRequests -> Usage \cup {NoUsage}]
    BY <1>1, <1>2 DEF PCs
  <2>2. \A r \in QuotaRequests : pc'[r] = "write" => snap'[r] # NoUsage
    BY <1>4 DEF IInv, QuotaTypeOK
  <2>3. QED BY <1>2, <1>3, <2>1, <2>2 DEF IInv, QuotaTypeOK
<1>6. Arrived'
  BY <1>1, <1>2 DEF IInv, Arrived
<1>7. ASSUME ~torn PROVE Covered'
  <2>1. \A t : Owed(t)' = IF t = type[q] THEN Owed(t) - 1 ELSE Owed(t)
    BY <1>1, <1>2, OwedLess
  <2>2. Covered
    BY <1>7 DEF IInv
  <2>3. \A t \in Types : /\ Owed(t) \in Nat /\ granted[t] \in Nat /\ snap[q][t] \in Nat
                         /\ granted'[t] = granted[t]
    BY <1>1, <1>2, OwedType DEF Usage
  <2>4. \A t \in Types : Owed(t)' <= granted'[t] /\ cache'[t] + Owed(t)' <= granted'[t]
    BY <1>2, <1>3, <2>1, <2>2, <2>3 DEF Covered
  <2>5. \A t \in Types, r \in QuotaRequests :
           pc'[r] = "write" => snap'[r][t] + Owed(t)' <= granted'[t]
    <3> SUFFICES ASSUME NEW t \in Types, NEW r \in QuotaRequests, pc'[r] = "write"
                 PROVE  snap'[r][t] + Owed(t)' <= granted'[t]
      OBVIOUS
    <3>1. snap'[r] = snap[r] /\ snap[r] \in Usage
      BY <1>4 DEF IInv, QuotaTypeOK
    <3>2. snap[r][t] \in Nat /\ snap[r][t] + Owed(t) <= granted[t]
      BY <1>4, <2>2, <3>1 DEF Covered, Usage
    <3>3. QED BY <2>1, <2>3, <3>1, <3>2
  <2>6. QED BY <2>4, <2>5 DEF Covered
<1>8. QED BY <1>2, <1>5, <1>6, <1>7 DEF IInv

\* A reset that met no running request leaves nothing owed and no copy to be
\* written back.
LEMMA ResetKeeps ==
  ASSUME IInv, ResetUsage
  PROVE  IInv'
<1>1. UNCHANGED <<pc, op, type, snap, overlap>>
  BY DEF ResetUsage, quotaLocal
<1>2. /\ granted' = ZeroUsage /\ created' = ZeroUsage
      /\ cache' = (IF cache = NoUsage THEN NoUsage ELSE ZeroUsage)
      /\ resets' = resets + 1 /\ resets < MaxResets
      /\ torn' = (torn \/ Running # {})
  BY DEF ResetUsage, ResetRecord
<1>3. QuotaTypeOK'
  <2>1. /\ granted' \in Usage /\ created' \in Usage /\ cache' \in Usage \cup {NoUsage}
        /\ cache # NoUsage => cache' # NoUsage
    BY <1>2, ZeroIsUsage
  <2>2. resets' \in 0..MaxResets
    BY <1>2, QuotaAssumption DEF IInv, QuotaTypeOK
  <2>3. torn' \in BOOLEAN
    BY <1>2
  <2>4. QED BY <1>1, <2>1, <2>2, <2>3 DEF IInv, QuotaTypeOK
<1>4. Arrived'
  BY <1>1 DEF IInv, Arrived
<1>5. ASSUME ~torn' PROVE Covered'
  <2>1. Running = {}
    BY <1>2, <1>5
  <2>2. \A r \in QuotaRequests : pc[r] \notin {"record", "write"}
    BY <2>1 DEF Running
  <2>3. \A t : Pending(t)' = {}
    BY <1>1, <2>2 DEF Pending
  <2>4. \A t : Owed(t)' = 0
    BY <2>3, FS_EmptySet DEF Owed
  <2>5. \A t \in Types : granted'[t] = 0 /\ (cache' # NoUsage => cache'[t] = 0)
    BY <1>2 DEF ZeroUsage
  <2>6. QED BY <1>1, <2>2, <2>4, <2>5 DEF Covered
<1>6. QED BY <1>3, <1>4, <1>5 DEF IInv

----------------------------------------------------------------------------
\* Every behaviour of the tracker keeps IInv: every usage record that may still
\* reach the cache leaves room for the charges that are owed.
THEOREM QuotaInvariance == QuotaSpec => []IInv
<1>1. QuotaInit => IInv
  <2> SUFFICES ASSUME QuotaInit PROVE IInv
    OBVIOUS
  <2>1. QuotaTypeOK
    <3>1. /\ cache = NoUsage /\ granted \in Usage /\ created \in Usage
          /\ overlap = FALSE /\ torn = FALSE
      BY ZeroIsUsage DEF QuotaInit
    <3>2. pc \in [QuotaRequests -> PCs] /\ \A q \in QuotaRequests : pc[q] = "idle"
      BY DEF QuotaInit, PCs
    <3>3. /\ op \in [QuotaRequests -> Ops \cup {None}]
          /\ type \in [QuotaRequests -> Types \cup {None}]
      BY DEF QuotaInit
    <3>4. snap \in [QuotaRequests -> Usage \cup {NoUsage}]
      <4>1. NoUsage \in Usage \cup {NoUsage}
        OBVIOUS
      <4>2. QED BY <4>1 DEF QuotaInit
    <3>5. resets \in 0..MaxResets
      BY QuotaAssumption DEF QuotaInit
    <3>6. QED BY <3>1, <3>2, <3>3, <3>4, <3>5 DEF QuotaTypeOK
  <2>2. Arrived
    BY DEF QuotaInit, Arrived
  <2>3. \A t : Pending(t) = {}
    BY DEF QuotaInit, Pending
  <2>4. \A t : Owed(t) = 0
    BY <2>3, FS_EmptySet DEF Owed
  <2>5. Covered
    BY <2>4 DEF QuotaInit, Covered, ZeroUsage
  <2>6. QED BY <2>1, <2>2, <2>5 DEF IInv
<1>2. IInv /\ [QuotaNext]_quotaVars => IInv'
  <2> SUFFICES ASSUME IInv, [QuotaNext]_quotaVars PROVE IInv'
    OBVIOUS
  <2>1. ASSUME NEW q \in QuotaRequests, AskQuota(q) PROVE IInv'
    BY <2>1, MovesKeep
  <2>2. ASSUME NEW q \in QuotaRequests, ReadUsage(q) PROVE IInv'
    <3>1. CASE cache = NoUsage
      BY <2>2, <3>1, MovesKeep
    <3>2. CASE cache # NoUsage
      <4>1. cache \in Usage /\ Decide(q, cache) /\ pc[q] = "check"
        BY <2>2, <3>2 DEF ReadUsage, IInv, QuotaTypeOK
      <4>2. cache' = cache /\ UNCHANGED <<op, type, snap, overlap, torn, resets>>
        BY <2>2, <3>2 DEF ReadUsage, quotaLocal
      <4>3. QED BY <3>2, <4>1, <4>2, DecideKeeps
    <3>3. QED BY <3>1, <3>2
  <2>3. ASSUME NEW q \in QuotaRequests, FillUsage(q) PROVE IInv'
    <3>1. /\ Decide(q, ZeroUsage) /\ pc[q] = "fill" /\ cache' = ZeroUsage
          /\ UNCHANGED <<op, type, snap, overlap, torn, resets>>
      BY <2>3 DEF FillUsage, quotaLocal
    <3>2. QED BY <3>1, ZeroIsUsage, DecideKeeps
  <2>4. ASSUME NEW q \in QuotaRequests, ReadForRecord(q) PROVE IInv'
    BY <2>4, RecordReadKeeps
  <2>5. ASSUME NEW q \in QuotaRequests, WriteUsage(q) PROVE IInv'
    BY <2>5, WriteKeeps
  <2>6. CASE ResetUsage
    BY <2>6, ResetKeeps
  <2>7. CASE UNCHANGED quotaVars
    <3>1. \A t : Pending(t)' = Pending(t)
      BY <2>7 DEF quotaVars, Pending
    <3>2. \A t : Owed(t)' = Owed(t)
      BY <3>1 DEF Owed
    <3>3. QED BY <2>7, <3>2 DEF quotaVars, IInv, QuotaTypeOK, Arrived, Covered
  <2>8. QED BY <2>1, <2>2, <2>3, <2>4, <2>5, <2>6, <2>7 DEF QuotaNext
<1>3. QED BY <1>1, <1>2, PTL DEF QuotaSpec

\* The tracker's state keeps its type, and a request that records always finds a
\* cached record.
THEOREM QuotaTypeCorrect == QuotaSpec => []QuotaTypeOK
<1>1. IInv => QuotaTypeOK
  BY DEF IInv
<1>2. QED BY <1>1, QuotaInvariance, PTL

\* As long as no reset met a running request, no counter exceeds the operations
\* that were allowed since the last reset, however requests overlap.
THEOREM QuietResets == QuotaSpec => []QuietResetSticks
<1>1. IInv => QuietResetSticks
  <2> SUFFICES ASSUME IInv, ~torn, cache # NoUsage, NEW t \in Types
               PROVE  cache[t] <= granted[t]
    BY DEF QuietResetSticks, NoPhantomUsage
  <2>1. cache[t] \in Nat /\ granted[t] \in Nat /\ Owed(t) \in Nat
    BY OwedType DEF IInv, QuotaTypeOK, Usage
  <2>2. cache[t] + Owed(t) <= granted[t]
    BY DEF IInv, Covered
  <2>3. QED BY <2>1, <2>2
<1>2. QED BY <1>1, QuotaInvariance, PTL

\* No request is refused before Limit operations of its type were allowed: a
\* cached counter that reached the limit is backed by that many grants, and a
\* miss decides on a zero record, which always fits.
THEOREM NoEarlyDenial == QuotaSpec => DeniedOnlyAtLimit
<1> DEFINE Denial == \A q \in QuotaRequests :
                       ~torn /\ pc[q] # "denied" /\ pc'[q] = "denied"
                           => granted[type[q]] >= Limit
<1>1. IInv /\ [QuotaNext]_quotaVars => [Denial]_quotaVars
  <2> SUFFICES ASSUME IInv, QuotaNext, ~torn, NEW q \in QuotaRequests,
                      pc[q] # "denied", pc'[q] = "denied"
               PROVE  granted[type[q]] >= Limit
    BY DEF quotaVars
  <2>1. pc \in [QuotaRequests -> PCs] /\ granted \in Usage /\ Limit \in Nat \ {0}
    BY QuotaAssumption DEF IInv, QuotaTypeOK
  <2>2. ReadUsage(q) \/ FillUsage(q)
    <3>1. ASSUME NEW r \in QuotaRequests, AskQuota(r) PROVE FALSE
      BY <2>1, <3>1 DEF AskQuota
    <3>2. ASSUME NEW r \in QuotaRequests, ReadForRecord(r) \/ WriteUsage(r) PROVE FALSE
      BY <2>1, <3>2 DEF ReadForRecord, WriteUsage
    <3>3. ASSUME ResetUsage PROVE FALSE
      BY <2>1, <3>3 DEF ResetUsage
    <3>4. ASSUME NEW r \in QuotaRequests, ReadUsage(r) PROVE r = q
      BY <2>1, <3>4 DEF ReadUsage, Decide
    <3>5. ASSUME NEW r \in QuotaRequests, FillUsage(r) PROVE r = q
      BY <2>1, <3>5 DEF FillUsage, Decide
    <3>6. QED BY <3>1, <3>2, <3>3, <3>4, <3>5 DEF QuotaNext
  <2>3. type[q] \in Types
    BY <2>2 DEF IInv, Arrived, ReadUsage, FillUsage
  <2>4. CASE ReadUsage(q)
    <3>1. cache # NoUsage /\ ~Allowed(cache[type[q]])
      BY <2>1, <2>4 DEF ReadUsage, Decide
    <3>2. cache[type[q]] \in Nat
      BY <2>3, <3>1 DEF IInv, QuotaTypeOK, Usage
    <3>3. cache[type[q]] >= Limit
      BY <2>1, <3>1, <3>2 DEF Allowed
    <3>4. cache[type[q]] + Owed(type[q]) <= granted[type[q]]
      BY <2>3, <3>1 DEF IInv, Covered
    <3>5. granted[type[q]] \in Nat /\ Owed(type[q]) \in Nat
      BY <2>1, <2>3, OwedType DEF Usage
    <3>6. QED BY <2>1, <3>2, <3>3, <3>4, <3>5
  <2>5. CASE FillUsage(q)
    <3>1. ~Allowed(ZeroUsage[type[q]])
      BY <2>1, <2>5 DEF FillUsage, Decide
    <3>2. ZeroUsage[type[q]] = 0
      BY <2>3 DEF ZeroUsage
    <3>3. QED BY <2>1, <3>1, <3>2 DEF Allowed
  <2>6. QED BY <2>2, <2>4, <2>5
<1>2. QED BY <1>1, QuotaInvariance, PTL DEF QuotaSpec, DeniedOnlyAtLimit
=============================================================================
