------------------------------ MODULE ApiProofs ------------------------------
(***************************************************************************)
(* Proofs about the management API: the circuit breaker, the two limiters  *)
(* by address, the expiry of tokens, the service plans and the migrations. *)
(* The components share no state, so each has an invariant of its own.     *)
(***************************************************************************)
EXTENDS RateLimiter, ConnectionLimiter, ApiPipeline, CircuitBreaker, ServicePlans,
        Migrations, FiniteSetTheorems, SequenceTheorems, TLAPS

-----------------------------------------------------------------------------
(* The circuit breaker.  BreakerTrips says nothing about the failures that  *)
(* have been counted and whose time is still to be stored: each of them may *)
(* yet become a solid one, so the count must cover them as well.            *)

CallerSteps == {"idle", "stamp", "stampLate", "clear"}
Stamping == {c \in Callers : caller[c] = "stamp"}

BreakerTypeOK ==
    /\ failures \in Nat /\ since \in Nat /\ solid \in Nat
    /\ caller \in [Callers -> CallerSteps]

BreakerInv == BreakerTypeOK /\ solid + Cardinality(Stamping) <= failures

\* The failures underway at any moment are finitely many.
LEMMA StampingFinite ==
    ASSUME NEW S \in SUBSET Callers
    PROVE  IsFiniteSet(S) /\ Cardinality(S) \in Nat
BY FS_Subset, FS_CardinalityType, BreakerAssumption

\* No step of a caller, and no tick, makes the count fall behind the failures it
\* stands for.
LEMMA BreakerStep ==
    ASSUME BreakerInv, [BreakerNext]_breakerVars
    PROVE  BreakerInv'
<1> USE DEF BreakerInv, BreakerTypeOK, CallerSteps
<1>0. /\ IsFiniteSet(Stamping) /\ Cardinality(Stamping) \in Nat
      /\ IsFiniteSet(Stamping') /\ Cardinality(Stamping') \in Nat
  BY StampingFinite DEF Stamping
<1>1. ASSUME NEW c \in Callers, RecordFailure(c) PROVE BreakerInv'
  <2>1. Stamping' = Stamping \/ (Stamping' = Stamping \cup {c} /\ c \notin Stamping)
    BY <1>1 DEF Stamping, RecordFailure
  <2>2. Cardinality(Stamping') <= Cardinality(Stamping) + 1
    BY <1>0, <2>1, FS_AddElement
  <2> QED BY <1>0, <1>1, <2>2 DEF RecordFailure
<1>2. ASSUME NEW c \in Callers, StampFailure(c) PROVE BreakerInv'
  <2>1. CASE caller[c] = "stamp"
    <3>1. Stamping' = Stamping \ {c} /\ c \in Stamping
      BY <1>2, <2>1 DEF Stamping, StampFailure
    <3>2. Cardinality(Stamping') = Cardinality(Stamping) - 1
      BY <1>0, <3>1, FS_RemoveElement
    <3> QED BY <1>0, <1>2, <3>2 DEF StampFailure
  <2>2. CASE caller[c] # "stamp"
    <3>1. Stamping' = Stamping
      BY <1>2, <2>2 DEF Stamping, StampFailure
    <3> QED BY <1>0, <1>2, <2>2, <3>1 DEF StampFailure
  <2> QED BY <2>1, <2>2
<1>3. ASSUME NEW c \in Callers, RecordSuccess(c) PROVE BreakerInv'
  <2>1. Stamping' = {}
    BY <1>3 DEF Stamping, RecordSuccess
  <2> QED BY <1>3, <2>1, FS_EmptySet DEF RecordSuccess
<1>4. ASSUME NEW c \in Callers, ClearTime(c) PROVE BreakerInv'
  <2>1. Stamping' = Stamping
    BY <1>4 DEF Stamping, ClearTime
  <2> QED BY <1>0, <1>4, <2>1, BreakerAssumption DEF ClearTime, Never
<1>5. CASE BreakerTick
  BY <1>5, <1>0 DEF BreakerTick, Stamping
<1>6. CASE UNCHANGED breakerVars
  BY <1>6, <1>0 DEF breakerVars, Stamping
<1> QED BY <1>1, <1>2, <1>3, <1>4, <1>5, <1>6 DEF BreakerNext

\* Once the threshold of failures has been recorded with no success overlapping
\* any of them, is_open answers true until the timeout after the last: for any
\* number of callers, any threshold and any timeout.
THEOREM BreakerTripping == BreakerSpec => []BreakerTrips
<1>1. BreakerInit => BreakerInv
  <2> SUFFICES ASSUME BreakerInit PROVE BreakerInv OBVIOUS
  <2>1. Stamping = {}
    BY DEF BreakerInit, Stamping
  <2> QED BY <2>1, FS_EmptySet, BreakerAssumption
          DEF BreakerInit, BreakerInv, BreakerTypeOK, CallerSteps, Never
<1>2. BreakerInv /\ [BreakerNext]_breakerVars => BreakerInv'
  BY BreakerStep
<1>3. BreakerInv => BreakerTrips
  <2> SUFFICES ASSUME BreakerInv PROVE BreakerTrips OBVIOUS
  <2>1. Cardinality(Stamping) \in Nat
    BY StampingFinite DEF Stamping
  <2> QED BY <2>1, BreakerAssumption DEF BreakerInv, BreakerTypeOK, BreakerTrips, IsOpen, Reached
<1> QED BY <1>1, <1>2, <1>3, PTL DEF BreakerSpec

-----------------------------------------------------------------------------
(* The connection limits by address.  The block a peer was given outlives   *)
(* no longer than its entry: clean-up keeps a blocked entry, and a task     *)
(* that writes the entry never shortens the block.                          *)

TaskSteps == {"idle", "checked", "open"}
InfoRec == [known : BOOLEAN, active : Nat, recent : [Ages -> Nat], left : Nat]

ConnTypeOK ==
    /\ ip_info \in [Peers -> InfoRec]
    /\ task \in [Tasks -> [Peers -> TaskSteps]]
    /\ banned \in [Peers -> Nat]

BanStands == \A p \in Peers : banned[p] <= ip_info[p].left

ConnInv == ConnTypeOK /\ BanStands /\ ConnectionsCounted

\* A forgotten address has no connection and no block.
LEMMA NoInfoIdle == NoInfo \in InfoRec /\ NoInfo.active = 0 /\ NoInfo.left = 0
BY DEF NoInfo, InfoRec

\* A task that opens or closes a connection changes the count of its peer by one.
LEMMA OpenMoves ==
    ASSUME ConnTypeOK, NEW w \in Tasks, NEW p \in Peers, NEW s \in TaskSteps, Move(w, p, s)
    PROVE  /\ task' \in [Tasks -> [Peers -> TaskSteps]]
           /\ \A q \in Peers : IsFiniteSet(Open(q)) /\ Cardinality(Open(q)) \in Nat
           /\ \A q \in Peers \ {p} : Open(q)' = Open(q)
           /\ (~TaskAt(w, p, "open") /\ s = "open") =>
                 Cardinality(Open(p)') = Cardinality(Open(p)) + 1
           /\ (TaskAt(w, p, "open") /\ s # "open") =>
                 Cardinality(Open(p)') = Cardinality(Open(p)) - 1
           /\ (~TaskAt(w, p, "open") /\ s # "open") => Open(p)' = Open(p)
<1>1. task' \in [Tasks -> [Peers -> TaskSteps]]
  BY DEF Move, ConnTypeOK
<1>2. ASSUME NEW q \in Peers PROVE IsFiniteSet(Open(q)) /\ Cardinality(Open(q)) \in Nat
  BY ConnAssumption, FS_Subset, FS_CardinalityType DEF Open
<1>3. ASSUME NEW q \in Peers, q # p PROVE Open(q)' = Open(q)
  BY <1>3 DEF Move, ConnTypeOK, Open, TaskAt
<1>4. ASSUME ~TaskAt(w, p, "open"), s = "open"
      PROVE  Cardinality(Open(p)') = Cardinality(Open(p)) + 1
  <2>1. Open(p)' = Open(p) \cup {w} /\ w \notin Open(p)
    BY <1>4 DEF Move, ConnTypeOK, Open, TaskAt
  <2> QED BY <1>2, <2>1, FS_AddElement
<1>5. ASSUME TaskAt(w, p, "open"), s # "open"
      PROVE  Cardinality(Open(p)') = Cardinality(Open(p)) - 1
  <2>1. Open(p)' = Open(p) \ {w} /\ w \in Open(p)
    BY <1>5 DEF Move, ConnTypeOK, Open, TaskAt
  <2> QED BY <1>2, <2>1, FS_RemoveElement
<1>6. ASSUME ~TaskAt(w, p, "open"), s # "open" PROVE Open(p)' = Open(p)
  BY <1>6 DEF Move, ConnTypeOK, Open, TaskAt
<1> QED BY <1>1, <1>2, <1>3, <1>4, <1>5, <1>6

\* Every step of a task, every clean-up and every tick keeps the counts exact and
\* the blocks in force.
LEMMA ConnStep ==
    ASSUME ConnInv, [ConnNext]_connVars
    PROVE  ConnInv'
<1>0. /\ ConnTypeOK /\ BanStands /\ ConnectionsCounted
      /\ \A p \in Peers : ip_info[p] \in InfoRec
  BY DEF ConnInv, ConnTypeOK
<1> SUFFICES ConnTypeOK' /\ BanStands' /\ ConnectionsCounted'
  BY DEF ConnInv
<1>1. ASSUME NEW w \in Tasks, NEW p \in Peers, IsBlocked(w, p)
      PROVE  ConnTypeOK' /\ BanStands' /\ ConnectionsCounted'
  <2>1. CASE UNCHANGED task
    BY <1>0, <1>1, <2>1 DEF IsBlocked, ConnTypeOK, BanStands, ConnectionsCounted, Open, TaskAt
  <2>2. CASE Move(w, p, "checked")
    <3>1. task' \in [Tasks -> [Peers -> TaskSteps]] /\ \A q \in Peers : Open(q)' = Open(q)
      <4>1. ~TaskAt(w, p, "open")
        BY <1>1 DEF IsBlocked, TaskIdle, TaskAt
      <4> QED BY <1>0, <2>2, <4>1, OpenMoves DEF TaskSteps
    <3> QED BY <1>0, <1>1, <3>1 DEF IsBlocked, ConnTypeOK, BanStands, ConnectionsCounted
  <2> QED BY <1>1, <2>1, <2>2 DEF IsBlocked
<1>2. ASSUME NEW w \in Tasks, NEW p \in Peers, CheckConnectionLimit(w, p)
      PROVE  ConnTypeOK' /\ BanStands' /\ ConnectionsCounted'
  <2> DEFINE e == [ip_info[p] EXCEPT !.known = TRUE, !.recent = Retained(@)]
             opened == [e EXCEPT !.active = @ + 1, !.recent[0] = @ + 1]
  <2>0. /\ TaskAt(w, p, "checked") /\ ~TaskAt(w, p, "open")
        /\ Overloaded(e) => /\ ip_info' = [ip_info EXCEPT ![p] = [e EXCEPT !.left = BlockTime]]
                            /\ banned' = [banned EXCEPT ![p] = BlockTime]
                            /\ Move(w, p, "idle")
        /\ ~Overloaded(e) => /\ ip_info' = [ip_info EXCEPT ![p] = opened]
                             /\ Move(w, p, "open") /\ UNCHANGED banned
    BY <1>2 DEF CheckConnectionLimit, TaskAt
  <2>1. /\ e \in InfoRec /\ e.active = ip_info[p].active /\ e.left = ip_info[p].left
        /\ opened \in InfoRec /\ opened.active = e.active + 1 /\ opened.left = e.left
    <3>1. ip_info[p] \in InfoRec
      BY <1>0
    <3>2. Retained(ip_info[p].recent) \in [Ages -> Nat]
      BY <3>1 DEF InfoRec, Retained
    <3>3. e \in InfoRec /\ e.active = ip_info[p].active /\ e.left = ip_info[p].left
      BY <3>1, <3>2 DEF InfoRec
    <3>4. [e.recent EXCEPT ![0] = @ + 1] \in [Ages -> Nat] /\ e.active + 1 \in Nat
      <4>1. 0 \in Ages
        BY ConnAssumption DEF Ages
      <4>2. e.recent \in [Ages -> Nat] /\ e.active \in Nat
        BY <3>3 DEF InfoRec
      <4> HIDE DEF e
      <4> QED BY <4>1, <4>2
    <3>5. opened = [e EXCEPT !.active = e.active + 1, !.recent = [e.recent EXCEPT ![0] = @ + 1]]
      <4> HIDE DEF e
      <4> QED BY <3>3 DEF InfoRec
    <3>6. opened \in InfoRec /\ opened.active = e.active + 1 /\ opened.left = e.left
      <4> HIDE DEF e
      <4> QED BY <3>3, <3>4, <3>5 DEF InfoRec
    <3> QED BY <3>3, <3>6
  <2>2. CASE Overloaded(e)
    <3> DEFINE shut == [e EXCEPT !.left = BlockTime]
    <3>1. shut \in InfoRec /\ shut.active = ip_info[p].active /\ shut.left = BlockTime
      <4> HIDE DEF e
      <4> QED BY <2>1, ConnAssumption DEF InfoRec
    <3>2. /\ task' \in [Tasks -> [Peers -> TaskSteps]] /\ \A q \in Peers : Open(q)' = Open(q)
      BY <1>0, <2>0, <2>2, OpenMoves DEF TaskSteps
    <3> HIDE DEF e, shut
    <3>3. ip_info' = [ip_info EXCEPT ![p] = shut] /\ banned' = [banned EXCEPT ![p] = BlockTime]
      BY <2>0, <2>2 DEF shut
    <3>4. ConnTypeOK' /\ BanStands'
      BY <1>0, <3>1, <3>2, <3>3, ConnAssumption DEF ConnTypeOK, BanStands
    <3>5. ConnectionsCounted'
      BY <1>0, <3>1, <3>2, <3>3 DEF ConnectionsCounted, ConnTypeOK
    <3> QED BY <3>4, <3>5
  <2>3. CASE ~Overloaded(e)
    <3>1. e.active < MaxConns
      <4>1. ~(e.active >= MaxConns)
        BY <2>3 DEF Overloaded
      <4>2. e.active \in Nat /\ MaxConns \in Nat
        BY <2>1, ConnAssumption DEF InfoRec
      <4> HIDE DEF e
      <4> QED BY <4>1, <4>2
    <3>2. /\ task' \in [Tasks -> [Peers -> TaskSteps]]
          /\ \A q \in Peers \ {p} : Open(q)' = Open(q)
          /\ Cardinality(Open(p)') = Cardinality(Open(p)) + 1
      BY <1>0, <2>0, <2>3, OpenMoves DEF TaskSteps
    <3>3. ip_info[p].active \in Nat
      BY <1>0 DEF InfoRec
    <3> HIDE DEF e, opened
    <3> QED BY <1>0, <2>0, <2>1, <2>3, <3>1, <3>2, <3>3, ConnAssumption
            DEF ConnTypeOK, BanStands, ConnectionsCounted
  <2> QED BY <2>2, <2>3
<1>3. ASSUME NEW w \in Tasks, NEW p \in Peers, ConnectionClosed(w, p)
      PROVE  ConnTypeOK' /\ BanStands' /\ ConnectionsCounted'
  <2> DEFINE n == IF ip_info[p].active > 0 THEN ip_info[p].active - 1 ELSE 0
             shut == [ip_info[p] EXCEPT !.active = n]
  <2>1. /\ task' \in [Tasks -> [Peers -> TaskSteps]]
        /\ \A q \in Peers \ {p} : Open(q)' = Open(q)
        /\ Cardinality(Open(p)') = Cardinality(Open(p)) - 1
        /\ Cardinality(Open(p)) \in Nat /\ Cardinality(Open(p)) # 0
    <3>1. Cardinality(Open(p)) # 0
      <4>1. w \in Open(p) /\ IsFiniteSet(Open(p))
        BY <1>3, ConnAssumption, FS_Subset DEF ConnectionClosed, Open
      <4> QED BY <4>1, FS_EmptySet
    <3> QED BY <1>0, <1>3, <3>1, OpenMoves DEF TaskSteps, ConnectionClosed
  <2>2. ip_info[p].active \in Nat /\ n \in Nat /\ n = Cardinality(Open(p)')
    BY <1>0, <2>1 DEF InfoRec, ConnectionsCounted
  <2>3. shut \in InfoRec /\ shut.active = n /\ shut.left = ip_info[p].left
    <3> HIDE DEF n
    <3> QED BY <1>0, <2>2 DEF InfoRec
  <2>4. ip_info' = [ip_info EXCEPT ![p] = shut] /\ UNCHANGED banned
    BY <1>3 DEF ConnectionClosed
  <2>5. n <= MaxConns
    BY <1>0, <2>2, ConnAssumption DEF ConnectionsCounted
  <2> HIDE DEF n, shut
  <2> QED BY <1>0, <2>1, <2>2, <2>3, <2>4, <2>5 DEF ConnTypeOK, BanStands, ConnectionsCounted
<1>4. CASE CleanupConnections
  <2>1. ip_info' = [p \in Peers |-> IF Kept(ip_info[p]) THEN ip_info[p] ELSE NoInfo]
        /\ UNCHANGED <<task, banned>>
    BY <1>4 DEF CleanupConnections
  <2>2. \A p \in Peers : ~Kept(ip_info[p]) => ip_info[p].active = 0 /\ ip_info[p].left = 0
    BY <1>0 DEF Kept, InfoRec
  <2>3. \A p \in Peers : /\ ip_info'[p] \in InfoRec
                         /\ ip_info'[p].active = ip_info[p].active
                         /\ ip_info'[p].left = ip_info[p].left
    BY <1>0, <2>1, <2>2, NoInfoIdle
  <2>4. \A p \in Peers : Open(p)' = Open(p)
    BY <2>1 DEF Open, TaskAt
  <2> QED BY <1>0, <2>1, <2>3, <2>4 DEF ConnTypeOK, BanStands, ConnectionsCounted
<1>5. CASE ConnTick
  <2> DEFINE shifted(p) == [a \in Ages |-> IF a = 0 THEN 0 ELSE ip_info[p].recent[a-1]]
             left(p) == IF ip_info[p].left > 0 THEN ip_info[p].left - 1 ELSE 0
             older(p) == [ip_info[p] EXCEPT !.left = left(p), !.recent = shifted(p)]
  <2>1. /\ ip_info' = [p \in Peers |-> older(p)] /\ UNCHANGED task
        /\ banned' = [p \in Peers |-> IF banned[p] > 0 THEN banned[p] - 1 ELSE 0]
    BY <1>5 DEF ConnTick
  <2>2. ASSUME NEW p \in Peers
        PROVE  /\ older(p) \in InfoRec /\ older(p).active = ip_info[p].active
               /\ older(p).left = left(p)
    <3>1. shifted(p) \in [Ages -> Nat] /\ left(p) \in Nat
      <4>1. \A a \in Ages : a # 0 => a - 1 \in Ages
        BY ConnAssumption DEF Ages
      <4>2. ip_info[p].recent \in [Ages -> Nat] /\ ip_info[p].left \in Nat
        BY <1>0 DEF InfoRec
      <4> QED BY <4>1, <4>2
    <3> HIDE DEF shifted, left
    <3> QED BY <1>0, <3>1 DEF InfoRec
  <2>3. \A p \in Peers : Open(p)' = Open(p)
    BY <2>1 DEF Open, TaskAt
  <2>4. \A p \in Peers : ip_info[p].left \in Nat
    BY <1>0 DEF InfoRec
  <2> HIDE DEF older
  <2> QED BY <1>0, <2>1, <2>2, <2>3, <2>4 DEF ConnTypeOK, BanStands, ConnectionsCounted
<1>6. CASE UNCHANGED connVars
  BY <1>0, <1>6 DEF connVars, ConnTypeOK, BanStands, ConnectionsCounted, Open, TaskAt
<1> QED BY <1>1, <1>2, <1>3, <1>4, <1>5, <1>6 DEF ConnNext

\* The limiter starts with no entry, no connection and no block.
LEMMA ConnStart == ConnInit => ConnInv
<1> SUFFICES ASSUME ConnInit PROVE ConnInv OBVIOUS
<1>1. \A p \in Peers : Open(p) = {}
  BY DEF ConnInit, Open, TaskAt
<1>2. \A p \in Peers : ip_info[p] \in InfoRec /\ ip_info[p].active = 0 /\ ip_info[p].left = 0
  BY DEF ConnInit, NoInfo, InfoRec
<1> QED BY <1>1, <1>2, FS_EmptySet, ConnAssumption
        DEF ConnInit, ConnInv, ConnTypeOK, BanStands, ConnectionsCounted, TaskSteps

\* The count of an address is the number of its open connections and never more
\* than max_connections_per_ip, however tasks open, close and clean up around
\* each other.
THEOREM CountsExact == ConnSpec => []ConnectionsCounted
<1>1. ConnInv => ConnectionsCounted
  BY DEF ConnInv
<1> QED BY <1>1, ConnStart, ConnStep, PTL DEF ConnSpec

\* No task that comes to is_blocked while an address is blocked gets past it.
THEOREM BlockedKeptOut == ConnSpec => BlockedStayOut
<1>1. ConnInv /\ [ConnNext]_connVars =>
        [\A p \in Peers : \A w \in Tasks :
            (banned[p] > 0 /\ TaskAt(w, p, "idle")) => task'[w][p] = "idle"]_connVars
  <2> SUFFICES ASSUME ConnInv, ConnNext, NEW p \in Peers, NEW w \in Tasks,
                      banned[p] > 0, TaskAt(w, p, "idle")
               PROVE  task'[w][p] = "idle"
    BY DEF ConnNext
  <2>0. /\ ip_info[p].left > 0 /\ task[w][p] = "idle"
        /\ task \in [Tasks -> [Peers -> TaskSteps]]
    BY DEF ConnInv, ConnTypeOK, BanStands, InfoRec, TaskAt
  <2>1. ASSUME NEW v \in Tasks, NEW q \in Peers, IsBlocked(v, q) PROVE task'[w][p] = "idle"
    BY <2>0, <2>1 DEF IsBlocked, Move
  <2>2. ASSUME NEW v \in Tasks, NEW q \in Peers, CheckConnectionLimit(v, q)
        PROVE  task'[w][p] = "idle"
    BY <2>0, <2>2 DEF CheckConnectionLimit, Move, TaskAt
  <2>3. ASSUME NEW v \in Tasks, NEW q \in Peers, ConnectionClosed(v, q)
        PROVE  task'[w][p] = "idle"
    BY <2>0, <2>3 DEF ConnectionClosed, Move
  <2>4. CASE UNCHANGED task
    BY <2>0, <2>4
  <2> QED BY <2>1, <2>2, <2>3, <2>4 DEF ConnNext, CleanupConnections, ConnTick
<1> QED BY <1>1, ConnStart, ConnStep, PTL DEF ConnSpec, BlockedStayOut

-----------------------------------------------------------------------------
(* Tokens.  The timestamp inside a token drops the fraction of a second,    *)
(* the expires_at beside it, from a later reading of the clock, keeps it.   *)
(* The strict comparison of the age check makes up for what was dropped; a  *)
(* later reading only makes the promise longer than what is accepted.       *)

Layers == {"idle", "rate", "auth", "size", "handler", "validate", "generate", "promise",
           "replied"}
Verdicts == {"ok", "AuthenticationFailed", "InvalidTokenSignature", "TokenExpired"}
Reasons == Verdicts \cup {"none", "ip", "token", "size", "timeout", "github", "handler"}
OwnErrors == {"AuthenticationFailed", "RateLimitExceeded", "PayloadTooLarge", "RequestTimeout"}
Statuses == {StatusOf(e) : e \in OwnErrors \cup ApiErrors} \cup {0, 200}
ReplyRec == [status : Statuses, retry : Nat, why : Reasons]
ReqRec == [at : Layers, path : Paths, cred : Creds, big : BOOLEAN, ts : Nat,
           tf : 0..Fractions-1, reply : ReplyRec]
TokenRec == [ts : Nat, tf : 0..Fractions-1, promise : [s : Nat, f : 0..Fractions-1]]

ApiTypeOK ==
    /\ clock \in Nat /\ frac \in 0..Fractions-1 /\ tokens \in Seq(TokenRec)
    /\ req \in [Requests -> ReqRec]

PromisesKept == \A n \in 1..Len(tokens) : tokens[n].ts + Life <= tokens[n].promise.s

\* What a request may carry and say where it stands.
RequestOK(x) ==
    /\ x.cred.tok <= Len(tokens)
    /\ x.at = "promise" => x.ts <= clock
    /\ x.at # "replied" => x.reply.why # "TokenExpired"

ApiInv == ApiTypeOK /\ PromisesKept /\ \A r \in Requests : RequestOK(req[r])

\* A reply that says TokenExpired comes from a token that is.
Justified(r, x) ==
    (req[r].at # "replied" /\ x.reply.why = "TokenExpired") =>
        \E dev \in BOOLEAN : Authenticate(req[r].cred, dev) = "TokenExpired"

\* A token that passes the middleware is not expired.
Passes(r, x) ==
    (/\ req[r].at = "auth" /\ x.at = "size"
     /\ req[r].cred.kind = "token" /\ ~IsPublicEndpoint(req[r].path)) =>
        Authenticate(req[r].cred, DevMode) = "ok"

\* Only a token handed out can be refused as expired, and only when it is.
LEMMA AuthenticateSays ==
    ASSUME NEW c \in Creds, NEW dev \in BOOLEAN
    PROVE  /\ Authenticate(c, dev) \in Verdicts
           /\ Authenticate(c, dev) = "TokenExpired" =>
                 c.kind = "token" /\ c.tok \in 1..MaxTokens /\ Expired(tokens[c.tok].ts)
           /\ c.kind = "token" /\ Authenticate(c, dev) = "ok" =>
                 c.tok \in 1..MaxTokens /\ ~Expired(tokens[c.tok].ts)
<1>1. /\ c.kind \in {"none", "malformed", "devHeader", "devToken", "unsigned", "token"}
      /\ c.kind = "token" => c.tok \in 1..MaxTokens
  BY DEF Creds
<1>2. /\ Extract(c, dev) \in {"dev", "AuthenticationFailed", "unsigned", "token"}
      /\ Extract(c, dev) = "token" <=> c.kind = "token"
  BY <1>1 DEF Extract
<1> QED BY <1>1, <1>2 DEF Authenticate, Verdicts

\* The ways a step leaves a request behind.
LEMMA RequestMoves ==
    ASSUME ApiTypeOK, NEW r \in Requests
    PROVE  /\ \A l \in Layers : Goto(r, l) =>
                 \E x \in ReqRec : /\ req' = [req EXCEPT ![r] = x]
                                   /\ x.cred = req[r].cred /\ x.ts = req[r].ts
                                   /\ x.at = l /\ x.reply = req[r].reply
           /\ \A s \in Statuses, t \in Nat, w \in Reasons : Reply(r, s, t, w) =>
                 \E x \in ReqRec : /\ req' = [req EXCEPT ![r] = x]
                                   /\ x.cred = req[r].cred
                                   /\ x.at = "replied" /\ x.reply.why = w
<1>0. req[r] \in ReqRec /\ req \in [Requests -> ReqRec]
  BY DEF ApiTypeOK
<1>1. ASSUME NEW l \in Layers, Goto(r, l)
      PROVE  \E x \in ReqRec : /\ req' = [req EXCEPT ![r] = x]
                               /\ x.cred = req[r].cred /\ x.ts = req[r].ts
                               /\ x.at = l /\ x.reply = req[r].reply
  <2> DEFINE x == [req[r] EXCEPT !.at = l]
  <2>1. x \in ReqRec /\ x.cred = req[r].cred /\ x.ts = req[r].ts /\ x.at = l
        /\ x.reply = req[r].reply
    BY <1>0 DEF ReqRec
  <2>2. req' = [req EXCEPT ![r] = x]
    BY <1>1 DEF Goto
  <2> QED BY <2>1, <2>2
<1>2. ASSUME NEW s \in Statuses, NEW t \in Nat, NEW w \in Reasons, Reply(r, s, t, w)
      PROVE  \E x \in ReqRec : /\ req' = [req EXCEPT ![r] = x]
                               /\ x.cred = req[r].cred
                               /\ x.at = "replied" /\ x.reply.why = w
  <2> DEFINE y == [status |-> s, retry |-> t, why |-> w]
             x == [req[r] EXCEPT !.at = "replied", !.reply = y]
  <2>1. y \in ReplyRec /\ y.why = w
    BY DEF ReplyRec
  <2>2. req' = [req EXCEPT ![r] = x]
    BY <1>2 DEF Reply
  <2> HIDE DEF y
  <2>3. x \in ReqRec /\ x.cred = req[r].cred /\ x.at = "replied" /\ x.reply = y
    BY <1>0, <2>1 DEF ReqRec, Layers
  <2> QED BY <2>1, <2>2, <2>3
<1> QED BY <1>1, <1>2

\* Every status the error table gives, and every Retry-After, is one.
LEMMA StatusGiven ==
    /\ \A e \in OwnErrors \cup ApiErrors : StatusOf(e) \in Statuses
    /\ 200 \in Statuses /\ 0 \in Statuses
    /\ \A s : RecoveryRetry(s) \in Nat
    /\ \A w \in Verdicts : FromAuthError(w) \in OwnErrors
<1>1. \A s : RecoveryRetry(s) \in Nat
  BY DEF RecoveryRetry
<1>2. \A w \in Verdicts : FromAuthError(w) \in OwnErrors
  BY DEF FromAuthError, Verdicts, OwnErrors
<1> QED BY <1>1, <1>2 DEF Statuses

\* A step of a request replaces its own record by a legal one, and only a request
\* that hands out a token adds one.
LEMMA RequestStep ==
    ASSUME ApiInv, NEW r \in Requests,
           \/ \E p \in Paths, c \in Creds, big \in BOOLEAN : Arrive(r, p, c, big)
           \/ \E v \in {"pass", "ip", "token"} : RateLayer(r, v)
           \/ AuthLayer(r) \/ RequestSizeLayer(r) \/ TimeoutLayer(r)
           \/ \E ok \in BOOLEAN : ExchangeGithubCode(r, ok) \/ ValidateGithubToken(r, ok)
           \/ GenerateJwtToken(r)
           \/ \E o \in ApiErrors \cup {"ok"} : WorkHandler(r, o)
           \/ Done(r)
    PROVE  /\ UNCHANGED <<clock, frac, tokens>>
           /\ \E x \in ReqRec : /\ req' = [req EXCEPT ![r] = x]
                                /\ RequestOK(x) /\ Justified(r, x) /\ Passes(r, x)
<1> DEFINE Legal == \E x \in ReqRec : /\ req' = [req EXCEPT ![r] = x]
                                      /\ RequestOK(x) /\ Justified(r, x) /\ Passes(r, x)
<1>0. /\ ApiTypeOK /\ req[r] \in ReqRec /\ RequestOK(req[r]) /\ req \in [Requests -> ReqRec]
      /\ req[r].cred \in Creds
  BY DEF ApiInv, ApiTypeOK, ReqRec
<1>a. ASSUME NEW l \in Layers, l \notin {"promise", "replied"}, Goto(r, l),
             req[r].at # "replied",
             (/\ req[r].at = "auth" /\ l = "size"
              /\ req[r].cred.kind = "token" /\ ~IsPublicEndpoint(req[r].path)) =>
                 Authenticate(req[r].cred, DevMode) = "ok"
      PROVE  Legal
  BY <1>0, <1>a, RequestMoves DEF RequestOK, Justified, Passes
<1>b. ASSUME NEW s \in Statuses, NEW t \in Nat, NEW w \in Reasons, Reply(r, s, t, w),
             w = "TokenExpired" =>
                \E dev \in BOOLEAN : Authenticate(req[r].cred, dev) = "TokenExpired"
      PROVE  Legal
  BY <1>0, <1>b, RequestMoves DEF RequestOK, Justified, Passes
<1>c. ASSUME NEW x \in ReqRec, x = Fresh \/ (x.at = "rate" /\ x.reply = NoReply),
             x.cred = NoCred \/ x.cred.tok <= Len(tokens)
      PROVE  RequestOK(x) /\ Justified(r, x) /\ Passes(r, x)
  <2>1. x.reply.why = "none" /\ x.at \in {"idle", "rate"}
    BY <1>c DEF Fresh, NoReply
  <2>2. x.cred.tok <= Len(tokens)
    BY <1>c, <1>0 DEF NoCred, ApiTypeOK
  <2> QED BY <2>1, <2>2 DEF RequestOK, Justified, Passes
<1>d. Fresh \in ReqRec /\ Fresh.cred = NoCred
  <2>1. NoCred \in Creds
    BY DEF NoCred, Creds
  <2>2. NoReply \in ReplyRec
    BY StatusGiven DEF NoReply, ReplyRec, Reasons
  <2> QED BY <2>1, <2>2, PipelineAssumption DEF Fresh, ReqRec, Layers, Paths
<1>1. ASSUME NEW p \in Paths, NEW c \in Creds, NEW big \in BOOLEAN, Arrive(r, p, c, big)
      PROVE  Legal /\ UNCHANGED <<clock, frac, tokens>>
  <2> DEFINE x == [Fresh EXCEPT !.at = "rate", !.path = p, !.cred = c, !.big = big]
  <2>1. x \in ReqRec /\ x.at = "rate" /\ x.cred = c /\ x.reply = NoReply
    <3>1. NoReply \in ReplyRec
      BY StatusGiven DEF NoReply, ReplyRec, Reasons
    <3>2. 0 \in 0..Fractions-1
      BY PipelineAssumption
    <3> QED BY <3>1, <3>2 DEF Fresh, ReqRec, Layers
  <2>2. req' = [req EXCEPT ![r] = x] /\ c.tok <= Len(tokens) /\ UNCHANGED <<clock, frac, tokens>>
    BY <1>1 DEF time, Arrive
  <2> HIDE DEF x
  <2> QED BY <1>c, <2>1, <2>2
<1>2. ASSUME NEW v \in {"pass", "ip", "token"}, RateLayer(r, v)
      PROVE  Legal /\ UNCHANGED <<clock, frac, tokens>>
  <2>1. \/ Goto(r, "auth") \/ Refuse(r, "RateLimitExceeded", 3600, "ip")
        \/ Refuse(r, "RateLimitExceeded", 60, "token")
    <3>1. CASE v = "pass"
      BY <1>2, <3>1 DEF RateLayer
    <3>2. CASE v = "ip"
      BY <1>2, <3>2 DEF RateLayer
    <3>3. CASE v = "token"
      BY <1>2, <3>3 DEF RateLayer
    <3> QED BY <3>1, <3>2, <3>3
  <2>2. req[r].at # "replied" /\ UNCHANGED <<clock, frac, tokens>>
    BY <1>2 DEF time, RateLayer
  <2> HIDE DEF Legal
  <2> QED BY <1>a, <1>b, <2>1, <2>2, StatusGiven DEF Refuse, Layers, Reasons, OwnErrors
<1>3. ASSUME AuthLayer(r) PROVE Legal /\ UNCHANGED <<clock, frac, tokens>>
  <2>1. req[r].at # "replied" /\ UNCHANGED <<clock, frac, tokens>>
    BY <1>3 DEF time, AuthLayer
  <2>2. \/ /\ Goto(r, "size")
           /\ IsPublicEndpoint(req[r].path) \/ Authenticate(req[r].cred, DevMode) = "ok"
        \/ Refuse(r, "AuthenticationFailed", 0, Authenticate(req[r].cred, DevMode))
    BY <1>3 DEF AuthLayer
  <2>3. Authenticate(req[r].cred, DevMode) \in Verdicts
    BY <1>0, AuthenticateSays, PipelineAssumption
  <2> HIDE DEF Legal
  <2> QED BY <1>a, <1>b, <2>1, <2>2, <2>3, StatusGiven, PipelineAssumption
          DEF Refuse, Layers, Reasons, OwnErrors
<1>4. ASSUME RequestSizeLayer(r) PROVE Legal /\ UNCHANGED <<clock, frac, tokens>>
  <2> HIDE DEF Legal
  <2> QED BY <1>4, <1>a, <1>b, StatusGiven DEF time, RequestSizeLayer, Refuse, Layers, Reasons, OwnErrors
<1>5. ASSUME TimeoutLayer(r) PROVE Legal /\ UNCHANGED <<clock, frac, tokens>>
  <2> HIDE DEF Legal
  <2> QED BY <1>5, <1>b, StatusGiven DEF time, TimeoutLayer, Refuse, Reasons, OwnErrors, InHandler
<1>6. ASSUME NEW ok \in BOOLEAN, ExchangeGithubCode(r, ok) \/ ValidateGithubToken(r, ok)
      PROVE  Legal /\ UNCHANGED <<clock, frac, tokens>>
  <2>1. /\ req[r].at # "replied" /\ UNCHANGED <<clock, frac, tokens>>
        /\ \/ Goto(r, "validate") \/ Goto(r, "generate")
           \/ Answer(r, "AuthenticationFailed", "github")
    BY <1>6 DEF time, ExchangeGithubCode, ValidateGithubToken
  <2> HIDE DEF Legal
  <2> QED BY <2>1, <1>a, <1>b, StatusGiven DEF Answer, Layers, Reasons, OwnErrors
<1>7. ASSUME GenerateJwtToken(r) PROVE Legal /\ UNCHANGED <<clock, frac, tokens>>
  <2> DEFINE x == [req[r] EXCEPT !.at = "promise", !.ts = clock, !.tf = frac]
  <2>1. req' = [req EXCEPT ![r] = x] /\ UNCHANGED <<clock, frac, tokens>> /\ req[r].at = "generate"
    BY <1>7 DEF time, GenerateJwtToken
  <2>2. /\ x \in ReqRec /\ x.at = "promise" /\ x.ts = clock /\ x.cred = req[r].cred
        /\ x.reply = req[r].reply /\ clock \in Nat
    BY <1>0 DEF ReqRec, ApiTypeOK, Layers
  <2> HIDE DEF x
  <2>3. RequestOK(x) /\ Justified(r, x) /\ Passes(r, x)
    BY <1>0, <2>1, <2>2 DEF RequestOK, Justified, Passes
  <2> QED BY <2>1, <2>2, <2>3
<1>8. ASSUME NEW o \in ApiErrors \cup {"ok"}, WorkHandler(r, o)
      PROVE  Legal /\ UNCHANGED <<clock, frac, tokens>>
  <2> DEFINE dev == DevMode /\ req[r].path = "tunnels"
             a == Authenticate(req[r].cred, dev)
  <2>1. a \in Verdicts /\ dev \in BOOLEAN
    BY <1>0, AuthenticateSays, PipelineAssumption
  <2>2. /\ req[r].at = "handler" /\ UNCHANGED <<clock, frac, tokens>>
        /\ \/ Answer(r, FromAuthError(a), a) \/ Reply(r, 200, 0, "none")
           \/ o \in ApiErrors /\ Answer(r, o, "handler")
    BY <1>8 DEF time, WorkHandler
  <2>3. FromAuthError(a) \in OwnErrors
    BY <2>1, StatusGiven
  <2>4. a = "TokenExpired" => \E d \in BOOLEAN : Authenticate(req[r].cred, d) = "TokenExpired"
    BY <2>1
  <2> HIDE DEF Legal, a, dev
  <2> QED BY <1>b, <2>1, <2>2, <2>3, <2>4, StatusGiven DEF Answer, Reasons
<1>9. ASSUME Done(r) PROVE Legal /\ UNCHANGED <<clock, frac, tokens>>
  BY <1>9, <1>c, <1>d DEF time, Done
<1> HIDE DEF Legal
<1>10. Legal /\ UNCHANGED <<clock, frac, tokens>>
  BY <1>1, <1>2, <1>3, <1>4, <1>5, <1>6, <1>7, <1>8, <1>9
<1> QED BY <1>10 DEF Legal

\* The token handed out promises at least its own lifetime.
LEMMA HandOutStep ==
    ASSUME ApiInv, NEW r \in Requests, HandOut(r)
    PROVE  /\ ApiInv'
           /\ \E x \in ReqRec : /\ req' = [req EXCEPT ![r] = x]
                                /\ x.reply.why = "none" /\ x.at = "replied"
<1> DEFINE new == [ts |-> req[r].ts, tf |-> req[r].tf,
                   promise |-> [s |-> clock + Life, f |-> frac]]
<1>0. /\ ApiTypeOK /\ req[r] \in ReqRec /\ req[r].ts \in Nat /\ clock \in Nat /\ Life \in Nat
      /\ req[r].tf \in 0..Fractions-1 /\ frac \in 0..Fractions-1
      /\ req[r].ts <= clock /\ tokens \in Seq(TokenRec)
  BY PipelineAssumption DEF ApiInv, ApiTypeOK, ReqRec, HandOut, RequestOK
<1>1. /\ new \in TokenRec /\ tokens' = Append(tokens, new) /\ clock' = clock /\ frac' = frac
      /\ new.ts + Life <= new.promise.s
  BY <1>0 DEF HandOut, TokenRec, time
<1>r. Reply(r, 200, 0, "none") /\ 200 \in Statuses /\ "none" \in Reasons
  BY StatusGiven DEF HandOut, Reasons
<1>2. PICK x \in ReqRec : /\ req' = [req EXCEPT ![r] = x]
                          /\ x.cred = req[r].cred /\ x.at = "replied" /\ x.reply.why = "none"
  <2> HIDE DEF new
  <2> DEFINE Gives(w) == \E x \in ReqRec : /\ req' = [req EXCEPT ![r] = x]
                                           /\ x.cred = req[r].cred
                                           /\ x.at = "replied" /\ x.reply.why = w
  <2>1. \A s \in Statuses, t \in Nat, w \in Reasons : Reply(r, s, t, w) => Gives(w)
    BY <1>0, RequestMoves
  <2>2. Gives("none")
    <3> HIDE DEF Gives
    <3> QED BY <1>r, <2>1
  <2> QED BY <2>2
<1> HIDE DEF new
<1>3. /\ tokens' \in Seq(TokenRec) /\ Len(tokens') = Len(tokens) + 1 /\ Len(tokens) \in Nat
      /\ \A n \in 1..Len(tokens) : tokens'[n] = tokens[n]
      /\ tokens'[Len(tokens) + 1] = new
  BY <1>0, <1>1
<1>4. ApiTypeOK' /\ PromisesKept'
  <2>1. ApiTypeOK'
    BY <1>0, <1>1, <1>2, <1>3 DEF ApiTypeOK
  <2>2. ASSUME NEW n \in 1..Len(tokens')
        PROVE  tokens'[n].ts + Life <= tokens'[n].promise.s
    <3>1. n \in 1..Len(tokens) \/ n = Len(tokens) + 1
      BY <1>3
    <3> QED BY <1>1, <1>3, <3>1 DEF ApiInv, PromisesKept
  <2> QED BY <2>1, <2>2 DEF PromisesKept
<1>5. ASSUME NEW q \in Requests PROVE RequestOK(req[q])'
  <2>1. RequestOK(req[q]) /\ req[q] \in ReqRec /\ req[q].cred.tok \in Int
    BY DEF ApiInv, ApiTypeOK, ReqRec, Creds
  <2>2. req'[q].cred = req[q].cred /\ (req'[q] = req[q] \/ req'[q] = x)
    BY <1>0, <1>2 DEF ApiTypeOK
  <2> QED BY <1>1, <1>2, <1>3, <2>1, <2>2 DEF RequestOK
<1> QED BY <1>2, <1>4, <1>5 DEF ApiInv

\* Every step of a request and every tick of the clock keeps the promises.
LEMMA ApiStep ==
    ASSUME ApiInv, [ApiNext]_apiVars
    PROVE  ApiInv'
<1>1. ASSUME NEW r \in Requests, UNCHANGED <<clock, frac, tokens>>,
             NEW x \in ReqRec, req' = [req EXCEPT ![r] = x], RequestOK(x)
      PROVE  ApiInv'
  BY <1>1 DEF ApiInv, ApiTypeOK, PromisesKept, RequestOK
<1>2. CASE ApiTick
  <2>0. clock \in Nat /\ frac \in 0..Fractions-1
    BY DEF ApiInv, ApiTypeOK
  <2>1. /\ clock' \in Nat /\ clock <= clock' /\ frac' \in 0..Fractions-1
        /\ UNCHANGED <<tokens, req>>
    BY <1>2, <2>0, PipelineAssumption DEF ApiTick
  <2>2. \A r \in Requests : req[r] \in ReqRec /\ req[r].ts \in Nat
    BY DEF ApiInv, ApiTypeOK, ReqRec
  <2> QED BY <2>0, <2>1, <2>2 DEF ApiInv, ApiTypeOK, PromisesKept, RequestOK
<1>3. CASE UNCHANGED apiVars
  BY <1>3 DEF apiVars, time, ApiInv, ApiTypeOK, PromisesKept, RequestOK
<1> QED BY <1>1, <1>2, <1>3, RequestStep, HandOutStep DEF ApiNext

\* A second after the lifetime of its stamp, a token may be refused.
LEMMA LateIsInTime ==
    ASSUME NEW t, t.ts \in Nat, t.promise.s \in Nat, clock \in Nat, Life \in Nat,
           t.ts + Life < clock
    PROVE  RefusedInTime(t)
BY DEF RefusedInTime, Earlier, Now

\* A token is refused as expired only when its time is over, and it passes the
\* middleware no later than in the second of its expires_at: for any lifetime,
\* any resolution of the clock, and any number of requests and tokens.
THEOREM ExpiryPromised == ApiSpec => ExpiryAsPromised
<1>1. ApiInit => ApiInv
  <2> SUFFICES ASSUME ApiInit PROVE ApiInv OBVIOUS
  <2>1. Fresh \in ReqRec /\ Fresh.cred.tok = 0 /\ Fresh.at = "idle" /\ Fresh.reply.why = "none"
    <3>1. NoCred \in Creds /\ NoReply \in ReplyRec
      BY StatusGiven DEF NoCred, Creds, NoReply, ReplyRec, Reasons
    <3> QED BY <3>1, PipelineAssumption DEF Fresh, ReqRec, NoCred, NoReply, Layers, Paths
  <2> QED BY <2>1, PipelineAssumption DEF ApiInit, ApiInv, ApiTypeOK, PromisesKept, RequestOK
<1>2. ApiInv /\ [ApiNext]_apiVars => ApiInv'
  BY ApiStep
<1>3. ASSUME ApiInv, ApiNext, NEW r \in Requests
      PROVE  LET t == tokens[req[r].cred.tok] IN
             /\ (req[r].at # "replied" /\ req'[r].reply.why = "TokenExpired")
                   => RefusedInTime(t)
             /\ (/\ req[r].at = "auth" /\ req'[r].at = "size"
                 /\ req[r].cred.kind = "token" /\ ~IsPublicEndpoint(req[r].path))
                   => clock <= t.promise.s
  <2> DEFINE t == tokens[req[r].cred.tok]
  <2>0. /\ req \in [Requests -> ReqRec] /\ RequestOK(req[r]) /\ req[r].cred \in Creds
        /\ clock \in Nat /\ frac \in 0..Fractions-1 /\ Life \in Nat /\ Fractions \in Nat
    BY <1>3, PipelineAssumption DEF ApiInv, ApiTypeOK, ReqRec
  <2>1. req' = req \/ \E q \in Requests, x \in ReqRec :
           /\ req' = [req EXCEPT ![q] = x]
           /\ \/ x.reply.why = "none" /\ x.at = "replied"
              \/ Justified(q, x) /\ Passes(q, x)
    BY <1>3, RequestStep, HandOutStep DEF ApiNext, ApiTick
  <2>2. ASSUME req[r].cred.tok \in 1..MaxTokens
        PROVE  /\ t.ts \in Nat /\ t.tf \in 0..Fractions-1
               /\ t.promise.s \in Nat /\ t.promise.f \in 0..Fractions-1
               /\ t.ts + Life <= t.promise.s
    <3>1. req[r].cred.tok \in 1..Len(tokens)
      BY <1>3, <2>0, <2>2, PipelineAssumption DEF ApiInv, ApiTypeOK, RequestOK
    <3>2. t \in TokenRec /\ t.ts + Life <= t.promise.s
      BY <1>3, <3>1 DEF ApiInv, ApiTypeOK, PromisesKept
    <3> QED BY <3>2 DEF TokenRec
  <2>3. ASSUME req[r].at # "replied", req'[r].reply.why = "TokenExpired"
        PROVE  RefusedInTime(t)
    <3>1. PICK dev \in BOOLEAN : Authenticate(req[r].cred, dev) = "TokenExpired"
      BY <2>0, <2>1, <2>3 DEF RequestOK, Justified
    <3>2. req[r].cred.tok \in 1..MaxTokens /\ Expired(t.ts)
      BY <2>0, <3>1, AuthenticateSays
    <3>3. t.ts + Life < clock
      BY <2>0, <2>2, <3>2 DEF Expired
    <3> QED BY <2>0, <2>2, <3>2, <3>3, LateIsInTime
  <2>4. ASSUME req[r].at = "auth", req'[r].at = "size",
               req[r].cred.kind = "token", ~IsPublicEndpoint(req[r].path)
        PROVE  clock <= t.promise.s
    <3>1. Authenticate(req[r].cred, DevMode) = "ok"
      BY <2>0, <2>1, <2>4 DEF Passes
    <3>2. req[r].cred.tok \in 1..MaxTokens /\ ~Expired(t.ts)
      BY <2>0, <2>4, <3>1, AuthenticateSays, PipelineAssumption
    <3> QED BY <2>0, <2>2, <3>2 DEF Expired
  <2> QED BY <2>3, <2>4
<1>4. ApiInv /\ [ApiNext]_apiVars =>
        [\A r \in Requests :
          LET t == tokens[req[r].cred.tok] IN
          /\ (req[r].at # "replied" /\ req'[r].reply.why = "TokenExpired")
                => RefusedInTime(t)
          /\ (/\ req[r].at = "auth" /\ req'[r].at = "size"
              /\ req[r].cred.kind = "token" /\ ~IsPublicEndpoint(req[r].path))
                => clock <= t.promise.s]_apiVars
  BY <1>3
<1> QED BY <1>1, <1>2, <1>4, PTL DEF ApiSpec, ExpiryAsPromised

-----------------------------------------------------------------------------
(* The rate limit by address.  A block is lost only when clean-up forgets   *)
(* the address, and clean-up counts from the start of the window: the       *)
(* invariant ties the window's age to the time since the block.             *)

\* Admissions, as functions from finitely many numbers to ages under a minute.
Admissions == UNION {[S -> 0..Minute-1] : S \in {T \in SUBSET Nat : IsFiniteSet(T)}}

\* What it is to be a record of admissions.
LEMMA AdmissionFacts ==
    ASSUME NEW f
    PROVE  f \in Admissions <=> /\ f \in [DOMAIN f -> 0..Minute-1]
                                /\ DOMAIN f \subseteq Nat /\ IsFiniteSet(DOMAIN f)
BY DEF Admissions

\* Before the first one.
LEMMA NoneFacts == NoneAdmitted \in Admissions /\ DOMAIN NoneAdmitted = {}
<1>1. DOMAIN NoneAdmitted = {} /\ NoneAdmitted \in [DOMAIN NoneAdmitted -> 0..Minute-1]
  BY DEF NoneAdmitted
<1> QED BY <1>1, AdmissionFacts, FS_EmptySet

\* One more gets a number that was free: among the first numbers, one more than
\* there are admissions, there is one.
LEMMA OneMoreFacts ==
    ASSUME NEW f \in Admissions
    PROVE  /\ OneMore(f) \in Admissions
           /\ \E new : /\ new \notin DOMAIN f /\ DOMAIN OneMore(f) = DOMAIN f \cup {new}
                       /\ \A n \in DOMAIN f : OneMore(f)[n] = f[n]
<1> DEFINE D == DOMAIN f
           new == CHOOSE n \in 0..Cardinality(D) : n \notin D
<1>1. f \in [D -> 0..Minute-1] /\ D \subseteq Nat /\ IsFiniteSet(D) /\ Cardinality(D) \in Nat
  BY AdmissionFacts, FS_CardinalityType
<1> HIDE DEF D
<1>2. \E n \in 0..Cardinality(D) : n \notin D
  <2> SUFFICES ASSUME 0..Cardinality(D) \subseteq D PROVE FALSE OBVIOUS
  <2>1. Cardinality(0..Cardinality(D)) <= Cardinality(D)
    BY <1>1, FS_Subset
  <2>2. Cardinality(0..Cardinality(D)) = Cardinality(D) + 1
    BY <1>1, FS_Interval
  <2> QED BY <1>1, <2>1, <2>2
<1>3. new \in 0..Cardinality(D) /\ new \notin D
  BY <1>2
<1>4. OneMore(f) = [n \in D \cup {new} |-> IF n = new THEN 0 ELSE f[n]]
  BY DEF OneMore, D
<1> HIDE DEF new
<1>5. new \in Nat /\ 0 \in 0..Minute-1
  BY <1>1, <1>3, RateAssumption
<1>6. /\ DOMAIN OneMore(f) = D \cup {new}
      /\ OneMore(f) \in [D \cup {new} -> 0..Minute-1]
      /\ \A n \in D : OneMore(f)[n] = f[n]
  BY <1>1, <1>3, <1>4, <1>5
<1>7. IsFiniteSet(D \cup {new})
  BY <1>1, FS_AddElement
<1>8. OneMore(f) \in Admissions
  BY <1>1, <1>5, <1>6, <1>7, AdmissionFacts
<1> QED BY <1>3, <1>6, <1>8 DEF D

\* A tick later, some of them are a tick older and the rest is forgotten.
LEMMA TickLaterFacts ==
    ASSUME NEW f \in Admissions
    PROVE  /\ TickLater(f) \in Admissions /\ DOMAIN TickLater(f) \subseteq DOMAIN f
           /\ \A n \in DOMAIN TickLater(f) : TickLater(f)[n] = f[n] + 1
<1> DEFINE S == {k \in DOMAIN f : f[k] + 1 < Minute}
<1>1. f \in [DOMAIN f -> 0..Minute-1] /\ DOMAIN f \subseteq Nat /\ IsFiniteSet(DOMAIN f)
  BY AdmissionFacts
<1>2. IsFiniteSet(S) /\ S \subseteq Nat /\ S \subseteq DOMAIN f
  BY <1>1, FS_Subset
<1>3. \A n \in S : f[n] + 1 \in 0..Minute-1
  BY <1>1, RateAssumption
<1>4. TickLater(f) = [n \in S |-> f[n] + 1]
  BY DEF TickLater
<1> HIDE DEF S
<1>5. /\ DOMAIN TickLater(f) = S /\ TickLater(f) \in [S -> 0..Minute-1]
      /\ \A n \in S : TickLater(f)[n] = f[n] + 1
  BY <1>3, <1>4
<1> QED BY <1>2, <1>5, AdmissionFacts

IpRec == [known : BOOLEAN, requests : Nat, age : Nat, left : Nat]

RateTypeInv ==
    /\ ipl \in [Ips -> IpRec] /\ blockedFor \in [Ips -> Nat]
    /\ recent \in [Ips -> Admissions]

\* For all but a window of a block the address is known, its block runs, and its
\* window began at most a minute before the block.
InBlock(e, n) ==
    n < Block - Minute => e.known /\ e.left >= Block - n /\ e.age <= Minute + n

RateInv == RateTypeInv /\ \A i \in Ips : InBlock(ipl[i], blockedFor[i])

\* What check_ip_rate_limit makes of an entry: it admits only outside a block, and
\* a block it begins finds the window at most a minute old.
LEMMA CheckIpVerdict ==
    ASSUME RateTypeInv, NEW i \in Ips
    PROVE  /\ CheckIp(i).e \in IpRec
           /\ CheckIp(i).ok => ipl[i].left = 0 \/ ~ipl[i].known
           /\ CheckIp(i).new => InBlock(CheckIp(i).e, 0)
           /\ ~CheckIp(i).ok /\ ~CheckIp(i).new => CheckIp(i).e = Entry(i)
           /\ CheckIp(i).ok \in BOOLEAN /\ CheckIp(i).new \in BOOLEAN
           /\ CheckIp(i).ok => ~CheckIp(i).new
           /\ CheckIp(i).new => ipl[i].left = 0 \/ ~ipl[i].known
<1> DEFINE e == Entry(i)  w == WindowReset(e)
<1>1. /\ e \in IpRec /\ (e = ipl[i] \/ ~ipl[i].known) /\ (ipl[i].known => e = ipl[i])
      /\ e.known
  BY DEF RateTypeInv, Entry, IpRec, NoIp
<1> HIDE DEF e
<1>2. w \in IpRec /\ w.age <= Minute /\ w.known
  <2>1. e.age \in Nat /\ Minute \in Nat /\ 0 <= Minute
    BY <1>1, RateAssumption DEF IpRec
  <2>2. CASE e.age > Minute
    <3>1. w = [e EXCEPT !.requests = 0, !.age = 0]
      BY <2>2 DEF WindowReset
    <3> HIDE DEF w
    <3> QED BY <1>1, <2>1, <3>1 DEF IpRec
  <2>3. CASE ~(e.age > Minute)
    <3>1. w = e
      BY <2>3 DEF WindowReset
    <3> QED BY <1>1, <2>1, <2>3, <3>1
  <2> QED BY <2>2, <2>3
<1> HIDE DEF w
<1>3. CASE e.left > 0
  <2>1. CheckIp(i) = [ok |-> FALSE, e |-> e, new |-> FALSE]
    BY <1>3 DEF CheckIp, e
  <2> QED BY <2>1, <1>1 DEF e
<1>4. CASE ~(e.left > 0) /\ w.requests >= IpMax
  <2> DEFINE x == [w EXCEPT !.left = Block]
  <2>1. CheckIp(i) = [ok |-> FALSE, e |-> x, new |-> TRUE]
    BY <1>4 DEF CheckIp, e, w
  <2>2. x \in IpRec /\ x.known /\ x.left = Block /\ x.age = w.age
    BY <1>2, RateAssumption DEF IpRec
  <2>3. e.left = 0
    BY <1>1, <1>4 DEF IpRec
  <2>4. InBlock(x, 0)
    <3> HIDE DEF x
    <3> QED BY <1>2, <2>2, RateAssumption DEF InBlock, IpRec
  <2> HIDE DEF x
  <2> QED BY <1>1, <2>1, <2>2, <2>3, <2>4
<1>5. CASE ~(e.left > 0) /\ ~(w.requests >= IpMax)
  <2> DEFINE x == [w EXCEPT !.requests = @ + 1]
  <2>1. CheckIp(i) = [ok |-> TRUE, e |-> x, new |-> FALSE]
    BY <1>5 DEF CheckIp, e, w
  <2>2. x \in IpRec
    BY <1>2 DEF IpRec
  <2>3. e.left = 0
    BY <1>1, <1>5 DEF IpRec
  <2> HIDE DEF x
  <2> QED BY <1>1, <2>1, <2>2, <2>3
<1> QED BY <1>3, <1>4, <1>5

\* Where an address is kept at least as long as a block lasts, no request, no
\* clean-up and no tick cuts a block short by more than a window.
LEMMA RateStep ==
    ASSUME Block <= Keep, RateInv, [RateNext]_rateVars
    PROVE  RateInv'
<1>0. /\ RateTypeInv
      /\ \A i \in Ips : /\ InBlock(ipl[i], blockedFor[i]) /\ ipl[i] \in IpRec
                        /\ blockedFor[i] \in Nat
  BY DEF RateInv, RateTypeInv
<1>1. ASSUME NEW i \in Ips, NEW x \in Tokens, NEW k \in Kinds, RateLimitMiddleware(i, x, k)
      PROVE  RateInv'
  <2> DEFINE ip == CheckIp(i)
  <2>1. /\ ipl' = [ipl EXCEPT ![i] = ip.e]
        /\ blockedFor' = IF ip.new THEN [blockedFor EXCEPT ![i] = 0] ELSE blockedFor
        /\ recent' = IF ip.ok THEN [recent EXCEPT ![i] = OneMore(@)] ELSE recent
    BY <1>1 DEF RateLimitMiddleware
  <2>2. /\ ip.e \in IpRec /\ (ip.new => InBlock(ip.e, 0))
        /\ ip.ok => ipl[i].left = 0 \/ ~ipl[i].known
        /\ ~ip.ok /\ ~ip.new => ip.e = Entry(i)
        /\ ip.ok \in BOOLEAN /\ ip.new \in BOOLEAN /\ (ip.ok => ~ip.new)
    BY <1>0, CheckIpVerdict
  <2>3. recent' \in [Ips -> Admissions]
    <3>1. recent \in [Ips -> Admissions] /\ OneMore(recent[i]) \in Admissions
      BY <1>0, OneMoreFacts DEF RateTypeInv
    <3> HIDE DEF ip
    <3> QED BY <2>1, <2>2, <3>1
  <2>4. ~ip.new => InBlock(ip.e, blockedFor[i])
    <3>1. CASE ip.ok
      <4>1. ~(blockedFor[i] < Block - Minute)
        BY <1>0, <2>2, <3>1, RateAssumption DEF InBlock, IpRec
      <4> QED BY <4>1 DEF InBlock
    <3>2. CASE ~ip.ok
      <4>1. ~ip.new => ip.e = Entry(i)
        BY <2>2, <3>2
      <4>2. blockedFor[i] < Block - Minute => Entry(i) = ipl[i]
        BY <1>0 DEF InBlock, Entry
      <4> QED BY <1>0, <4>1, <4>2 DEF InBlock
    <3> QED BY <3>1, <3>2
  <2> HIDE DEF ip
  <2> QED BY <1>0, <2>1, <2>2, <2>3, <2>4 DEF RateInv, RateTypeInv
<1>2. CASE CleanupOldEntries
  <2>1. /\ ipl' = [i \in Ips |-> IF Forgotten(ipl[i]) THEN NoIp ELSE ipl[i]]
        /\ UNCHANGED <<blockedFor, recent>>
    BY <1>2 DEF CleanupOldEntries
  <2>2. NoIp \in IpRec
    BY DEF NoIp, IpRec
  <2>3. ASSUME NEW i \in Ips, Forgotten(ipl[i]) PROVE InBlock(NoIp, blockedFor[i])
    <3>1. ipl[i].age \in Nat /\ ~(ipl[i].age < Keep)
      BY <1>0, <2>3 DEF Forgotten, IpRec
    <3>2. ~(blockedFor[i] < Block - Minute)
      BY <1>0, <3>1, RateAssumption DEF InBlock
    <3> QED BY <3>2 DEF InBlock
  <2> QED BY <1>0, <2>1, <2>2, <2>3 DEF RateInv, RateTypeInv
<1>3. CASE RateTick
  <2> DEFINE older(i) == [ipl[i] EXCEPT !.age = Aged(@), !.left = Less(@)]
             later(i) == IF blockedFor[i] < Block THEN blockedFor[i] + 1 ELSE Block
  <2>1. /\ ipl' = [i \in Ips |-> IF ipl[i].known THEN older(i) ELSE NoIp]
        /\ blockedFor' = [i \in Ips |-> later(i)]
        /\ recent' = [i \in Ips |-> TickLater(recent[i])]
    BY <1>3 DEF RateTick
  <2>2. NoIp \in IpRec
    BY DEF NoIp, IpRec
  <2>3. \A i \in Ips : TickLater(recent[i]) \in Admissions
    BY <1>0, TickLaterFacts DEF RateTypeInv
  <2>4. ASSUME NEW i \in Ips
        PROVE  /\ later(i) \in Nat /\ older(i) \in IpRec
               /\ later(i) < Block - Minute => ipl[i].known
               /\ InBlock(older(i), later(i))
    <3>1. /\ ipl[i] \in IpRec /\ ipl[i].age \in Nat /\ ipl[i].left \in Nat
          /\ blockedFor[i] \in Nat /\ InBlock(ipl[i], blockedFor[i])
      BY <1>0 DEF IpRec
    <3>2. /\ Aged(ipl[i].age) \in Nat /\ Less(ipl[i].left) \in Nat
          /\ Aged(ipl[i].age) <= ipl[i].age + 1 /\ Less(ipl[i].left) >= ipl[i].left - 1
      BY <3>1, RateAssumption DEF Aged, AgeCap, Less
    <3>3. /\ older(i) \in IpRec /\ older(i).age = Aged(ipl[i].age)
          /\ older(i).left = Less(ipl[i].left) /\ older(i).known = ipl[i].known
      BY <3>1, <3>2 DEF IpRec
    <3>4. later(i) \in Nat
      BY <3>1, RateAssumption
    <3>5. ASSUME later(i) < Block - Minute
          PROVE  later(i) = blockedFor[i] + 1 /\ blockedFor[i] < Block - Minute
      BY <3>1, <3>5, RateAssumption
    <3> HIDE DEF older, later
    <3>6. later(i) < Block - Minute => ipl[i].known
      BY <3>1, <3>5 DEF InBlock
    <3>7. InBlock(older(i), later(i))
      <4> SUFFICES ASSUME later(i) < Block - Minute
                   PROVE  /\ older(i).known /\ older(i).left >= Block - later(i)
                          /\ older(i).age <= Minute + later(i)
        BY DEF InBlock
      <4>1. /\ ipl[i].known /\ ipl[i].left >= Block - blockedFor[i]
            /\ ipl[i].age <= Minute + blockedFor[i]
        BY <3>1, <3>5 DEF InBlock
      <4> QED BY <3>1, <3>2, <3>3, <3>5, <4>1, RateAssumption
    <3> QED BY <3>3, <3>4, <3>6, <3>7
  <2>5. \A i \in Ips : ~ipl[i].known => InBlock(NoIp, later(i))
    BY <2>4 DEF InBlock
  <2> HIDE DEF older, later
  <2>6. RateTypeInv'
    BY <2>1, <2>2, <2>3, <2>4 DEF RateTypeInv
  <2>7. \A i \in Ips : InBlock(ipl[i], blockedFor[i])'
    <3> SUFFICES ASSUME NEW i \in Ips PROVE InBlock(ipl'[i], blockedFor'[i])
      BY DEF InBlock
    <3> QED BY <2>1, <2>4, <2>5
  <2> QED BY <2>6, <2>7 DEF RateInv
<1>4. CASE UNCHANGED <<ipl, blockedFor, recent>>
  BY <1>4 DEF RateInv, RateTypeInv, InBlock
<1> QED BY <1>1, <1>2, <1>3, <1>4
        DEF RateNext, rateVars, SetUserTier, AddBypassToken, RemoveBypassToken, UpdateSystemLoad

\* A blocked address is not let in before all but a window of its block is over,
\* wherever cleanup_old_entries keeps an address at least as long as a block
\* lasts; the configured default has both at an hour.
THEOREM BlocksHold ==
    ASSUME Block <= Keep
    PROVE  RateSpec => BlockHolds
<1>1. RateInit => RateInv
  BY RateAssumption, NoneFacts DEF RateInit, RateInv, RateTypeInv, IpRec, NoIp, InBlock
<1>2. RateInv /\ [RateNext]_rateVars => RateInv'
  BY RateStep
<1>3. RateInv /\ [RateNext]_rateVars =>
        [\A i \in Ips : DOMAIN recent'[i] \subseteq DOMAIN recent[i]
                           \/ blockedFor[i] >= Block - Minute]_rateVars
  <2> SUFFICES ASSUME RateInv, RateNext, NEW i \in Ips,
                      ~(DOMAIN recent'[i] \subseteq DOMAIN recent[i])
               PROVE  blockedFor[i] >= Block - Minute
    OBVIOUS
  <2>0. /\ recent \in [Ips -> Admissions]
        /\ ipl[i] \in IpRec /\ blockedFor[i] \in Nat
        /\ RateTypeInv /\ InBlock(ipl[i], blockedFor[i])
    BY DEF RateInv, RateTypeInv
  <2>1. recent' # recent
    OBVIOUS
  <2>2. ~RateTick
    <3> SUFFICES ASSUME RateTick PROVE FALSE OBVIOUS
    <3>1. recent'[i] = TickLater(recent[i]) /\ recent[i] \in Admissions
      BY <2>0 DEF RateTick
    <3> QED BY <3>1, TickLaterFacts
  <2>3. PICK j \in Ips, x \in Tokens, k \in Kinds : RateLimitMiddleware(j, x, k)
    BY <2>1, <2>2 DEF RateNext, SetUserTier, AddBypassToken, RemoveBypassToken,
                      UpdateSystemLoad, CleanupOldEntries
  <2>4. /\ CheckIp(j).ok \in BOOLEAN
        /\ recent' = IF CheckIp(j).ok THEN [recent EXCEPT ![j] = OneMore(@)] ELSE recent
    BY <2>0, <2>3, CheckIpVerdict DEF RateLimitMiddleware
  <2>5. CheckIp(j).ok /\ recent' = [recent EXCEPT ![j] = OneMore(@)]
    BY <2>1, <2>4
  <2>6. j = i
    BY <2>0, <2>5
  <2>7. ipl[i].left = 0 \/ ~ipl[i].known
    BY <2>0, <2>5, <2>6, CheckIpVerdict
  <2> QED BY <2>0, <2>7, RateAssumption DEF InBlock, IpRec
<1> QED BY <1>1, <1>2, <1>3, PTL DEF RateSpec, BlockHolds

-----------------------------------------------------------------------------
(* The admissions of a minute.  Those counted by the window that runs are at *)
(* most its requests; the others belong to the window before it, and are     *)
(* at least as old as this one.  A window ends only when it is older than a  *)
(* minute, when nothing of the one before it is left.                        *)

TwoWindows(r, a, f) ==
    /\ r <= IpMax
    /\ \E old \in SUBSET DOMAIN f :
          /\ Cardinality(old) <= IpMax /\ Cardinality(DOMAIN f \ old) <= r
          /\ \A n \in old : f[n] >= a

WindowInv ==
    /\ RateTypeInv
    /\ \A i \in Ips : /\ TwoWindows(ipl[i].requests, ipl[i].age, recent[i])
                      /\ ~ipl[i].known => ipl[i].requests = 0 /\ ipl[i].age = 0

\* The parts of a record of admissions are finite.
LEMMA PartsFinite ==
    ASSUME NEW f \in Admissions, NEW S \in SUBSET DOMAIN f
    PROVE  /\ IsFiniteSet(S) /\ Cardinality(S) \in Nat
           /\ \A T \in SUBSET S : IsFiniteSet(T) /\ Cardinality(T) \in Nat /\ Cardinality(T) <= Cardinality(S)
<1>1. IsFiniteSet(DOMAIN f)
  BY AdmissionFacts
<1>2. IsFiniteSet(S)
  BY <1>1, FS_Subset
<1> QED BY <1>2, FS_Subset, FS_CardinalityType

\* A window that is a minute old holds every admission of the minute, so that it
\* may end: they become the admissions of the window before.
LEMMA WindowEnds ==
    ASSUME NEW f \in Admissions, NEW r \in Nat, NEW a \in Nat, a >= Minute, TwoWindows(r, a, f)
    PROVE  TwoWindows(0, 0, f)
<1>1. PICK old \in SUBSET DOMAIN f :
         Cardinality(DOMAIN f \ old) <= r /\ \A n \in old : f[n] >= a
  BY DEF TwoWindows
<1>2. f \in [DOMAIN f -> 0..Minute-1] /\ Minute \in Nat
  BY AdmissionFacts, RateAssumption
<1>3. old = {}
  BY <1>1, <1>2
<1>4. Cardinality(DOMAIN f) <= r /\ Cardinality(DOMAIN f) \in Nat /\ r <= IpMax /\ IpMax \in Nat
  BY <1>1, <1>3, PartsFinite, RateAssumption DEF TwoWindows
<1>5. Cardinality(DOMAIN f) <= IpMax /\ Cardinality(DOMAIN f \ DOMAIN f) <= 0
  <2>1. DOMAIN f \ DOMAIN f = {}
    OBVIOUS
  <2> QED BY <1>4, <2>1, FS_EmptySet
<1>6. \A n \in DOMAIN f : f[n] >= 0
  BY <1>2
<1>7. DOMAIN f \in SUBSET DOMAIN f /\ 0 <= IpMax
  BY <1>4
<1> QED BY <1>5, <1>6, <1>7 DEF TwoWindows

\* One more admission is counted by the window that runs.
LEMMA WindowCounts ==
    ASSUME NEW f \in Admissions, NEW r \in Nat, NEW a \in Nat, r < IpMax, TwoWindows(r, a, f)
    PROVE  TwoWindows(r + 1, a, OneMore(f))
<1>1. PICK old \in SUBSET DOMAIN f :
         /\ Cardinality(old) <= IpMax /\ Cardinality(DOMAIN f \ old) <= r
         /\ \A n \in old : f[n] >= a
  BY DEF TwoWindows
<1>2. PICK new : /\ new \notin DOMAIN f /\ DOMAIN OneMore(f) = DOMAIN f \cup {new}
                 /\ \A n \in DOMAIN f : OneMore(f)[n] = f[n]
  BY OneMoreFacts
<1>3. IsFiniteSet(DOMAIN f \ old) /\ Cardinality(DOMAIN f \ old) \in Nat
  BY PartsFinite
<1>4. DOMAIN OneMore(f) \ old = (DOMAIN f \ old) \cup {new} /\ old \in SUBSET DOMAIN OneMore(f)
  BY <1>2
<1>5. Cardinality(DOMAIN OneMore(f) \ old) = Cardinality(DOMAIN f \ old) + 1
  BY <1>2, <1>3, <1>4, FS_AddElement
<1>6. Cardinality(DOMAIN OneMore(f) \ old) <= r + 1 /\ r + 1 <= IpMax
  BY <1>1, <1>3, <1>5, RateAssumption
<1>7. \A n \in old : OneMore(f)[n] >= a
  BY <1>1, <1>2
<1> QED BY <1>1, <1>4, <1>6, <1>7 DEF TwoWindows

\* A tick later the admissions are as much older as the window, and not more.
LEMMA WindowAges ==
    ASSUME NEW f \in Admissions, NEW r \in Nat, NEW a \in Nat, NEW b \in Nat, b <= a + 1,
           TwoWindows(r, a, f)
    PROVE  TwoWindows(r, b, TickLater(f))
<1>1. PICK old \in SUBSET DOMAIN f :
         /\ Cardinality(old) <= IpMax /\ Cardinality(DOMAIN f \ old) <= r
         /\ \A n \in old : f[n] >= a
  BY DEF TwoWindows
<1> DEFINE D == DOMAIN TickLater(f)
<1>2. D \subseteq DOMAIN f /\ \A n \in D : TickLater(f)[n] = f[n] + 1
  BY TickLaterFacts
<1>3. f \in [DOMAIN f -> 0..Minute-1] /\ IpMax \in Nat
  BY AdmissionFacts, RateAssumption
<1>4. old \cap D \in SUBSET old /\ D \ (old \cap D) \in SUBSET (DOMAIN f \ old)
  BY <1>2
<1>5. /\ Cardinality(old \cap D) <= Cardinality(old) /\ Cardinality(old \cap D) \in Nat
      /\ Cardinality(old) \in Nat
  BY <1>4, PartsFinite
<1>6. /\ Cardinality(D \ (old \cap D)) <= Cardinality(DOMAIN f \ old)
      /\ Cardinality(D \ (old \cap D)) \in Nat /\ Cardinality(DOMAIN f \ old) \in Nat
  BY <1>4, PartsFinite
<1>7. \A n \in old \cap D : TickLater(f)[n] >= b
  <2> TAKE n \in old \cap D
  <2>1. f[n] \in 0..Minute-1 /\ f[n] >= a /\ TickLater(f)[n] = f[n] + 1
    BY <1>1, <1>2, <1>3
  <2> QED BY <2>1, RateAssumption
<1>8. Cardinality(old \cap D) <= IpMax /\ Cardinality(D \ (old \cap D)) <= r
  BY <1>1, <1>3, <1>5, <1>6
<1>9. old \cap D \in SUBSET DOMAIN TickLater(f) /\ r <= IpMax
  BY DEF TwoWindows
<1> QED BY <1>7, <1>8, <1>9 DEF TwoWindows

\* A request: what check_ip_rate_limit makes of the window and of the admissions.
LEMMA WindowOfRequest ==
    ASSUME WindowInv, NEW i \in Ips
    PROVE  /\ CheckIp(i).e.known
           /\ TwoWindows(CheckIp(i).e.requests, CheckIp(i).e.age,
                         IF CheckIp(i).ok THEN OneMore(recent[i]) ELSE recent[i])
<1> DEFINE e == Entry(i)  w == WindowReset(e)  f == recent[i]
<1>1. /\ e \in IpRec /\ e.known /\ e.requests \in Nat /\ e.age \in Nat
      /\ e.requests = ipl[i].requests /\ e.age = ipl[i].age /\ f \in Admissions
  BY DEF WindowInv, RateTypeInv, Entry, IpRec, NoIp
<1>2. TwoWindows(e.requests, e.age, f)
  BY <1>1 DEF WindowInv
<1> HIDE DEF e, f
<1>3. w \in IpRec /\ w.known /\ TwoWindows(w.requests, w.age, f) /\ w.requests \in Nat /\ w.age \in Nat
  <2>1. CASE e.age > Minute
    <3>1. w = [e EXCEPT !.requests = 0, !.age = 0]
      BY <2>1 DEF WindowReset
    <3>2. w \in IpRec /\ w.known /\ w.requests = 0 /\ w.age = 0
      <4> HIDE DEF w
      <4> QED BY <1>1, <3>1 DEF IpRec
    <3>3. TwoWindows(0, 0, f)
      BY <1>1, <1>2, <2>1, WindowEnds, RateAssumption
    <3> HIDE DEF w
    <3> QED BY <3>2, <3>3
  <2>2. CASE ~(e.age > Minute)
    <3>1. w = e
      BY <2>2 DEF WindowReset
    <3> QED BY <1>1, <1>2, <3>1
  <2> QED BY <2>1, <2>2
<1> HIDE DEF w
<1>4. CASE e.left > 0
  <2>1. CheckIp(i) = [ok |-> FALSE, e |-> e, new |-> FALSE]
    BY <1>4 DEF CheckIp, e
  <2> QED BY <1>1, <1>2, <2>1 DEF f
<1>5. CASE ~(e.left > 0) /\ w.requests >= IpMax
  <2> DEFINE x == [w EXCEPT !.left = Block]
  <2>1. CheckIp(i) = [ok |-> FALSE, e |-> x, new |-> TRUE]
    BY <1>5 DEF CheckIp, e, w
  <2>2. x.known /\ x.requests = w.requests /\ x.age = w.age
    BY <1>3 DEF IpRec
  <2> HIDE DEF x
  <2> QED BY <1>3, <2>1, <2>2 DEF f
<1>6. CASE ~(e.left > 0) /\ ~(w.requests >= IpMax)
  <2> DEFINE x == [w EXCEPT !.requests = @ + 1]
  <2>1. CheckIp(i) = [ok |-> TRUE, e |-> x, new |-> FALSE]
    BY <1>6 DEF CheckIp, e, w
  <2>2. x.known /\ x.requests = w.requests + 1 /\ x.age = w.age
    BY <1>3 DEF IpRec
  <2>3. TwoWindows(w.requests + 1, w.age, OneMore(f))
    BY <1>1, <1>3, <1>6, WindowCounts, RateAssumption
  <2> HIDE DEF x
  <2> QED BY <2>1, <2>2, <2>3 DEF f
<1> QED BY <1>4, <1>5, <1>6

\* No request, clean-up or tick makes a third window of a minute's admissions.
LEMMA WindowStep ==
    ASSUME WindowInv, [RateNext]_rateVars
    PROVE  WindowInv'
<1>0. /\ RateTypeInv /\ recent \in [Ips -> Admissions] /\ ipl \in [Ips -> IpRec]
      /\ blockedFor \in [Ips -> Nat]
      /\ \A i \in Ips : /\ ipl[i] \in IpRec /\ ipl[i].requests \in Nat /\ ipl[i].age \in Nat
                        /\ ipl[i].left \in Nat /\ ipl[i].known \in BOOLEAN
                        /\ TwoWindows(ipl[i].requests, ipl[i].age, recent[i])
                        /\ ~ipl[i].known => ipl[i].requests = 0 /\ ipl[i].age = 0
  BY DEF WindowInv, RateTypeInv, IpRec
<1>n. NoIp \in IpRec /\ NoIp.requests = 0 /\ NoIp.age = 0 /\ NoIp.known = FALSE
  BY DEF NoIp, IpRec
<1>1. ASSUME NEW i \in Ips, NEW x \in Tokens, NEW k \in Kinds, RateLimitMiddleware(i, x, k)
      PROVE  WindowInv'
  <2> DEFINE ip == CheckIp(i)
             f == IF ip.ok THEN OneMore(recent[i]) ELSE recent[i]
  <2>1. /\ ipl' = [ipl EXCEPT ![i] = ip.e]
        /\ blockedFor' = IF ip.new THEN [blockedFor EXCEPT ![i] = 0] ELSE blockedFor
        /\ recent' = IF ip.ok THEN [recent EXCEPT ![i] = OneMore(@)] ELSE recent
    BY <1>1 DEF RateLimitMiddleware
  <2>2. ip.e \in IpRec /\ ip.e.known /\ TwoWindows(ip.e.requests, ip.e.age, f)
    BY <1>0, CheckIpVerdict, WindowOfRequest
  <2>3. OneMore(recent[i]) \in Admissions
    BY <1>0, OneMoreFacts
  <2> HIDE DEF ip
  <2>4. recent' = [recent EXCEPT ![i] = f] /\ f \in Admissions
    BY <1>0, <2>1, <2>3
  <2> HIDE DEF f
  <2>5. ipl' \in [Ips -> IpRec] /\ blockedFor' \in [Ips -> Nat] /\ recent' \in [Ips -> Admissions]
    BY <1>0, <2>1, <2>2, <2>4
  <2>6. ASSUME NEW j \in Ips
        PROVE  /\ TwoWindows(ipl'[j].requests, ipl'[j].age, recent'[j])
               /\ ~ipl'[j].known => ipl'[j].requests = 0 /\ ipl'[j].age = 0
    <3>1. CASE j = i
      <4>1. ipl'[j] = ip.e /\ recent'[j] = f
        BY <1>0, <2>1, <2>4, <3>1
      <4> QED BY <2>2, <4>1
    <3>2. CASE j # i
      <4>1. ipl'[j] = ipl[j] /\ recent'[j] = recent[j]
        BY <1>0, <2>1, <2>4, <3>2
      <4> QED BY <1>0, <4>1
    <3> QED BY <3>1, <3>2
  <2> QED BY <2>5, <2>6 DEF WindowInv, RateTypeInv
<1>2. CASE CleanupOldEntries
  <2>1. /\ ipl' = [i \in Ips |-> IF Forgotten(ipl[i]) THEN NoIp ELSE ipl[i]]
        /\ UNCHANGED <<blockedFor, recent>>
    BY <1>2 DEF CleanupOldEntries
  <2>2. ASSUME NEW i \in Ips, Forgotten(ipl[i]) PROVE TwoWindows(0, 0, recent[i])
    <3>1. ipl[i].age >= Minute
      BY <1>0, <2>2, RateAssumption DEF Forgotten
    <3> QED BY <1>0, <3>1, WindowEnds
  <2>3. ASSUME NEW i \in Ips
        PROVE  /\ ipl'[i] \in IpRec /\ TwoWindows(ipl'[i].requests, ipl'[i].age, recent[i])
               /\ ~ipl'[i].known => ipl'[i].requests = 0 /\ ipl'[i].age = 0
    <3>1. CASE Forgotten(ipl[i])
      <4>1. ipl'[i] = NoIp
        BY <2>1, <3>1
      <4> QED BY <1>n, <2>2, <3>1, <4>1
    <3>2. CASE ~Forgotten(ipl[i])
      <4>1. ipl'[i] = ipl[i]
        BY <2>1, <3>2
      <4> QED BY <1>0, <4>1
    <3> QED BY <3>1, <3>2
  <2>4. ipl' \in [Ips -> IpRec]
    BY <1>0, <1>n, <2>1
  <2> QED BY <1>0, <2>1, <2>3, <2>4 DEF WindowInv, RateTypeInv
<1>3. CASE RateTick
  <2> DEFINE older(i) == [ipl[i] EXCEPT !.age = Aged(@), !.left = Less(@)]
             later(i) == IF blockedFor[i] < Block THEN blockedFor[i] + 1 ELSE Block
  <2>1. /\ ipl' = [i \in Ips |-> IF ipl[i].known THEN older(i) ELSE NoIp]
        /\ blockedFor' = [i \in Ips |-> later(i)]
        /\ recent' = [i \in Ips |-> TickLater(recent[i])]
    BY <1>3 DEF RateTick
  <2>2. ASSUME NEW i \in Ips
        PROVE  /\ older(i) \in IpRec /\ older(i).requests = ipl[i].requests
               /\ older(i).age = Aged(ipl[i].age) /\ older(i).known = ipl[i].known
               /\ Aged(ipl[i].age) \in Nat /\ Aged(ipl[i].age) <= ipl[i].age + 1
               /\ later(i) \in Nat
    <3>1. /\ Aged(ipl[i].age) \in Nat /\ Less(ipl[i].left) \in Nat /\ later(i) \in Nat
          /\ Aged(ipl[i].age) <= ipl[i].age + 1
      BY <1>0, RateAssumption DEF Aged, AgeCap, Less
    <3> QED BY <1>0, <3>1 DEF IpRec
  <2> HIDE DEF older, later
  <2>3. /\ ipl' \in [Ips -> IpRec] /\ blockedFor' \in [Ips -> Nat]
        /\ recent' \in [Ips -> Admissions]
    BY <1>0, <1>n, <2>1, <2>2, TickLaterFacts
  <2>4. ASSUME NEW i \in Ips
        PROVE  /\ TwoWindows(ipl'[i].requests, ipl'[i].age, recent'[i])
               /\ ~ipl'[i].known => ipl'[i].requests = 0 /\ ipl'[i].age = 0
    <3>0. recent'[i] = TickLater(recent[i]) /\ recent[i] \in Admissions
      BY <1>0, <2>1
    <3>1. CASE ipl[i].known
      <4>1. ipl'[i] = older(i)
        BY <2>1, <3>1
      <4>2. TwoWindows(ipl[i].requests, Aged(ipl[i].age), TickLater(recent[i]))
        BY <1>0, <2>2, <3>0, WindowAges
      <4> QED BY <2>2, <3>0, <3>1, <4>1, <4>2
    <3>2. CASE ~ipl[i].known
      <4>1. ipl'[i] = NoIp
        BY <2>1, <3>2
      <4>2. TwoWindows(0, 0, recent[i])
        BY <1>0, <3>2
      <4>3. TwoWindows(0, 0, TickLater(recent[i]))
        BY <3>0, <4>2, WindowAges
      <4> QED BY <1>n, <3>0, <4>1, <4>3
    <3> QED BY <3>1, <3>2
  <2> QED BY <2>3, <2>4 DEF WindowInv, RateTypeInv
<1>4. CASE UNCHANGED <<ipl, blockedFor, recent>>
  BY <1>4 DEF WindowInv, RateTypeInv
<1> QED BY <1>1, <1>2, <1>3, <1>4
        DEF RateNext, rateVars, SetUserTier, AddBypassToken, RemoveBypassToken, UpdateSystemLoad

\* In any minute, at most two windows' worth of requests of an address pass
\* check_ip_rate_limit, whatever blocks end and entries are forgotten meanwhile.
THEOREM RatesBounded == RateSpec => []IpRateBounded
<1>1. RateInit => WindowInv
  <2> SUFFICES ASSUME RateInit PROVE WindowInv
    OBVIOUS
  <2>1. RateTypeInv
    BY RateAssumption, NoneFacts DEF RateInit, RateTypeInv, IpRec, NoIp
  <2>2. TwoWindows(0, 0, NoneAdmitted)
    <3>1. DOMAIN NoneAdmitted \ {} = {} /\ {} \in SUBSET DOMAIN NoneAdmitted /\ Cardinality({}) = 0
      BY NoneFacts, FS_EmptySet
    <3>2. 0 <= IpMax
      BY RateAssumption
    <3>3. \A n \in {} : NoneAdmitted[n] >= 0
      OBVIOUS
    <3> QED BY <3>1, <3>2, <3>3 DEF TwoWindows
  <2>3. \A i \in Ips : ipl[i].requests = 0 /\ ipl[i].age = 0 /\ recent[i] = NoneAdmitted
    BY DEF RateInit, NoIp
  <2> QED BY <2>1, <2>2, <2>3 DEF WindowInv
<1>2. WindowInv /\ [RateNext]_rateVars => WindowInv'
  BY WindowStep
<1>3. WindowInv => IpRateBounded
  <2> SUFFICES ASSUME WindowInv, NEW i \in Ips PROVE Cardinality(DOMAIN recent[i]) <= 2 * IpMax
    BY DEF IpRateBounded
  <2>0. recent[i] \in Admissions /\ ipl[i].requests \in Nat /\ IpMax \in Nat
    BY RateAssumption DEF WindowInv, RateTypeInv, IpRec
  <2>1. PICK old \in SUBSET DOMAIN recent[i] :
           /\ Cardinality(old) <= IpMax /\ Cardinality(DOMAIN recent[i] \ old) <= ipl[i].requests
           /\ ipl[i].requests <= IpMax
    BY DEF WindowInv, TwoWindows
  <2> DEFINE new == DOMAIN recent[i] \ old
  <2>2. IsFiniteSet(old) /\ IsFiniteSet(new) /\ Cardinality(old) \in Nat /\ Cardinality(new) \in Nat
    BY <2>0, PartsFinite
  <2>3. old \cap new = {} /\ old \cup new = DOMAIN recent[i]
    OBVIOUS
  <2>4. Cardinality(old \cup new) = Cardinality(old) + Cardinality(new)
    <3> HIDE DEF new
    <3>1. Cardinality(old \cup new) = Cardinality(old) + Cardinality(new) - Cardinality(old \cap new)
      BY <2>2, FS_Union
    <3>2. Cardinality(old \cap new) = 0
      BY <2>3, FS_EmptySet
    <3> QED BY <2>2, <3>1, <3>2
  <2>5. Cardinality(new) <= ipl[i].requests
    BY <2>1
  <2>6. Cardinality(DOMAIN recent[i]) = Cardinality(old) + Cardinality(new)
    BY <2>3, <2>4
  <2> HIDE DEF new
  <2> QED BY <2>0, <2>1, <2>2, <2>5, <2>6
<1> QED BY <1>1, <1>2, <1>3, PTL DEF RateSpec

-----------------------------------------------------------------------------
(* Service plans.  Two requests that are underway together know of each     *)
(* other; what a request found free, or read as active, one statement ago   *)
(* can only have been changed by a request it met.                          *)

PlanOps == {"none", "create", "update", "delete", "get", "list", "assign", "change", "my",
            "available"}
PlanSteps == {"new", "find", "check", "write", "deactivate", "plan", "list", "replied"}
PlanReplies == {"none", "ok", "validation", "not_found", "database", "aborted", "plan_missing"}
Makers == PlanRequests \cup {Before}
PReq == [op : PlanOps, at : PlanSteps, id : PlanIds \cup {"none"}, name : Names \cup {NoName},
         user : Users \cup {"none"}, seen : SUBSET (Makers \cup PlanIds), reply : PlanReplies]
Row == [by : Makers, user : Users \cup {"none"}, plan : PlanIds, active : BOOLEAN]
PlanTypeOK ==
    /\ plans \in [PlanIds -> Names \cup {NoName}]
    /\ assigns \in SUBSET Row
    /\ hreq \in [PlanRequests -> PReq]
    /\ met \in [PlanRequests -> SUBSET PlanRequests]
    /\ namers \in [PlanIds -> SUBSET Makers]

\* Requests that are underway together have met, a request that has not started
\* has no operation and met nobody, one that is underway has not replied, and one on a given plan
\* or name carries it.
RequestsOK ==
    /\ \A r, s \in PlanRequests : (r # s /\ Underway(r) /\ Underway(s)) => s \in met[r]
    /\ \A r \in PlanRequests :
          /\ hreq[r].at = "new" => hreq[r].op = "none" /\ met[r] = {}
          /\ Underway(r) => hreq[r].reply = "none"
          /\ (Underway(r) /\ hreq[r].op \in {"update", "delete", "assign"})
                => hreq[r].id \in PlanIds
          /\ (Underway(r) /\ hreq[r].op = "create") => hreq[r].name \in Names

\* A plan that bears the name a request is about to write was named by a request
\* it met - or, for an update, its own plan was, or bears the name itself.
NameFree(r) ==
    /\ Is(r, "create", "write") =>
          \A q \in PlanIds : (Exists(q) /\ plans[q] = hreq[r].name) => met[r] \cap namers[q] # {}
    /\ Is(r, "update", "write") =>
          \A q \in PlanIds :
             (q # hreq[r].id /\ Exists(q) /\ plans[q] = hreq[r].name
                /\ Exists(hreq[r].id) /\ plans[hreq[r].id] # hreq[r].name)
             => met[r] \cap (namers[hreq[r].id] \cup namers[q]) # {}

\* An assignment that met no other one of its user has read every active row.
Alone(r) == \A s \in met[r] : hreq[s].op = "assign" => hreq[s].user # hreq[r].user
SeenAll(r) ==
    (Is(r, "assign", "deactivate") /\ Alone(r)) =>
        \A a \in assigns : (a.user = hreq[r].user /\ a.active) => a.by \in hreq[r].seen

\* Every row, ended or not, holds its plan, and a reader that has picked a row
\* still finds one for its plan.
RowsHeld ==
    /\ \A a \in assigns : Exists(a.plan)
    /\ \A r \in PlanRequests :
          Is(r, "my", "plan") => \E a \in assigns : a.plan = hreq[r].id

PlanInv ==
    /\ PlanTypeOK /\ RequestsOK /\ NamesOverlap /\ RowsHeld /\ MyPlanFound
    /\ \A r \in PlanRequests : NameFree(r) /\ SeenAll(r)

-----------------------------------------------------------------------------
(* What one statement of a request does, in four parts: to its own record,  *)
(* to the names, to the rows, and what it has learnt.                       *)

Advances(r, y) ==
    /\ Underway(r) /\ y \in PReq /\ hreq' = [hreq EXCEPT ![r] = y] /\ met' = met
    /\ y.at # "new" /\ y.reply # "plan_missing"
    /\ hreq[r].op = "assign" => y.op = "assign" /\ y.user = hreq[r].user
    /\ y.at # "replied" => /\ y.op = hreq[r].op /\ y.name = hreq[r].name
                           /\ y.user = hreq[r].user /\ y.reply = hreq[r].reply
                           /\ y.op # "my" => y.id = hreq[r].id

\* p is given the name n, which every other plan that bears it got in a race.
Renames(r, p, n) ==
    /\ plans' = [plans EXCEPT ![p] = n]
    /\ namers' = [namers EXCEPT ![p] = @ \cup {r}]
    /\ \A q \in PlanIds : (q # p /\ Exists(q) /\ plans[q] = n)
                             => met[r] \cap (namers[p] \cup namers[q]) # {}

NamesStep(r, y) ==
    \/ /\ UNCHANGED <<plans, namers>>
       /\ (y.op = "create" /\ y.at = "write") =>
             \A q \in PlanIds : Exists(q) => plans[q] # y.name
       /\ (y.op = "update" /\ y.at = "write") =>
             \/ y.name \in {NoName, plans[y.id]}
             \/ \A q \in PlanIds : q # y.id => plans[q] # y.name
    \/ y.at = "replied" /\ \E p \in PlanIds, n \in Names : Renames(r, p, n)
    \/ /\ y.at = "replied" /\ UNCHANGED namers
       /\ \E p \in PlanIds : /\ plans' = [plans EXCEPT ![p] = NoName]
                             /\ \A a \in assigns : a.plan # p

Inserts(r) ==
    assigns' = assigns \cup
        {[by |-> r, user |-> hreq[r].user, plan |-> hreq[r].id, active |-> TRUE]}

RowsStep(r, y) ==
    \/ /\ UNCHANGED assigns
       /\ (y.op = "assign" /\ y.at = "deactivate") =>
             \A a \in assigns : (a.user = y.user /\ a.active) => a.by \in y.seen
       /\ (y.op = "my" /\ y.at = "plan") => \E a \in assigns : a.plan = y.id
       /\ Is(r, "assign", "deactivate") => y.reply # "ok"
    \/ /\ Is(r, "assign", "deactivate") /\ y.at = "deactivate" /\ y.reply # "ok"
       /\ \E b \in hreq[r].seen :
             /\ assigns' = {IF a.by = b THEN [a EXCEPT !.active = FALSE] ELSE a : a \in assigns}
             /\ y.seen = hreq[r].seen \ {b}
    \/ /\ Is(r, "assign", "deactivate") /\ hreq[r].seen = {} /\ y.at = "replied"
       /\ Exists(hreq[r].id) /\ Inserts(r) /\ UNCHANGED <<plans, namers>>

PlanStatement(r) == \E y \in PReq : Advances(r, y) /\ NamesStep(r, y) /\ RowsStep(r, y)

\* A reply ends a request and keeps of it what the properties need.
LEMMA SayEnds ==
    ASSUME PlanTypeOK, NEW r \in PlanRequests, Underway(r), UNCHANGED met,
           NEW x \in PlanReplies \ {"plan_missing"}, Say(r, x)
    PROVE  \E y \in PReq : /\ Advances(r, y) /\ y.at = "replied" /\ y.reply = x
                           /\ y.op \in {"none", "assign"}
<1> DEFINE over == [NoReq EXCEPT !.at = "replied", !.reply = x]
           kept == [over EXCEPT !.op = "assign", !.user = hreq[r].user]
           y == IF hreq[r].op = "assign" THEN kept ELSE over
<1>1. hreq[r] \in PReq /\ hreq[r].user \in Users \cup {"none"}
  BY DEF PlanTypeOK, PReq
<1>2. over \in PReq /\ over.at = "replied" /\ over.reply = x /\ over.op = "none"
  BY DEF NoReq, PReq, PlanOps, PlanSteps, NoName
<1>3. /\ kept \in PReq /\ kept.at = "replied" /\ kept.reply = x /\ kept.op = "assign"
      /\ kept.user = hreq[r].user
  <2> HIDE DEF over
  <2> QED BY <1>1, <1>2 DEF PReq, PlanOps
<1>4. hreq' = [hreq EXCEPT ![r] = y]
  BY DEF Say
<1> HIDE DEF over, kept
<1>5. y \in PReq /\ Advances(r, y) /\ y.at = "replied" /\ y.reply = x /\ y.op \in {"none", "assign"}
  BY <1>2, <1>3, <1>4 DEF Advances
<1> HIDE DEF y
<1> QED BY <1>5

\* Going on to the next statement changes nothing else of a request.
LEMMA StepGoesOn ==
    ASSUME PlanTypeOK, RequestsOK, NEW r \in PlanRequests, Underway(r), UNCHANGED met,
           NEW s \in PlanSteps \ {"new", "replied"}, Step(r, s)
    PROVE  \E y \in PReq : /\ Advances(r, y) /\ y.at = s /\ y.op = hreq[r].op
                           /\ y.id = hreq[r].id /\ y.reply = "none"
<1> DEFINE y == [hreq[r] EXCEPT !.at = s]
<1>1. hreq[r] \in PReq /\ hreq[r].reply = "none"
  BY DEF PlanTypeOK, RequestsOK
<1>2. /\ y \in PReq /\ y.at = s /\ y.op = hreq[r].op /\ y.id = hreq[r].id
      /\ y.name = hreq[r].name /\ y.user = hreq[r].user /\ y.reply = hreq[r].reply
  BY <1>1 DEF PReq
<1>3. hreq' = [hreq EXCEPT ![r] = y]
  BY DEF Step
<1> HIDE DEF y
<1>4. Advances(r, y)
  BY <1>1, <1>2, <1>3 DEF Advances
<1> QED BY <1>1, <1>2, <1>4

\* A statement that only reads, and ends the request with a reply.
LEMMA ReplyStatement ==
    ASSUME PlanInv, NEW r \in PlanRequests, Underway(r), Untouched,
           NEW x \in PlanReplies \ {"plan_missing"}, Say(r, x),
           Is(r, "assign", "deactivate") => x # "ok"
    PROVE  PlanStatement(r)
<1>1. PICK y \in PReq : /\ Advances(r, y) /\ y.at = "replied" /\ y.reply = x
                        /\ y.op \in {"none", "assign"}
  BY SayEnds DEF PlanInv, Untouched
<1>2. NamesStep(r, y) /\ RowsStep(r, y)
  BY <1>1 DEF NamesStep, RowsStep, Untouched
<1> QED BY <1>1, <1>2 DEF PlanStatement

\* A statement that only reads, and goes on.
LEMMA NextStatement ==
    ASSUME PlanInv, NEW r \in PlanRequests, Underway(r), Untouched,
           NEW s \in {"check", "write"}, Step(r, s),
           (s = "write" /\ hreq[r].op = "create") =>
               \A q \in PlanIds : Exists(q) => plans[q] # hreq[r].name,
           (s = "write" /\ hreq[r].op = "update") =>
               \/ hreq[r].name \in {NoName, plans[hreq[r].id]}
               \/ \A q \in PlanIds : q # hreq[r].id => plans[q] # hreq[r].name
    PROVE  PlanStatement(r)
<1>1. PICK y \in PReq : /\ Advances(r, y) /\ y.at = s /\ y.op = hreq[r].op
                        /\ y.id = hreq[r].id /\ y.reply = "none"
  BY StepGoesOn DEF PlanInv, Untouched, PlanSteps
<1>2. y.name = hreq[r].name
  BY <1>1 DEF Advances
<1>3. NamesStep(r, y) /\ RowsStep(r, y)
  BY <1>1, <1>2 DEF NamesStep, RowsStep, Untouched
<1> QED BY <1>1, <1>3 DEF PlanStatement

\* The steps of a request, grouped by what they may write: nothing, the names,
\* the rows - or they start it.
ReadSteps(r) ==
    \/ CreateFind(r) \/ UpdateFind(r) \/ UpdateCheck(r)
    \/ DeleteFind(r) \/ DeleteCheck(r) \/ AssignFind(r)
    \/ MyPlan(r) \/ ChangeFind(r) \/ ChangeCheck(r)
    \/ ListPlans(r) \/ ListServicePlans(r) \/ GetServicePlan(r) \/ Abort(r)
NameSteps(r) == (\E p \in PlanIds : CreateInsert(r, p)) \/ UpdateWrite(r) \/ DeletePlan(r)
RowSteps(r) ==
    \/ AssignRead(r) \/ Deactivate(r) \/ AssignInsert(r)
    \/ MyAssignment(r) \/ AvailableAssignment(r)
StartSteps(r) ==
    \/ \E n \in Names : Start(r, "create", "none", n, "none")
    \/ \E p \in PlanIds, n \in Names \cup {NoName} : Start(r, "update", p, n, "none")
    \/ \E p \in PlanIds, op \in {"delete", "get"} : Start(r, op, p, NoName, "none")
    \/ Start(r, "list", "none", NoName, "none")
    \/ \E p \in PlanIds, u \in Users, op \in {"assign", "change"} : Start(r, op, p, NoName, u)
    \/ \E u \in Users, op \in {"my", "available"} : Start(r, op, "none", NoName, u)

\* The reads and checks of every handler, and the ways one ends early.
LEMMA ReadStatements ==
    ASSUME PlanInv, NEW r \in PlanRequests, ReadSteps(r)
    PROVE  PlanStatement(r)
<1> USE DEF PlanReplies
<1>1. CASE CreateFind(r)
  <2>1. Underway(r) /\ Untouched /\ hreq[r].op = "create" /\ ~Is(r, "assign", "deactivate")
    BY <1>1 DEF CreateFind, Is, Underway
  <2>2. CASE Say(r, "validation")
    BY <2>1, <2>2, ReplyStatement
  <2>3. CASE Step(r, "write") /\ ~\E p \in PlanIds : plans[p] = hreq[r].name
    BY <2>1, <2>3, NextStatement
  <2> QED BY <1>1, <2>2, <2>3 DEF CreateFind
<1>2. CASE UpdateFind(r)
  <2>1. Underway(r) /\ Untouched /\ hreq[r].op = "update" /\ ~Is(r, "assign", "deactivate")
    BY <1>2 DEF UpdateFind, Is, Underway
  <2>2. CASE Say(r, "not_found")
    BY <2>1, <2>2, ReplyStatement
  <2>3. CASE Step(r, "check")
    BY <2>1, <2>3, NextStatement
  <2>4. CASE Step(r, "write") /\ ~NeedsCheck(r)
    BY <2>1, <2>4, NextStatement DEF NeedsCheck
  <2> QED BY <1>2, <2>2, <2>3, <2>4 DEF UpdateFind
<1>3. CASE UpdateCheck(r)
  <2>1. Underway(r) /\ Untouched /\ hreq[r].op = "update" /\ ~Is(r, "assign", "deactivate")
    BY <1>3 DEF UpdateCheck, Is, Underway
  <2>2. CASE Say(r, "validation")
    BY <2>1, <2>2, ReplyStatement
  <2>3. CASE Step(r, "write") /\ ~\E p \in PlanIds \ {hreq[r].id} : plans[p] = hreq[r].name
    BY <2>1, <2>3, NextStatement
  <2> QED BY <1>3, <2>2, <2>3 DEF UpdateCheck
<1>4. CASE DeleteFind(r) \/ DeleteCheck(r)
  <2>1. Underway(r) /\ Untouched /\ hreq[r].op = "delete" /\ ~Is(r, "assign", "deactivate")
    BY <1>4 DEF DeleteFind, DeleteCheck, Is, Underway
  <2>2. CASE Say(r, "validation") \/ Say(r, "not_found")
    BY <2>1, <2>2, ReplyStatement
  <2>3. CASE Step(r, "write") \/ Step(r, "check")
    BY <2>1, <2>3, NextStatement
  <2> QED BY <1>4, <2>2, <2>3 DEF DeleteFind, DeleteCheck
<1>5. CASE AssignFind(r) \/ ChangeFind(r)
  <2>1. /\ Underway(r) /\ Untouched /\ hreq[r].op \notin {"create", "update"}
        /\ ~Is(r, "assign", "deactivate")
    BY <1>5 DEF AssignFind, ChangeFind, Is, Underway
  <2>2. CASE Say(r, "not_found")
    BY <2>1, <2>2, ReplyStatement
  <2>3. CASE Step(r, "check")
    BY <2>1, <2>3, NextStatement
  <2> QED BY <1>5, <2>2, <2>3 DEF AssignFind, ChangeFind
<1>6. CASE MyPlan(r)
  <2>1. Underway(r) /\ Untouched /\ Is(r, "my", "plan") /\ ~Is(r, "assign", "deactivate")
    BY <1>6 DEF MyPlan, Is, Underway
  <2>2. Exists(hreq[r].id)
    BY <2>1 DEF PlanInv, RowsHeld
  <2>3. Say(r, "ok")
    BY <1>6, <2>2 DEF MyPlan
  <2> QED BY <2>1, <2>3, ReplyStatement
<1>7. CASE ChangeCheck(r) \/ ListPlans(r) \/ ListServicePlans(r) \/ GetServicePlan(r)
  <2>1. Underway(r) /\ Untouched /\ ~Is(r, "assign", "deactivate")
    BY <1>7 DEF ChangeCheck, ListPlans, ListServicePlans, GetServicePlan, Is, Underway
  <2>2. Say(r, "ok") \/ Say(r, "validation") \/ Say(r, "not_found")
    BY <1>7 DEF ChangeCheck, ListPlans, ListServicePlans, GetServicePlan
  <2> QED BY <2>1, <2>2, ReplyStatement
<1>8. CASE Abort(r)
  BY <1>8, ReplyStatement DEF Abort
<1> QED BY <1>1, <1>2, <1>3, <1>4, <1>5, <1>6, <1>7, <1>8 DEF ReadSteps

\* The writes of names: the insert of create, the update, the delete.
LEMMA NameStatements ==
    ASSUME PlanInv, NEW r \in PlanRequests, NameSteps(r)
    PROVE  PlanStatement(r)
<1>0. PlanTypeOK /\ RequestsOK /\ NameFree(r) /\ hreq[r] \in PReq
  BY DEF PlanInv, PlanTypeOK
<1>1. ASSUME NEW p \in PlanIds, CreateInsert(r, p) PROVE PlanStatement(r)
  <2>1. /\ Is(r, "create", "write") /\ Underway(r) /\ ~Is(r, "assign", "deactivate")
        /\ UNCHANGED <<met, assigns>> /\ Say(r, "ok") /\ namers[p] = {}
    BY <1>1 DEF CreateInsert, Is, Underway
  <2>2. PICK y \in PReq : Advances(r, y) /\ y.at = "replied" /\ y.op \in {"none", "assign"}
    BY <1>0, <2>1, SayEnds DEF PlanReplies
  <2>3. CASE hreq[r].name \in Names
    <3>1. Renames(r, p, hreq[r].name)
      BY <1>0, <1>1, <2>1 DEF CreateInsert, Renames, NameFree, PlanTypeOK
    <3> QED BY <2>1, <2>2, <2>3, <3>1 DEF PlanStatement, NamesStep, RowsStep
  <2>4. hreq[r].name \in Names
    BY <1>0, <2>1 DEF RequestsOK, Is
  <2> QED BY <2>3, <2>4
<1>2. CASE UpdateWrite(r)
  <2> DEFINE p == hreq[r].id  n == hreq[r].name
  <2>1. /\ Is(r, "update", "write") /\ Underway(r) /\ ~Is(r, "assign", "deactivate")
        /\ UNCHANGED <<met, assigns>>
    BY <1>2 DEF UpdateWrite, Is, Underway
  <2>2. p \in PlanIds /\ n \in Names \cup {NoName}
    BY <1>0, <2>1 DEF RequestsOK, Is, PReq
  <2>3. CASE ~Exists(p)
    BY <1>2, <2>1, <2>3, ReplyStatement DEF UpdateWrite, PlanReplies, Untouched
  <2>4. CASE Exists(p)
    <3>1. /\ Say(r, "ok")
          /\ plans' = IF n = NoName THEN plans ELSE [plans EXCEPT ![p] = n]
          /\ namers' = IF n \in {NoName, plans[p]} THEN namers
                       ELSE [namers EXCEPT ![p] = @ \cup {r}]
      BY <1>2, <2>4 DEF UpdateWrite
    <3>2. PICK y \in PReq : Advances(r, y) /\ y.at = "replied" /\ y.op \in {"none", "assign"}
      BY <1>0, <2>1, <3>1, SayEnds DEF PlanReplies
    <3>3. CASE n \in {NoName, plans[p]}
      <4>1. UNCHANGED <<plans, namers>>
        BY <1>0, <2>2, <3>1, <3>3 DEF PlanTypeOK
      <4> QED BY <2>1, <3>2, <4>1 DEF PlanStatement, NamesStep, RowsStep
    <3>4. CASE n \notin {NoName, plans[p]}
      <4>1. Renames(r, p, n)
        BY <1>0, <2>1, <2>2, <2>4, <3>1, <3>4 DEF Renames, NameFree
      <4>2. n \in Names
        BY <2>2, <3>4
      <4> QED BY <2>1, <2>2, <3>2, <4>1, <4>2 DEF PlanStatement, NamesStep, RowsStep
    <3> QED BY <3>3, <3>4
  <2> QED BY <2>3, <2>4
<1>3. CASE DeletePlan(r)
  <2> DEFINE p == hreq[r].id
  <2>1. /\ Is(r, "delete", "write") /\ Underway(r) /\ ~Is(r, "assign", "deactivate")
        /\ UNCHANGED <<met, namers>>
    BY <1>3 DEF DeletePlan, Is, Underway
  <2>2. p \in PlanIds
    BY <1>0, <2>1 DEF RequestsOK, Is
  <2>3. CASE ForeignKey(p).refused
    BY <1>3, <2>1, <2>3, ReplyStatement DEF DeletePlan, PlanReplies, Untouched
  <2>4. CASE ~ForeignKey(p).refused
    <3>1. /\ Say(r, "ok") /\ plans' = [plans EXCEPT ![p] = NoName] /\ UNCHANGED assigns
          /\ \A a \in assigns : a.plan # p
      BY <1>3, <2>4 DEF DeletePlan, ForeignKey
    <3>2. PICK y \in PReq : Advances(r, y) /\ y.at = "replied" /\ y.op \in {"none", "assign"}
      BY <1>0, <2>1, <3>1, SayEnds DEF PlanReplies
    <3> QED BY <2>1, <2>2, <3>1, <3>2 DEF PlanStatement, NamesStep, RowsStep
  <2> QED BY <2>3, <2>4
<1> QED BY <1>1, <1>2, <1>3 DEF NameSteps

\* The statements of an assignment and the reads of the rows.
LEMMA RowStatements ==
    ASSUME PlanInv, NEW r \in PlanRequests, RowSteps(r)
    PROVE  PlanStatement(r)
<1>0. /\ PlanTypeOK /\ RequestsOK /\ hreq[r] \in PReq /\ assigns \subseteq Row
      /\ hreq \in [PlanRequests -> PReq]
  BY DEF PlanInv, PlanTypeOK
<1>1. CASE AssignRead(r)
  <2> DEFINE bys == {a.by : a \in Seen(r)}
             y == [hreq[r] EXCEPT !.at = "deactivate", !.seen = bys]
  <2>1. Is(r, "assign", "check") /\ Underway(r) /\ Untouched /\ hreq[r].reply = "none"
    BY <1>0, <1>1 DEF AssignRead, Is, Underway, RequestsOK
  <2>2. bys \subseteq Makers /\ \A a \in assigns : (a.user = hreq[r].user /\ a.active) => a.by \in bys
    BY <1>0 DEF Seen, Active, Row
  <2>3. hreq' = [hreq EXCEPT ![r] = y]
    BY <1>1 DEF AssignRead
  <2> HIDE DEF bys
  <2>4. /\ y \in PReq /\ y.at = "deactivate" /\ y.seen = bys /\ y.op = hreq[r].op
        /\ y.id = hreq[r].id /\ y.name = hreq[r].name /\ y.user = hreq[r].user
        /\ y.reply = hreq[r].reply
    BY <1>0, <2>2 DEF PReq, PlanSteps
  <2> HIDE DEF y
  <2>5. Advances(r, y)
    BY <2>1, <2>3, <2>4 DEF Advances, Untouched
  <2>6. NamesStep(r, y) /\ RowsStep(r, y)
    BY <2>1, <2>2, <2>4 DEF NamesStep, RowsStep, Untouched, Is
  <2> QED BY <2>4, <2>5, <2>6 DEF PlanStatement
<1>2. CASE Deactivate(r)
  <2>1. Is(r, "assign", "deactivate") /\ Underway(r) /\ hreq[r].reply = "none"
    BY <1>0, <1>2 DEF Deactivate, Is, Underway, RequestsOK
  <2>2. PICK b \in hreq[r].seen :
           /\ assigns' = {IF a.by = b THEN [a EXCEPT !.active = FALSE] ELSE a : a \in assigns}
           /\ hreq' = [hreq EXCEPT ![r].seen = @ \ {b}]
           /\ UNCHANGED <<plans, met, namers>>
    BY <1>2 DEF Deactivate
  <2> DEFINE y == [hreq[r] EXCEPT !.seen = @ \ {b}]
  <2>3. hreq' = [hreq EXCEPT ![r] = y]
    BY <2>2
  <2>4. /\ y \in PReq /\ y.at = hreq[r].at /\ y.seen = hreq[r].seen \ {b} /\ y.op = hreq[r].op
        /\ y.id = hreq[r].id /\ y.name = hreq[r].name /\ y.user = hreq[r].user
        /\ y.reply = hreq[r].reply
    BY <1>0 DEF PReq
  <2> HIDE DEF y
  <2>5. Advances(r, y)
    BY <2>1, <2>2, <2>3, <2>4 DEF Advances, Is
  <2>6. NamesStep(r, y) /\ RowsStep(r, y)
    BY <2>1, <2>2, <2>4 DEF NamesStep, RowsStep, Is
  <2> QED BY <2>4, <2>5, <2>6 DEF PlanStatement
<1>3. CASE AssignInsert(r)
  <2>1. /\ Is(r, "assign", "deactivate") /\ Underway(r) /\ hreq[r].seen = {}
        /\ UNCHANGED <<plans, met, namers>>
    BY <1>3 DEF AssignInsert, Is, Underway
  <2>2. CASE Exists(hreq[r].id)
    <3>1. Say(r, "ok") /\ Inserts(r)
      BY <1>3, <2>2 DEF AssignInsert, Inserts
    <3>2. PICK y \in PReq : Advances(r, y) /\ y.at = "replied" /\ y.op \in {"none", "assign"}
      BY <1>0, <2>1, <3>1, SayEnds DEF PlanReplies
    <3> QED BY <2>1, <2>2, <3>1, <3>2 DEF PlanStatement, NamesStep, RowsStep
  <2>3. CASE ~Exists(hreq[r].id)
    BY <1>3, <2>1, <2>3, ReplyStatement DEF AssignInsert, PlanReplies, Untouched
  <2> QED BY <2>2, <2>3
<1>4. CASE MyAssignment(r)
  <2>1. /\ Is(r, "my", "find") /\ Underway(r) /\ Untouched /\ hreq[r].reply = "none"
        /\ ~Is(r, "assign", "deactivate")
    BY <1>0, <1>4 DEF MyAssignment, Is, Underway, RequestsOK
  <2>2. CASE Say(r, "not_found")
    BY <2>1, <2>2, ReplyStatement DEF PlanReplies
  <2>3. ASSUME NEW a \in Active(hreq[r].user),
               hreq' = [hreq EXCEPT ![r].at = "plan", ![r].id = a.plan]
        PROVE  PlanStatement(r)
    <3> DEFINE y == [hreq[r] EXCEPT !.at = "plan", !.id = a.plan]
    <3>1. hreq' = [hreq EXCEPT ![r] = y] /\ a \in assigns /\ a.plan \in PlanIds
      BY <1>0, <2>3 DEF Active, Row
    <3>2. /\ y \in PReq /\ y.at = "plan" /\ y.op = hreq[r].op
          /\ y.id = a.plan /\ y.name = hreq[r].name /\ y.user = hreq[r].user
          /\ y.reply = hreq[r].reply
      BY <1>0, <3>1 DEF PReq, PlanSteps
    <3> HIDE DEF y
    <3>3. Advances(r, y)
      BY <2>1, <3>1, <3>2 DEF Advances, Is, Untouched
    <3>4. NamesStep(r, y) /\ RowsStep(r, y)
      BY <2>1, <3>1, <3>2 DEF NamesStep, RowsStep, Is, Untouched
    <3> QED BY <3>2, <3>3, <3>4 DEF PlanStatement
  <2> QED BY <1>4, <2>2, <2>3 DEF MyAssignment
<1>5. CASE AvailableAssignment(r)
  <2> DEFINE held == {a.plan : a \in Active(hreq[r].user)}
             y == [hreq[r] EXCEPT !.at = "list", !.seen = held]
  <2>1. Is(r, "available", "find") /\ Underway(r) /\ Untouched /\ hreq[r].reply = "none"
    BY <1>0, <1>5 DEF AvailableAssignment, Is, Underway, RequestsOK
  <2>2. held \subseteq PlanIds
    BY <1>0 DEF Active, Row
  <2>3. hreq' = [hreq EXCEPT ![r] = y]
    BY <1>5 DEF AvailableAssignment
  <2> HIDE DEF held
  <2>4. /\ y \in PReq /\ y.at = "list" /\ y.op = hreq[r].op
        /\ y.id = hreq[r].id /\ y.name = hreq[r].name /\ y.user = hreq[r].user
        /\ y.reply = hreq[r].reply
    BY <1>0, <2>2 DEF PReq, PlanSteps
  <2> HIDE DEF y
  <2>5. Advances(r, y)
    BY <2>1, <2>3, <2>4 DEF Advances, Untouched, Is
  <2>6. NamesStep(r, y) /\ RowsStep(r, y)
    BY <2>1, <2>4 DEF NamesStep, RowsStep, Untouched, Is
  <2> QED BY <2>4, <2>5, <2>6 DEF PlanStatement
<1> QED BY <1>1, <1>2, <1>3, <1>4, <1>5 DEF RowSteps

\* Where the requests stand after a statement.
LEMMA StatementRequests ==
    ASSUME PlanInv, NEW r \in PlanRequests, NEW y \in PReq, Advances(r, y)
    PROVE  /\ hreq' \in [PlanRequests -> PReq] /\ hreq'[r] = y
           /\ \A s \in PlanRequests \ {r} : hreq'[s] = hreq[s]
           /\ RequestsOK' /\ MyPlanFound'
           /\ \A s \in PlanRequests : hreq[s].op = "assign" =>
                 hreq'[s].op = "assign" /\ hreq'[s].user = hreq[s].user
<1>1. /\ hreq' \in [PlanRequests -> PReq] /\ hreq'[r] = y /\ met' = met
      /\ \A s \in PlanRequests \ {r} : hreq'[s] = hreq[s]
  BY DEF PlanInv, PlanTypeOK, Advances
<1>2. \A s \in PlanRequests : hreq[s].op = "assign" =>
          hreq'[s].op = "assign" /\ hreq'[s].user = hreq[s].user
  BY <1>1 DEF Advances
<1>3. MyPlanFound'
  BY <1>1 DEF MyPlanFound, PlanInv, Advances
<1>4. Underway(r) /\ \A s \in PlanRequests : Underway(s)' => Underway(s)
  BY <1>1 DEF Underway, Advances
<1>5. RequestsOK'
  <2>1. \A s, t \in PlanRequests : (s # t /\ Underway(s)' /\ Underway(t)') => t \in met'[s]
    BY <1>1, <1>4 DEF PlanInv, RequestsOK
  <2>2. ASSUME NEW s \in PlanRequests
        PROVE  /\ hreq'[s].at = "new" => hreq'[s].op = "none" /\ met'[s] = {}
               /\ Underway(s)' => hreq'[s].reply = "none"
               /\ (Underway(s)' /\ hreq'[s].op \in {"update", "delete", "assign"})
                     => hreq'[s].id \in PlanIds
               /\ (Underway(s)' /\ hreq'[s].op = "create") => hreq'[s].name \in Names
    <3>1. CASE s = r
      BY <1>1, <1>4, <3>1 DEF PlanInv, RequestsOK, Advances, Underway
    <3>2. CASE s # r
      BY <1>1, <3>2 DEF PlanInv, RequestsOK, Underway
    <3> QED BY <3>1, <3>2
  <2> QED BY <2>1, <2>2 DEF RequestsOK
<1> QED BY <1>1, <1>2, <1>3, <1>5

\* A name given in a race, or given back, leaves every pair of plans and every
\* waiting writer accounted for.
LEMMA RenameAccounted ==
    ASSUME PlanInv, NEW r \in PlanRequests, NEW y \in PReq, Advances(r, y), y.at = "replied",
           NEW p \in PlanIds, NEW n \in Names, Renames(r, p, n)
    PROVE  NamesOverlap' /\ \A t \in PlanRequests : NameFree(t)'
<1>0. /\ PlanTypeOK /\ RequestsOK /\ NamesOverlap /\ met' = met /\ Underway(r)
      /\ n # NoName
  BY NameAssumption DEF PlanInv, Advances
<1>1. /\ plans'[p] = n /\ \A q \in PlanIds \ {p} : plans'[q] = plans[q]
      /\ namers'[p] = namers[p] \cup {r} /\ \A q \in PlanIds \ {p} : namers'[q] = namers[q]
  BY <1>0 DEF Renames, PlanTypeOK
<1>2. \A q \in PlanIds : namers[q] \subseteq namers'[q]
  BY <1>1
<1>3. \A q \in PlanIds : (q # p /\ Exists(q) /\ plans[q] = n)
                            => met[r] \cap (namers[p] \cup namers[q]) # {}
  BY DEF Renames
<1>4. NamesOverlap'
  <2> SUFFICES ASSUME NEW u \in PlanIds, NEW v \in PlanIds, u # v, Exists(u)', plans'[u] = plans'[v]
               PROVE  Raced(u, v)'
    BY DEF NamesOverlap
  <2>1. CASE u # p /\ v # p
    <3>1. Raced(u, v)
      BY <1>0, <1>1, <2>1 DEF NamesOverlap, Exists
    <3> QED BY <1>0, <1>2, <3>1 DEF Raced
  <2>2. CASE u = p
    <3>1. met[r] \cap (namers[p] \cup namers[v]) # {}
      BY <1>0, <1>1, <1>3, <2>2 DEF Exists
    <3> QED BY <1>0, <1>1, <1>2, <2>2, <3>1 DEF Raced
  <2>3. CASE v = p
    <3>1. met[r] \cap (namers[p] \cup namers[u]) # {}
      BY <1>0, <1>1, <1>3, <2>3 DEF Exists
    <3> QED BY <1>0, <1>1, <1>2, <2>3, <3>1 DEF Raced
  <2> QED BY <2>1, <2>2, <2>3
<1>5. ASSUME NEW t \in PlanRequests PROVE NameFree(t)'
  <2>1. CASE t = r
    BY <2>1, StatementRequests DEF NameFree, Is
  <2>2. CASE t # r
    <3>0. hreq'[t] = hreq[t] /\ NameFree(t)
      BY <2>2, StatementRequests DEF PlanInv
    <3>1. Underway(t) => r \in met[t]
      BY <1>0, <2>2 DEF RequestsOK
    <3>2. ASSUME Is(t, "create", "write")', NEW q \in PlanIds, Exists(q)', plans'[q] = hreq'[t].name
          PROVE  met'[t] \cap namers'[q] # {}
      <4>1. Is(t, "create", "write") /\ Underway(t)
        BY <3>0, <3>2 DEF Is, Underway
      <4>2. CASE q = p
        BY <1>0, <1>1, <3>1, <4>1, <4>2
      <4>3. CASE q # p
        BY <1>0, <1>1, <3>0, <3>2, <4>1, <4>3 DEF NameFree, Exists
      <4> QED BY <4>2, <4>3
    <3>3. ASSUME Is(t, "update", "write")', NEW q \in PlanIds, q # hreq'[t].id, Exists(q)',
                 plans'[q] = hreq'[t].name, Exists(hreq[t].id)', plans'[hreq'[t].id] # hreq'[t].name
          PROVE  met'[t] \cap (namers'[hreq'[t].id] \cup namers'[q]) # {}
      <4>1. Is(t, "update", "write") /\ Underway(t) /\ hreq[t].id \in PlanIds
        BY <1>0, <3>0, <3>3 DEF Is, Underway, RequestsOK
      <4>2. CASE q = p \/ hreq[t].id = p
        BY <1>0, <1>1, <3>0, <3>1, <4>1, <4>2
      <4>3. CASE q # p /\ hreq[t].id # p
        <5>1. met[t] \cap (namers[hreq[t].id] \cup namers[q]) # {}
          BY <1>1, <3>0, <3>3, <4>1, <4>3 DEF NameFree, Exists
        <5> QED BY <1>0, <1>2, <3>0, <4>1, <5>1
      <4> QED BY <4>2, <4>3
    <3> QED BY <3>0, <3>2, <3>3 DEF NameFree, Exists
  <2> QED BY <2>1, <2>2
<1> QED BY <1>4, <1>5

\* Every statement keeps the names accounted for.
LEMMA NamesKept ==
    ASSUME PlanInv, NEW r \in PlanRequests, NEW y \in PReq, Advances(r, y), NamesStep(r, y)
    PROVE  /\ plans' \in [PlanIds -> Names \cup {NoName}] /\ namers' \in [PlanIds -> SUBSET Makers]
           /\ NamesOverlap' /\ \A t \in PlanRequests : NameFree(t)'
<1>0. /\ PlanTypeOK /\ RequestsOK /\ NamesOverlap /\ met' = met
      /\ hreq'[r] = y /\ \A t \in PlanRequests \ {r} : hreq'[t] = hreq[t]
  BY StatementRequests DEF PlanInv, Advances
<1>1. ASSUME UNCHANGED <<plans, namers>>,
             (y.op = "create" /\ y.at = "write") =>
                \A q \in PlanIds : Exists(q) => plans[q] # y.name,
             (y.op = "update" /\ y.at = "write") =>
                \/ y.name \in {NoName, plans[y.id]}
                \/ \A q \in PlanIds : q # y.id => plans[q] # y.name
      PROVE  NamesOverlap' /\ \A t \in PlanRequests : NameFree(t)'
  <2>1. NamesOverlap'
    BY <1>0, <1>1 DEF NamesOverlap, Raced, Exists
  <2>2. NameFree(r)'
    BY <1>0, <1>1 DEF NameFree, Is, Exists
  <2>3. ASSUME NEW t \in PlanRequests, t # r PROVE NameFree(t)'
    BY <1>0, <1>1, <2>3 DEF PlanInv, NameFree, Is, Exists
  <2> QED BY <2>1, <2>2, <2>3
<1>2. ASSUME y.at = "replied", NEW p \in PlanIds, NEW n \in Names, Renames(r, p, n)
      PROVE  /\ plans' \in [PlanIds -> Names \cup {NoName}] /\ namers' \in [PlanIds -> SUBSET Makers]
             /\ NamesOverlap' /\ \A t \in PlanRequests : NameFree(t)'
  <2>1. plans' \in [PlanIds -> Names \cup {NoName}] /\ namers' \in [PlanIds -> SUBSET Makers]
    BY <1>0, <1>2 DEF Renames, PlanTypeOK, Makers
  <2> QED BY <1>2, <2>1, RenameAccounted
<1>3. ASSUME y.at = "replied", UNCHANGED namers, NEW p \in PlanIds,
             plans' = [plans EXCEPT ![p] = NoName]
      PROVE  /\ plans' \in [PlanIds -> Names \cup {NoName}]
             /\ NamesOverlap' /\ \A t \in PlanRequests : NameFree(t)'
  <2>1. /\ plans' \in [PlanIds -> Names \cup {NoName}] /\ plans'[p] = NoName
        /\ \A q \in PlanIds : q # p => plans'[q] = plans[q]
    BY <1>0, <1>3 DEF PlanTypeOK
  <2>2. NamesOverlap'
    BY <1>0, <1>3, <2>1 DEF NamesOverlap, Raced, Exists
  <2>3. NameFree(r)'
    BY <1>0, <1>3 DEF NameFree, Is
  <2>4. ASSUME NEW t \in PlanRequests, t # r PROVE NameFree(t)'
    <3>1. NameFree(t) /\ hreq'[t] = hreq[t] /\ met'[t] = met[t]
      BY <1>0, <2>4 DEF PlanInv
    <3>2. (Is(t, "update", "write")) => hreq[t].id \in PlanIds
      BY <1>0 DEF RequestsOK, Is, Underway
    <3> QED BY <1>3, <2>1, <3>1, <3>2 DEF NameFree, Is, Exists
  <2> QED BY <2>1, <2>2, <2>3, <2>4
<1>4. CASE UNCHANGED <<plans, namers>>
  BY <1>0, <1>1, <1>4, <1>2, <1>3 DEF PlanTypeOK, NamesStep
<1>5. CASE ~UNCHANGED <<plans, namers>>
  <2>1. namers' \in [PlanIds -> SUBSET Makers]
    BY <1>0, <1>2, <1>5 DEF NamesStep, PlanTypeOK
  <2> QED BY <1>2, <1>3, <1>5, <2>1 DEF NamesStep
<1> QED BY <1>4, <1>5

\* Every statement keeps the rows on their plans, and an assignment that met no
\* other knows every active row of its user.
LEMMA RowsKept ==
    ASSUME PlanInv, NEW r \in PlanRequests, NEW y \in PReq,
           Advances(r, y), NamesStep(r, y), RowsStep(r, y)
    PROVE  assigns' \in SUBSET Row /\ RowsHeld' /\ \A t \in PlanRequests : SeenAll(t)'
<1>0. /\ PlanTypeOK /\ RequestsOK /\ RowsHeld /\ met' = met /\ assigns \in SUBSET Row
      /\ hreq \in [PlanRequests -> PReq] /\ met \in [PlanRequests -> SUBSET PlanRequests]
      /\ hreq'[r] = y /\ \A t \in PlanRequests \ {r} : hreq'[t] = hreq[t]
      /\ \A s \in PlanRequests : hreq[s].op = "assign" =>
            hreq'[s].op = "assign" /\ hreq'[s].user = hreq[s].user
      /\ plans \in [PlanIds -> Names \cup {NoName}] /\ Underway(r)
      /\ \A t \in PlanRequests : SeenAll(t)
  BY StatementRequests DEF PlanInv, PlanTypeOK, Advances
<1>1. \A p \in PlanIds : (Exists(p) /\ \E a \in assigns : a.plan = p) => Exists(p)'
  <2>1. CASE UNCHANGED plans
    BY <2>1 DEF Exists
  <2>2. ASSUME NEW p \in PlanIds, NEW n \in Names, plans' = [plans EXCEPT ![p] = n]
        PROVE  \A q \in PlanIds : Exists(q) => Exists(q)'
    BY <1>0, <2>2, NameAssumption DEF Exists
  <2>3. ASSUME NEW p \in PlanIds, plans' = [plans EXCEPT ![p] = NoName],
               \A a \in assigns : a.plan # p
        PROVE  \A q \in PlanIds : (Exists(q) /\ \E a \in assigns : a.plan = q) => Exists(q)'
    BY <1>0, <2>3 DEF Exists
  <2> QED BY <2>1, <2>2, <2>3 DEF NamesStep, Renames
<1>2. \A t \in PlanRequests : (t # r /\ Alone(t)') => Alone(t)
  BY <1>0 DEF Alone
<1>3. \A t \in PlanRequests : (t # r /\ Underway(t)) => r \in met[t]
  BY <1>0 DEF RequestsOK
<1>4. ASSUME UNCHANGED assigns,
             (y.op = "assign" /\ y.at = "deactivate") =>
                \A a \in assigns : (a.user = y.user /\ a.active) => a.by \in y.seen,
             (y.op = "my" /\ y.at = "plan") => \E a \in assigns : a.plan = y.id
      PROVE  assigns' \in SUBSET Row /\ RowsHeld' /\ \A t \in PlanRequests : SeenAll(t)'
  <2>1. RowsHeld'
    <3>1. \A a \in assigns : a.plan \in PlanIds
      BY <1>0 DEF Row
    <3>2. \A a \in assigns' : Exists(a.plan)'
      BY <1>0, <1>1, <1>4, <3>1 DEF RowsHeld
    <3>3. ASSUME NEW t \in PlanRequests, Is(t, "my", "plan")'
          PROVE  \E a \in assigns' : a.plan = hreq'[t].id
      BY <1>0, <1>4, <3>3 DEF RowsHeld, Is
    <3> QED BY <3>2, <3>3 DEF RowsHeld
  <2>2. SeenAll(r)'
    BY <1>0, <1>4 DEF SeenAll, Is
  <2>3. ASSUME NEW t \in PlanRequests, t # r PROVE SeenAll(t)'
    BY <1>0, <1>2, <1>4, <2>3 DEF SeenAll, Is
  <2> QED BY <1>0, <1>4, <2>1, <2>2, <2>3
<1>5. ASSUME Is(r, "assign", "deactivate"), y.at = "deactivate", NEW b \in hreq[r].seen,
             assigns' = {IF a.by = b THEN [a EXCEPT !.active = FALSE] ELSE a : a \in assigns},
             y.seen = hreq[r].seen \ {b}
      PROVE  assigns' \in SUBSET Row /\ RowsHeld' /\ \A t \in PlanRequests : SeenAll(t)'
  <2> DEFINE ended(a) == IF a.by = b THEN [a EXCEPT !.active = FALSE] ELSE a
  <2>1. ASSUME NEW a \in assigns
        PROVE  /\ ended(a) \in Row /\ ended(a).plan = a.plan /\ ended(a).by = a.by
               /\ ended(a).user = a.user /\ (ended(a).active => a.active /\ a.by # b)
    <3>1. a \in Row
      BY <1>0
    <3>2. CASE a.by = b
      BY <3>1, <3>2 DEF Row
    <3>3. CASE a.by # b
      BY <3>1, <3>3
    <3> QED BY <3>2, <3>3
  <2>2. assigns' = {ended(a) : a \in assigns}
    BY <1>5
  <2> HIDE DEF ended
  <2>3. assigns' \in SUBSET Row
    BY <2>1, <2>2
  <2>4. RowsHeld'
    <3>1. \A a \in assigns' : Exists(a.plan)'
      <4> SUFFICES ASSUME NEW a \in assigns PROVE Exists(ended(a).plan)'
        BY <2>2
      <4>1. a.plan \in PlanIds /\ Exists(a.plan)
        BY <1>0 DEF RowsHeld, Row
      <4>2. Exists(a.plan)'
        BY <1>1, <4>1
      <4> QED BY <2>1, <4>2 DEF Exists
    <3>2. ASSUME NEW t \in PlanRequests, Is(t, "my", "plan")'
          PROVE  \E a \in assigns' : a.plan = hreq'[t].id
      <4>1. t # r /\ Is(t, "my", "plan") /\ hreq'[t] = hreq[t]
        BY <1>0, <1>5, <3>2 DEF Is
      <4>2. PICK a \in assigns : a.plan = hreq[t].id
        BY <1>0, <4>1 DEF RowsHeld
      <4> QED BY <2>1, <2>2, <4>1, <4>2
    <3> QED BY <3>1, <3>2 DEF RowsHeld
  <2>5. SeenAll(r)'
    <3> SUFFICES ASSUME Alone(r)', NEW a \in assigns, ended(a).user = y.user, ended(a).active
                 PROVE  ended(a).by \in y.seen
      BY <1>0, <2>2 DEF SeenAll
    <3>1. y.user = hreq[r].user /\ Alone(r)
      BY <1>0, <1>5 DEF Is, Alone
    <3>2. a.by \in hreq[r].seen
      BY <1>0, <1>5, <2>1, <3>1 DEF SeenAll
    <3> QED BY <1>5, <2>1, <3>2
  <2>6. ASSUME NEW t \in PlanRequests, t # r PROVE SeenAll(t)'
    <3> SUFFICES ASSUME Is(t, "assign", "deactivate")', Alone(t)', NEW a \in assigns,
                        ended(a).user = hreq'[t].user, ended(a).active
                 PROVE  ended(a).by \in hreq'[t].seen
      BY <2>2 DEF SeenAll
    <3>1. Is(t, "assign", "deactivate") /\ Alone(t) /\ hreq'[t] = hreq[t]
      BY <1>0, <1>2, <2>6 DEF Is
    <3> QED BY <1>0, <2>1, <3>1 DEF SeenAll
  <2> QED BY <2>3, <2>4, <2>5, <2>6
<1>6. ASSUME Is(r, "assign", "deactivate"), y.at = "replied", Exists(hreq[r].id), Inserts(r),
             UNCHANGED plans
      PROVE  assigns' \in SUBSET Row /\ RowsHeld' /\ \A t \in PlanRequests : SeenAll(t)'
  <2> DEFINE row == [by |-> r, user |-> hreq[r].user, plan |-> hreq[r].id, active |-> TRUE]
  <2>1. /\ row \in Row /\ assigns' = assigns \cup {row} /\ row.user = hreq[r].user
        /\ row.plan = hreq[r].id
    <3>1. hreq[r].id \in PlanIds /\ hreq[r].user \in Users \cup {"none"}
      BY <1>0, <1>6 DEF RequestsOK, Is, PReq
    <3> QED BY <1>6, <3>1 DEF Row, Makers, Inserts
  <2> HIDE DEF row
  <2>2. RowsHeld'
    <3>1. \A a \in assigns' : Exists(a.plan)'
      BY <1>0, <1>6, <2>1 DEF RowsHeld, Exists
    <3>2. ASSUME NEW t \in PlanRequests, Is(t, "my", "plan")'
          PROVE  \E a \in assigns' : a.plan = hreq'[t].id
      BY <1>0, <1>6, <2>1, <3>2 DEF RowsHeld, Is
    <3> QED BY <3>1, <3>2 DEF RowsHeld
  <2>3. SeenAll(r)'
    BY <1>0, <1>6 DEF SeenAll, Is
  <2>4. ASSUME NEW t \in PlanRequests, t # r PROVE SeenAll(t)'
    <3> SUFFICES ASSUME Is(t, "assign", "deactivate")', Alone(t)', NEW a \in assigns',
                        a.user = hreq'[t].user, a.active
                 PROVE  a.by \in hreq'[t].seen
      BY DEF SeenAll
    <3>1. Is(t, "assign", "deactivate") /\ Alone(t) /\ hreq'[t] = hreq[t] /\ Underway(t)
      BY <1>0, <1>2, <2>4 DEF Is, Underway
    <3>2. a # row
      BY <1>0, <1>3, <1>6, <2>1, <2>4, <3>1 DEF Alone, Is
    <3> QED BY <1>0, <2>1, <3>1, <3>2 DEF SeenAll
  <2> QED BY <1>0, <2>1, <2>2, <2>3, <2>4
<1> QED BY <1>4, <1>5, <1>6 DEF RowsStep

\* A request that starts meets everyone underway, and changes nothing else.
LEMMA StartKeeps ==
    ASSUME PlanInv, NEW r \in PlanRequests, NEW op \in PlanOps, NEW p \in PlanIds \cup {"none"},
           NEW n \in Names \cup {NoName}, NEW u \in Users \cup {"none"}, Start(r, op, p, n, u),
           op \in {"update", "delete", "assign"} => p \in PlanIds,
           op = "create" => n \in Names
    PROVE  PlanInv'
<1> DEFINE y == [NoReq EXCEPT !.op = op, !.at = "find", !.id = p, !.name = n, !.user = u]
           others == {s \in PlanRequests : Underway(s)}
<1>0. /\ PlanTypeOK /\ RequestsOK /\ hreq[r].at = "new" /\ hreq[r].op = "none"
      /\ UNCHANGED <<plans, assigns, namers>>
      /\ hreq' = [hreq EXCEPT ![r] = y]
      /\ met' = [s \in PlanRequests |-> IF s = r THEN others
                                       ELSE IF s \in others THEN met[s] \cup {r} ELSE met[s]]
  BY DEF PlanInv, RequestsOK, Start
<1>1. y \in PReq /\ y.op = op /\ y.at = "find" /\ y.id = p /\ y.name = n /\ y.reply = "none"
  BY DEF NoReq, PReq, PlanSteps, PlanReplies
<1> HIDE DEF y
<1>2. hreq'[r] = y /\ \A s \in PlanRequests \ {r} : hreq'[s] = hreq[s]
  BY <1>0 DEF PlanTypeOK
<1>3. /\ met'[r] = others /\ \A s \in PlanRequests : met[s] \subseteq met'[s] \/ s = r
      /\ \A s \in PlanRequests \ {r} : Underway(s) => r \in met'[s]
      /\ met' \in [PlanRequests -> SUBSET PlanRequests]
  BY <1>0 DEF PlanTypeOK
<1>4. PlanTypeOK'
  BY <1>0, <1>1, <1>3 DEF PlanTypeOK
<1>5. RequestsOK'
  <2>1. \A s \in PlanRequests \ {r} : Underway(s)' <=> Underway(s)
    BY <1>2 DEF Underway
  <2>2. \A s, t \in PlanRequests : (s # t /\ Underway(s)' /\ Underway(t)') => t \in met'[s]
    BY <1>0, <1>3, <2>1 DEF RequestsOK
  <2>3. \A s \in PlanRequests :
            /\ hreq'[s].at = "new" => hreq'[s].op = "none" /\ met'[s] = {}
            /\ Underway(s)' => hreq'[s].reply = "none"
            /\ (Underway(s)' /\ hreq'[s].op \in {"update", "delete", "assign"})
                  => hreq'[s].id \in PlanIds
            /\ (Underway(s)' /\ hreq'[s].op = "create") => hreq'[s].name \in Names
    <3>1. \A s \in PlanRequests \ {r} : hreq[s].at = "new" => met'[s] = met[s]
      BY <1>0 DEF Underway
    <3> QED BY <1>0, <1>1, <1>2, <2>1, <3>1 DEF RequestsOK
  <2> QED BY <2>2, <2>3 DEF RequestsOK
<1>6. MyPlanFound' /\ RowsHeld'
  <2>1. MyPlanFound'
    BY <1>1, <1>2 DEF PlanInv, MyPlanFound
  <2>2. RowsHeld'
    BY <1>0, <1>1, <1>2 DEF PlanInv, RowsHeld, Exists, Is
  <2> QED BY <2>1, <2>2
<1>7. NamesOverlap'
  <2> SUFFICES ASSUME NEW v \in PlanIds, NEW w \in PlanIds, Raced(v, w) PROVE Raced(v, w)'
    BY <1>0 DEF PlanInv, NamesOverlap, Exists
  <2>1. PICK s \in PlanRequests : /\ s \in namers[v] \cup namers[w]
                                  /\ met[s] \cap (namers[v] \cup namers[w]) # {}
    BY DEF Raced
  <2>2. met[s] \subseteq met'[s]
    <3>1. s = r => met[s] \subseteq met'[s]
      BY <1>0 DEF RequestsOK
    <3> QED BY <1>3, <3>1
  <2> QED BY <1>0, <2>1, <2>2 DEF Raced
<1>8. ASSUME NEW t \in PlanRequests PROVE NameFree(t)'
  <2>1. CASE t = r
    BY <1>1, <1>2, <2>1 DEF NameFree, Is
  <2>2. CASE t # r
    <3>1. hreq'[t] = hreq[t] /\ met[t] \subseteq met'[t] /\ NameFree(t)
      BY <1>2, <1>3, <2>2 DEF PlanInv
    <3> QED BY <1>0, <3>1 DEF NameFree, Is, Exists
  <2> QED BY <2>1, <2>2
<1>9. ASSUME NEW t \in PlanRequests PROVE SeenAll(t)'
  <2>1. CASE t = r
    BY <1>1, <1>2, <2>1 DEF SeenAll, Is
  <2>2. CASE t # r
    <3>1. hreq'[t] = hreq[t] /\ met[t] \subseteq met'[t] /\ SeenAll(t) /\ met[t] \subseteq PlanRequests
      BY <1>0, <1>2, <1>3, <2>2 DEF PlanInv, PlanTypeOK
    <3>2. Alone(t)' => Alone(t)
      <4>1. \A s \in PlanRequests : hreq[s].op = "assign" => hreq'[s] = hreq[s]
        BY <1>0, <1>2
      <4> QED BY <3>1, <4>1 DEF Alone
    <3> QED BY <1>0, <3>1, <3>2 DEF SeenAll, Is
  <2> QED BY <2>1, <2>2
<1> QED BY <1>4, <1>5, <1>6, <1>7, <1>8, <1>9 DEF PlanInv

\* Every step of the handlers is a start or a statement of one request.
LEMMA PlanStepsCovered ==
    ASSUME PlanInv, PlanNext
    PROVE  \/ \E r \in PlanRequests, op \in PlanOps, p \in PlanIds \cup {"none"},
                 n \in Names \cup {NoName}, u \in Users \cup {"none"} :
                 /\ Start(r, op, p, n, u)
                 /\ op \in {"update", "delete", "assign"} => p \in PlanIds
                 /\ op = "create" => n \in Names
           \/ \E r \in PlanRequests : PlanStatement(r)
           \/ UNCHANGED planVars
<1> DEFINE Starts(r) == \E op \in PlanOps, p \in PlanIds \cup {"none"},
                           n \in Names \cup {NoName}, u \in Users \cup {"none"} :
                           /\ Start(r, op, p, n, u)
                           /\ op \in {"update", "delete", "assign"} => p \in PlanIds
                           /\ op = "create" => n \in Names
<1>1. ASSUME NEW r \in PlanRequests, StartSteps(r) PROVE Starts(r)
  BY <1>1 DEF PlanOps, StartSteps
<1> HIDE DEF Starts
<1>2. \/ \E r \in PlanRequests : StartSteps(r) \/ ReadSteps(r) \/ NameSteps(r) \/ RowSteps(r)
      \/ PlanStop
  BY DEF PlanNext, StartSteps, ReadSteps, NameSteps, RowSteps
<1>3. \/ \E r \in PlanRequests : Starts(r) \/ PlanStatement(r)
      \/ UNCHANGED planVars
  BY <1>1, <1>2, ReadStatements, NameStatements, RowStatements DEF PlanStop
<1> QED BY <1>3 DEF Starts

\* The plan handlers keep their invariant.
LEMMA PlanStep ==
    ASSUME PlanInv, [PlanNext]_planVars
    PROVE  PlanInv'
<1>1. ASSUME NEW r \in PlanRequests, PlanStatement(r) PROVE PlanInv'
  <2>1. PICK y \in PReq : Advances(r, y) /\ NamesStep(r, y) /\ RowsStep(r, y)
    BY <1>1 DEF PlanStatement
  <2>2. /\ hreq' \in [PlanRequests -> PReq] /\ RequestsOK' /\ MyPlanFound'
        /\ met' \in [PlanRequests -> SUBSET PlanRequests]
    BY <2>1, StatementRequests DEF Advances, PlanInv, PlanTypeOK
  <2>3. /\ plans' \in [PlanIds -> Names \cup {NoName}] /\ namers' \in [PlanIds -> SUBSET Makers]
        /\ NamesOverlap' /\ \A t \in PlanRequests : NameFree(t)'
    BY <2>1, NamesKept
  <2>4. assigns' \in SUBSET Row /\ RowsHeld' /\ \A t \in PlanRequests : SeenAll(t)'
    BY <2>1, RowsKept
  <2> QED BY <2>2, <2>3, <2>4 DEF PlanInv, PlanTypeOK
<1>2. CASE UNCHANGED planVars
  BY <1>2 DEF planVars, PlanInv, PlanTypeOK, RequestsOK, NamesOverlap, Raced, RowsHeld, MyPlanFound,
              NameFree, SeenAll, Alone, Is, Underway, Exists
<1> QED BY <1>1, <1>2, PlanStepsCovered, StartKeeps

\* It holds with one plan, assigned or not, and no request.
LEMMA PlanStart == PlanInit => PlanInv
<1> SUFFICES ASSUME PlanInit PROVE PlanInv OBVIOUS
<1>1. PICK p \in PlanIds, n \in Names \cup {NoName}, u \in Users, held \in BOOLEAN :
        /\ plans = [q \in PlanIds |-> IF q = p THEN n ELSE NoName]
        /\ namers = [q \in PlanIds |-> IF q = p /\ n # NoName THEN {Before} ELSE {}]
        /\ assigns = IF held /\ n # NoName
                     THEN {[by |-> Before, user |-> u, plan |-> p, active |-> TRUE]} ELSE {}
  BY DEF PlanInit
<1>2. hreq = [r \in PlanRequests |-> NoReq] /\ met = [r \in PlanRequests |-> {}]
  BY DEF PlanInit
<1>3. NoReq \in PReq /\ NoReq.op = "none" /\ NoReq.at = "new" /\ NoReq.reply = "none"
  BY DEF NoReq, PReq, PlanOps, PlanSteps, PlanReplies
<1>4. PlanTypeOK
  <2>1. assigns \in SUBSET Row
    BY <1>1 DEF Row, Makers
  <2> QED BY <1>1, <1>2, <1>3, <2>1 DEF PlanTypeOK, Makers
<1>5. RequestsOK /\ MyPlanFound /\ \A r \in PlanRequests : NameFree(r) /\ SeenAll(r)
  BY <1>2, <1>3 DEF RequestsOK, Underway, MyPlanFound, NameFree, SeenAll, Is
<1>6. NamesOverlap /\ RowsHeld
  BY <1>1, <1>2, <1>3 DEF NamesOverlap, RowsHeld, Exists, Is
<1> QED BY <1>4, <1>5, <1>6 DEF PlanInv

\* Two plans share a name only if two requests that named one of them overlapped:
\* for any number of requests, plans and names.
THEOREM NamesRaced == PlanSpec => []NamesOverlap
<1>1. PlanInv => NamesOverlap
  BY DEF PlanInv
<1> QED BY <1>1, PlanStart, PlanStep, PTL DEF PlanSpec

\* A user with an active plan is never told that the plan does not exist: the
\* foreign key holds the plan between get_my_service_plan's two reads.
THEOREM HeldPlanFound == PlanSpec => []MyPlanFound
<1>1. PlanInv => MyPlanFound
  BY DEF PlanInv
<1> QED BY <1>1, PlanStart, PlanStep, PTL DEF PlanSpec

\* An assignment that met no other one of its user leaves exactly its own active.
THEOREM LoneAssignment == PlanSpec => LoneAssignSingle
<1> DEFINE Single ==
        \A r \in PlanRequests :
          (/\ Is(r, "assign", "deactivate") /\ hreq'[r].reply = "ok"
           /\ \A s \in met[r] : hreq[s].op = "assign" => hreq[s].user # hreq[r].user)
          => {a \in assigns' : a.user = hreq[r].user /\ a.active}
               = {[by |-> r, user |-> hreq[r].user, plan |-> hreq[r].id, active |-> TRUE]}
<1>1. PlanInv /\ [PlanNext]_planVars => [Single]_planVars
  <2> SUFFICES ASSUME PlanInv, PlanNext, ~UNCHANGED planVars, NEW r \in PlanRequests,
                      Is(r, "assign", "deactivate"), hreq'[r].reply = "ok", Alone(r)
               PROVE  {a \in assigns' : a.user = hreq[r].user /\ a.active}
                      = {[by |-> r, user |-> hreq[r].user, plan |-> hreq[r].id, active |-> TRUE]}
    BY DEF Alone
  <2>0. Underway(r) /\ hreq[r].reply = "none" /\ hreq \in [PlanRequests -> PReq]
    BY DEF Is, Underway, PlanInv, RequestsOK, PlanTypeOK
  <2>1. ASSUME NEW q \in PlanRequests, NEW op, NEW p, NEW n, NEW u, Start(q, op, p, n, u)
        PROVE  FALSE
    <3>1. hreq'[r] = hreq[r]
      BY <2>0, <2>1 DEF Start, Underway
    <3> QED BY <2>0, <3>1
  <2>2. PICK q \in PlanRequests, y \in PReq : Advances(q, y) /\ NamesStep(q, y) /\ RowsStep(q, y)
    BY <2>1, PlanStepsCovered DEF PlanStatement
  <2>3. q = r /\ y.reply = "ok"
    BY <2>0, <2>2 DEF Advances
  <2>4. hreq[r].seen = {} /\ Inserts(r)
    BY <2>2, <2>3 DEF RowsStep
  <2>5. \A a \in assigns : ~(a.user = hreq[r].user /\ a.active)
    BY <2>4 DEF PlanInv, SeenAll
  <2> QED BY <2>4, <2>5 DEF Inserts
<1> QED BY <1>1, PlanStart, PlanStep, PTL DEF PlanSpec, LoneAssignSingle


-----------------------------------------------------------------------------
(* The migrations.  The statements of down() take those of up() back in the *)
(* opposite order, so every catalogue a command passes through is one that  *)
(* up() passes through: the one after its first l statements, l <= 34.  It  *)
(* is enough to know that no object is listed twice and that indexes and    *)
(* keys name tables of the first migration.                                 *)

\* The tables, and what it is to name no object twice.
TableSet == {Tables[j] : j \in 1..14}
Distinct(s, n) == \A i, j \in 1..n : s[i] = s[j] => i = j

\* The tables of the first migration, one by one.
LEMMA TablesAre ==
  /\ Len(Tables) = 14
  /\ Tables[1] = "user" /\ Tables[2] = "service_plan" /\ Tables[3] = "pricing"
  /\ Tables[4] = "user_service_plan" /\ Tables[5] = "tunnel" /\ Tables[6] = "ssh_key_pair"
  /\ Tables[7] = "auth_token" /\ Tables[8] = "certificate_info"
  /\ Tables[9] = "api_stats" /\ Tables[10] = "ca_stats" /\ Tables[11] = "payment_info"
  /\ Tables[12] = "user_usage" /\ Tables[13] = "audit_log" /\ Tables[14] = "billing_event"
<1> DEFINE S == {"user", "service_plan", "pricing", "user_service_plan", "tunnel", "ssh_key_pair",
                 "auth_token", "certificate_info", "api_stats", "ca_stats", "payment_info",
                 "user_usage", "audit_log", "billing_event"}
<1>1. AccountTables \in Seq(S) /\ Len(AccountTables) = 8
  <2>1. Len(AccountTables) = 8
    BY DEF AccountTables
  <2>2. AccountTables \in Seq(S)
    BY DEF AccountTables
  <2> QED BY <2>1, <2>2
<1>2. RecordTables \in Seq(S) /\ Len(RecordTables) = 6
  <2>1. Len(RecordTables) = 6
    BY DEF RecordTables
  <2>2. RecordTables \in Seq(S)
    BY DEF RecordTables
  <2> QED BY <2>1, <2>2
<1> HIDE DEF S
<1>3. /\ Len(Tables) = 14 /\ \A i \in 1..8 : Tables[i] = AccountTables[i]
      /\ \A i \in 9..14 : Tables[i] = RecordTables[i - 8]
  <2>1. /\ Len(Tables) = 8 + 6
        /\ \A i \in 1..8 + 6 : Tables[i] = IF i <= 8 THEN AccountTables[i] ELSE RecordTables[i - 8]
    <3>1. /\ Len(AccountTables \o RecordTables) = Len(AccountTables) + Len(RecordTables)
          /\ \A i \in 1 .. Len(AccountTables) + Len(RecordTables) : (AccountTables \o RecordTables)[i] =
                IF i <= Len(AccountTables) THEN AccountTables[i] ELSE RecordTables[i - Len(AccountTables)]
      BY <1>1, <1>2, ConcatProperties
    <3> QED BY <1>1, <1>2, <3>1 DEF Tables
  <2> QED BY <2>1
<1>4. /\ Tables[1] = AccountTables[1] /\ Tables[2] = AccountTables[2] /\ Tables[3] = AccountTables[3]
      /\ Tables[4] = AccountTables[4] /\ Tables[5] = AccountTables[5] /\ Tables[6] = AccountTables[6]
      /\ Tables[7] = AccountTables[7] /\ Tables[8] = AccountTables[8]
      /\ Tables[9] = RecordTables[1] /\ Tables[10] = RecordTables[2] /\ Tables[11] = RecordTables[3]
      /\ Tables[12] = RecordTables[4] /\ Tables[13] = RecordTables[5] /\ Tables[14] = RecordTables[6]
  BY <1>3
<1> QED BY <1>3, <1>4 DEF AccountTables, RecordTables

\* No table is created twice.
LEMMA TablesDiffer == Distinct(Tables, 14)
BY TablesAre DEF Distinct

\* No index is created twice, and each is on a table of the first migration.
LEMMA IndexesDiffer ==
  /\ Len(UniqueIndexes) = 7 /\ Distinct(UniqueIndexes, 7)
  /\ \A i \in 1..7 : UniqueIndexes[i][1] \in TableSet
BY TablesAre DEF UniqueIndexes, TableSet, Distinct

\* The positions of the three sequences.
LEMMA TableDomains ==
  DOMAIN Tables = 1..14 /\ DOMAIN UniqueIndexes = 1..7 /\ DOMAIN ForeignKeys = 1..13
BY DEF Tables, AccountTables, RecordTables, UniqueIndexes, ForeignKeys

\* Every foreign key leads from and to tables of the first migration.
LEMMA KeysAre ==
  /\ Len(ForeignKeys) = 13 
  /\ \A i \in 1..13 : ForeignKeys[i].of \in TableSet /\ ForeignKeys[i].to \in TableSet
<1>1. Len(ForeignKeys) = 13 
  BY DEF ForeignKeys
<1>2. /\ "user" \in TableSet /\ "service_plan" \in TableSet /\ "pricing" \in TableSet
      /\ "user_service_plan" \in TableSet /\ "tunnel" \in TableSet /\ "ssh_key_pair" \in TableSet
      /\ "auth_token" \in TableSet /\ "certificate_info" \in TableSet /\ "api_stats" \in TableSet
      /\ "ca_stats" \in TableSet /\ "payment_info" \in TableSet /\ "user_usage" \in TableSet
      /\ "audit_log" \in TableSet /\ "billing_event" \in TableSet
  BY TablesAre DEF TableSet
<1>3. \A i \in 1..13 : ForeignKeys[i].of \in TableSet /\ ForeignKeys[i].to \in TableSet
  <2>1. /\ ForeignKeys[1].of = "pricing" /\ ForeignKeys[1].to = "service_plan"
        /\ ForeignKeys[2].of = "user_service_plan" /\ ForeignKeys[2].to = "user"
        /\ ForeignKeys[3].of = "user_service_plan" /\ ForeignKeys[3].to = "service_plan"
        /\ ForeignKeys[4].of = "tunnel" /\ ForeignKeys[4].to = "user"
        /\ ForeignKeys[5].of = "tunnel" /\ ForeignKeys[5].to = "ssh_key_pair"
        /\ ForeignKeys[6].of = "tunnel" /\ ForeignKeys[6].to = "certificate_info"
        /\ ForeignKeys[7].of = "auth_token" /\ ForeignKeys[7].to = "user"
        /\ ForeignKeys[8].of = "payment_info" /\ ForeignKeys[8].to = "user"
        /\ ForeignKeys[9].of = "user_usage" /\ ForeignKeys[9].to = "user"
        /\ ForeignKeys[10].of = "audit_log" /\ ForeignKeys[10].to = "user"
        /\ ForeignKeys[11].of = "billing_event" /\ ForeignKeys[11].to = "user"
        /\ ForeignKeys[12].of = "billing_event" /\ ForeignKeys[12].to = "service_plan"
        /\ ForeignKeys[13].of = "api_stats" /\ ForeignKeys[13].to = "ca_stats"
    BY DEF ForeignKeys, Key
  <2> QED BY <1>2, <2>1
<1> QED BY <1>1, <1>3

\* No foreign key is created twice: table and column tell them apart.
LEMMA KeysDiffer == Distinct(ForeignKeys, 13)
<1>1. /\ ForeignKeys[1].of = "pricing"
      /\ ForeignKeys[2].of = "user_service_plan" /\ ForeignKeys[2].column = "user_id"
      /\ ForeignKeys[3].of = "user_service_plan" /\ ForeignKeys[3].column = "service_plan_id"
      /\ ForeignKeys[4].of = "tunnel" /\ ForeignKeys[4].column = "user_id"
      /\ ForeignKeys[5].of = "tunnel" /\ ForeignKeys[5].column = "ssh_key_pair_id"
      /\ ForeignKeys[6].of = "tunnel" /\ ForeignKeys[6].column = "certificate_serial"
      /\ ForeignKeys[7].of = "auth_token" /\ ForeignKeys[8].of = "payment_info"
      /\ ForeignKeys[9].of = "user_usage" /\ ForeignKeys[10].of = "audit_log"
      /\ ForeignKeys[11].of = "billing_event" /\ ForeignKeys[11].column = "user_id"
      /\ ForeignKeys[12].of = "billing_event" /\ ForeignKeys[12].column = "service_plan_id"
      /\ ForeignKeys[13].of = "api_stats"
  BY DEF ForeignKeys, Key
<1>2. \A i, j \in 1..13 : ForeignKeys[i].of = ForeignKeys[j].of
                           /\ ForeignKeys[i].column = ForeignKeys[j].column => i = j
  BY <1>1
<1> QED BY <1>2 DEF Distinct

\* The n objects of a sequence that come up to the k-th.
First(s, n, k) == {s[i] : i \in {j \in 1..n : j <= k}}

\* The catalogue after the first l statements of up().
After(l) == [tables |-> First(Tables, 14, l), indexes |-> First(UniqueIndexes, 7, l - 14),
             keys |-> First(ForeignKeys, 13, l - 21)]

\* The l-th statement of up(), and the one that takes it back.
UpStatement(l) ==
    IF l <= 14 THEN [verb |-> "create table", on |-> Tables[l]]
    ELSE IF l <= 21 THEN [verb |-> "create index", on |-> UniqueIndexes[l - 14]]
    ELSE [verb |-> "create key", on |-> ForeignKeys[l - 21]]
DownStatement(l) ==
    IF l <= 14 THEN [verb |-> "drop table", on |-> Tables[l]]
    ELSE IF l <= 21 THEN [verb |-> "drop index", on |-> UniqueIndexes[l - 14]]
    ELSE [verb |-> "drop key", on |-> ForeignKeys[l - 21]]
Statements == {UpStatement(l) : l \in 1..34} \cup {DownStatement(l) : l \in 1..34}

\* One object more, in a sequence without repetitions.
LEMMA FirstGrows ==
    ASSUME NEW s, NEW n \in Nat, NEW k \in Int, Distinct(s, n)
    PROVE  /\ k + 1 \in 1..n => /\ First(s, n, k + 1) = First(s, n, k) \cup {s[k + 1]}
                                /\ First(s, n, k) = First(s, n, k + 1) \ {s[k + 1]}
                                /\ s[k + 1] \notin First(s, n, k) /\ s[k + 1] \in First(s, n, k + 1)
           /\ k + 1 \notin 1..n => First(s, n, k + 1) = First(s, n, k)
           /\ k <= 0 => First(s, n, k) = {}
           /\ k >= n => \A i \in 1..n : s[i] \in First(s, n, k)
<1>1. k <= 0 => First(s, n, k) = {}
  BY DEF First
<1>2. k >= n => \A i \in 1..n : s[i] \in First(s, n, k)
  BY DEF First
<1>3. ASSUME k + 1 \notin 1..n PROVE First(s, n, k + 1) = First(s, n, k)
  <2>1. {j \in 1..n : j <= k + 1} = {j \in 1..n : j <= k}
    BY <1>3
  <2> QED BY <2>1 DEF First
<1>4. ASSUME k + 1 \in 1..n
      PROVE  /\ First(s, n, k + 1) = First(s, n, k) \cup {s[k + 1]}
             /\ s[k + 1] \notin First(s, n, k)
  <2>1. {j \in 1..n : j <= k + 1} = {j \in 1..n : j <= k} \cup {k + 1}
    BY <1>4
  <2>2. s[k + 1] \notin First(s, n, k)
    BY <1>4 DEF First, Distinct
  <2> QED BY <2>1, <2>2 DEF First
<1>5. k + 1 \in 1..n => s[k + 1] \in First(s, n, k + 1)
                        /\ First(s, n, k) = First(s, n, k + 1) \ {s[k + 1]}
  BY <1>4
<1> QED BY <1>1, <1>2, <1>3, <1>4, <1>5

\* The three parts of the catalogue, one statement on.
LEMMA LevelFacts ==
    ASSUME NEW l \in 1..34
    PROVE  /\ l <= 14 =>
                /\ First(Tables, 14, l) = First(Tables, 14, l - 1) \cup {Tables[l]}
                /\ First(Tables, 14, l - 1) = First(Tables, 14, l) \ {Tables[l]}
                /\ Tables[l] \in First(Tables, 14, l)
                /\ First(UniqueIndexes, 7, l - 14) = {} /\ First(UniqueIndexes, 7, l - 1 - 14) = {}
                /\ First(ForeignKeys, 13, l - 21) = {} /\ First(ForeignKeys, 13, l - 1 - 21) = {}
           /\ l > 14 => /\ First(Tables, 14, l) = First(Tables, 14, l - 1)
                        /\ First(Tables, 14, l - 1) = TableSet
           /\ l > 14 /\ l <= 21 =>
                /\ First(UniqueIndexes, 7, l - 14) = First(UniqueIndexes, 7, l - 1 - 14) \cup {UniqueIndexes[l - 14]}
                /\ First(UniqueIndexes, 7, l - 1 - 14) = First(UniqueIndexes, 7, l - 14) \ {UniqueIndexes[l - 14]}
                /\ UniqueIndexes[l - 14] \in First(UniqueIndexes, 7, l - 14)
                /\ UniqueIndexes[l - 14] \notin First(UniqueIndexes, 7, l - 1 - 14)
                /\ First(ForeignKeys, 13, l - 21) = {} /\ First(ForeignKeys, 13, l - 1 - 21) = {}
           /\ l > 21 =>
                /\ First(UniqueIndexes, 7, l - 14) = First(UniqueIndexes, 7, l - 1 - 14)
                /\ First(ForeignKeys, 13, l - 21) = First(ForeignKeys, 13, l - 1 - 21) \cup {ForeignKeys[l - 21]}
                /\ First(ForeignKeys, 13, l - 1 - 21) = First(ForeignKeys, 13, l - 21) \ {ForeignKeys[l - 21]}
                /\ ForeignKeys[l - 21] \in First(ForeignKeys, 13, l - 21)
                /\ ForeignKeys[l - 21] \notin First(ForeignKeys, 13, l - 1 - 21)
<1>0. /\ l - 1 \in Int /\ l - 1 - 14 \in Int /\ l - 1 - 21 \in Int
      /\ (l - 1) + 1 = l /\ (l - 1 - 14) + 1 = l - 14 /\ (l - 1 - 21) + 1 = l - 21
      /\ l \in Int /\ l - 14 \in Int /\ l - 21 \in Int
  OBVIOUS
<1> DEFINE t == l - 1  x == l - 1 - 14  k == l - 1 - 21
<1>1. /\ t + 1 \in 1..14 => /\ First(Tables, 14, t + 1) = First(Tables, 14, t) \cup {Tables[t + 1]}
                            /\ First(Tables, 14, t) = First(Tables, 14, t + 1) \ {Tables[t + 1]}
                            /\ Tables[t + 1] \in First(Tables, 14, t + 1)
      /\ t + 1 \notin 1..14 => First(Tables, 14, t + 1) = First(Tables, 14, t)
  <2>1. t \in Int
    BY <1>0
  <2> HIDE DEF t
  <2> QED BY <2>1, TablesDiffer, FirstGrows
<1>2. t >= 14 => First(Tables, 14, t) = TableSet
  BY <1>0 DEF First, TableSet
<1>3. /\ x + 1 \in 1..7 =>
            /\ First(UniqueIndexes, 7, x + 1) = First(UniqueIndexes, 7, x) \cup {UniqueIndexes[x + 1]}
            /\ First(UniqueIndexes, 7, x) = First(UniqueIndexes, 7, x + 1) \ {UniqueIndexes[x + 1]}
            /\ UniqueIndexes[x + 1] \in First(UniqueIndexes, 7, x + 1)
            /\ UniqueIndexes[x + 1] \notin First(UniqueIndexes, 7, x)
      /\ x + 1 \notin 1..7 => First(UniqueIndexes, 7, x + 1) = First(UniqueIndexes, 7, x)
      /\ x <= 0 => First(UniqueIndexes, 7, x) = {}
  <2>1. x \in Int
    BY <1>0
  <2> HIDE DEF x
  <2> QED BY <2>1, IndexesDiffer, FirstGrows
<1>4. /\ k + 1 \in 1..13 =>
            /\ First(ForeignKeys, 13, k + 1) = First(ForeignKeys, 13, k) \cup {ForeignKeys[k + 1]}
            /\ First(ForeignKeys, 13, k) = First(ForeignKeys, 13, k + 1) \ {ForeignKeys[k + 1]}
            /\ ForeignKeys[k + 1] \in First(ForeignKeys, 13, k + 1)
            /\ ForeignKeys[k + 1] \notin First(ForeignKeys, 13, k)
      /\ k + 1 \notin 1..13 => First(ForeignKeys, 13, k + 1) = First(ForeignKeys, 13, k)
      /\ k <= 0 => First(ForeignKeys, 13, k) = {}
  <2>1. k \in Int
    BY <1>0
  <2> HIDE DEF k
  <2> QED BY <2>1, KeysDiffer, FirstGrows
<1>5. t + 1 = l /\ x + 1 = l - 14 /\ k + 1 = l - 21
  BY <1>0
<1>6. CASE l <= 14
  BY <1>0, <1>1, <1>3, <1>4, <1>5, <1>6
<1>7. CASE l > 14 /\ l <= 21
  BY <1>0, <1>1, <1>2, <1>3, <1>4, <1>5, <1>7
<1>8. CASE l > 21
  BY <1>0, <1>1, <1>2, <1>3, <1>4, <1>5, <1>8
<1> QED BY <1>6, <1>7, <1>8

\* The three kinds of statements.
LEMMA StatementKinds ==
    ASSUME NEW l \in 1..34
    PROVE  /\ l <= 14 => /\ UpStatement(l) = [verb |-> "create table", on |-> Tables[l]]
                         /\ DownStatement(l) = [verb |-> "drop table", on |-> Tables[l]]
           /\ l > 14 /\ l <= 21 =>
                /\ UpStatement(l) = [verb |-> "create index", on |-> UniqueIndexes[l - 14]]
                /\ DownStatement(l) = [verb |-> "drop index", on |-> UniqueIndexes[l - 14]]
                /\ l - 14 \in 1..7
           /\ l > 21 =>
                /\ UpStatement(l) = [verb |-> "create key", on |-> ForeignKeys[l - 21]]
                /\ DownStatement(l) = [verb |-> "drop key", on |-> ForeignKeys[l - 21]]
                /\ l - 21 \in 1..13
           /\ UpStatement(l) \in Statements /\ DownStatement(l) \in Statements
<1>1. l > 14 => ~(l <= 14)
  OBVIOUS
<1>2. l > 21 => ~(l <= 14) /\ ~(l <= 21)
  OBVIOUS
<1>3. (l > 14 /\ l <= 21 => l - 14 \in 1..7) /\ (l > 21 => l - 21 \in 1..13)
  OBVIOUS
<1>4. UpStatement(l) \in Statements /\ DownStatement(l) \in Statements
  BY DEF Statements
<1>5. CASE l <= 14
  BY <1>1, <1>2, <1>4, <1>5, Zenon DEF UpStatement, DownStatement
<1>6. CASE l > 14 /\ l <= 21
  <2>1. ~(l <= 14) /\ ~(l > 21)
    BY <1>6
  <2> QED BY <1>3, <1>4, <1>6, <2>1, Zenon DEF UpStatement, DownStatement
<1>7. CASE l > 21
  <2>1. ~(l <= 14) /\ ~(l <= 21)
    BY <1>7
  <2> QED BY <1>3, <1>4, <1>7, <2>1, Zenon DEF UpStatement, DownStatement
<1>8. l <= 14 \/ (l > 14 /\ l <= 21) \/ l > 21
  OBVIOUS
<1> QED BY <1>5, <1>6, <1>7, <1>8, Zenon

\* A function on the first numbers is a sequence.
LEMMA FunctionSequence ==
    ASSUME NEW S, NEW n \in Nat, NEW f \in [1..n -> S]
    PROVE  f \in Seq(S) /\ Len(f) = n
<1>1. f \in Seq(S)
  BY SeqDef
<1>2. DOMAIN f = 1..n
  OBVIOUS
<1> QED BY <1>1, <1>2, LenProperties

\* No statement of up() is refused, and each leads to the next catalogue.
LEMMA UpPossible ==
    ASSUME NEW l \in 1..34
    PROVE  /\ Possible(UpStatement(l), After(l - 1))
           /\ Result(UpStatement(l), After(l - 1)) = After(l)
<1> DEFINE s == UpStatement(l)  c == After(l - 1)
<1>1. CASE l <= 14
  <2>1. s = [verb |-> "create table", on |-> Tables[l]]
    BY <1>1, StatementKinds
  <2>2. Result(s, c) = [c EXCEPT !.tables = @ \cup {Tables[l]}] /\ Possible(s, c)
    <3> HIDE DEF s, c
    <3> QED BY <2>1 DEF Result, Possible
  <2>8. /\ First(Tables, 14, l) = First(Tables, 14, l - 1) \cup {Tables[l]}
        /\ First(UniqueIndexes, 7, l - 14) = First(UniqueIndexes, 7, l - 1 - 14)
        /\ First(ForeignKeys, 13, l - 21) = First(ForeignKeys, 13, l - 1 - 21)
    <3>1. First(Tables, 14, l) = First(Tables, 14, l - 1) \cup {Tables[l]}
      BY <1>1, LevelFacts
    <3>2. First(UniqueIndexes, 7, l - 14) = {} /\ First(UniqueIndexes, 7, l - 1 - 14) = {}
      BY <1>1, LevelFacts
    <3>3. First(ForeignKeys, 13, l - 21) = {} /\ First(ForeignKeys, 13, l - 1 - 21) = {}
      BY <1>1, LevelFacts
    <3> QED BY <3>1, <3>2, <3>3
  <2>9. /\ After(l) = [tables |-> First(Tables, 14, l), indexes |-> First(UniqueIndexes, 7, l - 14), keys |-> First(ForeignKeys, 13, l - 21)]
        /\ After(l - 1) = [tables |-> First(Tables, 14, l - 1), indexes |-> First(UniqueIndexes, 7, l - 1 - 14), keys |-> First(ForeignKeys, 13, l - 1 - 21)]
    BY DEF After
  <2> QED BY <2>2, <2>8, <2>9
<1>2. CASE l > 14 /\ l <= 21
  <2>1. s = [verb |-> "create index", on |-> UniqueIndexes[l - 14]] /\ l - 14 \in 1..7
    BY <1>2, StatementKinds
  <2>2. /\ Result(s, c) = [c EXCEPT !.indexes = @ \cup {UniqueIndexes[l - 14]}]
        /\ Possible(s, c) <=> UniqueIndexes[l - 14][1] \in c.tables /\ UniqueIndexes[l - 14] \notin c.indexes
    <3> HIDE DEF s, c
    <3> QED BY <2>1 DEF Result, Possible
  <2>3. UniqueIndexes[l - 14][1] \in c.tables
    BY <1>2, <2>1, IndexesDiffer, LevelFacts DEF After
  <2>8. /\ First(Tables, 14, l) = First(Tables, 14, l - 1)
        /\ First(UniqueIndexes, 7, l - 14) = First(UniqueIndexes, 7, l - 1 - 14) \cup {UniqueIndexes[l - 14]} /\ UniqueIndexes[l - 14] \notin First(UniqueIndexes, 7, l - 1 - 14)
        /\ First(ForeignKeys, 13, l - 21) = First(ForeignKeys, 13, l - 1 - 21)
    BY <1>2, LevelFacts
  <2>9. /\ After(l) = [tables |-> First(Tables, 14, l), indexes |-> First(UniqueIndexes, 7, l - 14), keys |-> First(ForeignKeys, 13, l - 21)]
        /\ After(l - 1) = [tables |-> First(Tables, 14, l - 1), indexes |-> First(UniqueIndexes, 7, l - 1 - 14), keys |-> First(ForeignKeys, 13, l - 1 - 21)]
    BY DEF After
  <2> QED BY <2>2, <2>3, <2>8, <2>9
<1>3. CASE l > 21
  <2>1. s = [verb |-> "create key", on |-> ForeignKeys[l - 21]] /\ l - 21 \in 1..13
    BY <1>3, StatementKinds
  <2>2. /\ Result(s, c) = [c EXCEPT !.keys = @ \cup {ForeignKeys[l - 21]}]
        /\ Possible(s, c) <=> /\ {ForeignKeys[l - 21].of, ForeignKeys[l - 21].to} \subseteq c.tables
                              /\ ForeignKeys[l - 21] \notin c.keys
    <3> HIDE DEF s, c
    <3> QED BY <2>1 DEF Result, Possible
  <2>3. ForeignKeys[l - 21].of \in c.tables /\ ForeignKeys[l - 21].to \in c.tables
    <3>1. c.tables = TableSet
      BY <1>3, LevelFacts DEF After
    <3> QED BY <2>1, <3>1, KeysAre
  <2>8. /\ First(Tables, 14, l) = First(Tables, 14, l - 1)
        /\ First(UniqueIndexes, 7, l - 14) = First(UniqueIndexes, 7, l - 1 - 14)
        /\ First(ForeignKeys, 13, l - 21) = First(ForeignKeys, 13, l - 1 - 21) \cup {ForeignKeys[l - 21]} /\ ForeignKeys[l - 21] \notin First(ForeignKeys, 13, l - 1 - 21)
    BY <1>3, LevelFacts
  <2>9. /\ After(l) = [tables |-> First(Tables, 14, l), indexes |-> First(UniqueIndexes, 7, l - 14), keys |-> First(ForeignKeys, 13, l - 21)]
        /\ After(l - 1) = [tables |-> First(Tables, 14, l - 1), indexes |-> First(UniqueIndexes, 7, l - 1 - 14), keys |-> First(ForeignKeys, 13, l - 1 - 21)]
    BY DEF After
  <2> QED BY <2>2, <2>3, <2>8, <2>9
<1> QED BY <1>1, <1>2, <1>3

\* No statement of down() is refused, and each takes one statement of up() back:
\* the keys are gone when the tables they lead to go.
LEMMA DownPossible ==
    ASSUME NEW l \in 1..34
    PROVE  /\ Possible(DownStatement(l), After(l))
           /\ Result(DownStatement(l), After(l)) = After(l - 1)
<1> DEFINE s == DownStatement(l)  c == After(l)
<1>1. CASE l <= 14
  <2>1. s = [verb |-> "drop table", on |-> Tables[l]]
    BY <1>1, StatementKinds
  <2>2. /\ Result(s, c) = [tables |-> c.tables \ {Tables[l]},
                           indexes |-> {i \in c.indexes : i[1] # Tables[l]},
                           keys |-> {k \in c.keys : k.of # Tables[l]}]
        /\ Possible(s, c) <=> Tables[l] \in c.tables
                                /\ \A k \in c.keys : k.to = Tables[l] => k.of = Tables[l]
    <3> HIDE DEF s, c
    <3> QED BY <2>1 DEF Result, Possible
  <2>3. c.indexes = {} /\ c.keys = {} /\ Tables[l] \in c.tables
    BY <1>1, LevelFacts DEF After
  <2>4. Possible(s, c) /\ Result(s, c) = [tables |-> c.tables \ {Tables[l]}, indexes |-> {}, keys |-> {}]
    <3> HIDE DEF s, c
    <3> QED BY <2>2, <2>3
  <2> QED BY <1>1, <2>4, LevelFacts DEF After
<1>2. CASE l > 14 /\ l <= 21
  <2>1. s = [verb |-> "drop index", on |-> UniqueIndexes[l - 14]]
    BY <1>2, StatementKinds
  <2>2. /\ Result(s, c) = [c EXCEPT !.indexes = @ \ {UniqueIndexes[l - 14]}]
        /\ Possible(s, c) <=> UniqueIndexes[l - 14] \in c.indexes
    <3> HIDE DEF s, c
    <3> QED BY <2>1 DEF Result, Possible
  <2>8. /\ First(Tables, 14, l) = First(Tables, 14, l - 1)
        /\ First(UniqueIndexes, 7, l - 1 - 14) = First(UniqueIndexes, 7, l - 14) \ {UniqueIndexes[l - 14]} /\ UniqueIndexes[l - 14] \in First(UniqueIndexes, 7, l - 14)
        /\ First(ForeignKeys, 13, l - 21) = First(ForeignKeys, 13, l - 1 - 21)
    BY <1>2, LevelFacts
  <2>9. /\ After(l) = [tables |-> First(Tables, 14, l), indexes |-> First(UniqueIndexes, 7, l - 14), keys |-> First(ForeignKeys, 13, l - 21)]
        /\ After(l - 1) = [tables |-> First(Tables, 14, l - 1), indexes |-> First(UniqueIndexes, 7, l - 1 - 14), keys |-> First(ForeignKeys, 13, l - 1 - 21)]
    BY DEF After
  <2> QED BY <2>2, <2>8, <2>9
<1>3. CASE l > 21
  <2>1. s = [verb |-> "drop key", on |-> ForeignKeys[l - 21]]
    BY <1>3, StatementKinds
  <2>2. /\ Result(s, c) = [c EXCEPT !.keys = @ \ {ForeignKeys[l - 21]}]
        /\ Possible(s, c) <=> ForeignKeys[l - 21] \in c.keys
    <3> HIDE DEF s, c
    <3> QED BY <2>1 DEF Result, Possible
  <2>8. /\ First(Tables, 14, l) = First(Tables, 14, l - 1)
        /\ First(UniqueIndexes, 7, l - 14) = First(UniqueIndexes, 7, l - 1 - 14)
        /\ First(ForeignKeys, 13, l - 1 - 21) = First(ForeignKeys, 13, l - 21) \ {ForeignKeys[l - 21]} /\ ForeignKeys[l - 21] \in First(ForeignKeys, 13, l - 21)
    BY <1>3, LevelFacts
  <2>9. /\ After(l) = [tables |-> First(Tables, 14, l), indexes |-> First(UniqueIndexes, 7, l - 14), keys |-> First(ForeignKeys, 13, l - 21)]
        /\ After(l - 1) = [tables |-> First(Tables, 14, l - 1), indexes |-> First(UniqueIndexes, 7, l - 1 - 14), keys |-> First(ForeignKeys, 13, l - 1 - 21)]
    BY DEF After
  <2> QED BY <2>2, <2>8, <2>9
<1> QED BY <1>1, <1>2, <1>3

\* The statements of both migrations, in the order in which up() runs them.
LEMMA UpSequence ==
    /\ PendingUp(0) \in Seq(Statements) /\ Len(PendingUp(0)) = 34
    /\ \A i \in 1..34 : PendingUp(0)[i] = UpStatement(i)
    /\ PendingUp(2) = <<>>
<1> DEFINE a == Each("create table", Tables)
           b == Each("create index", UniqueIndexes)
           d == Each("create key", ForeignKeys)
<1>1. a \in Seq(Statements) /\ Len(a) = 14 /\ \A i \in 1..14 : a[i] = UpStatement(i)
  <2>1. a = [i \in 1..14 |-> [verb |-> "create table", on |-> Tables[i]]]
    BY TableDomains DEF Each
  <2>2. ASSUME NEW i \in 1..14 PROVE a[i] = UpStatement(i) /\ UpStatement(i) \in Statements
    <3>1. i \in 1..34 /\ i <= 14
      OBVIOUS
    <3> HIDE DEF a
    <3> QED BY <2>1, <3>1, StatementKinds
  <2>3. a \in [1..14 -> Statements]
    BY <2>1, <2>2
  <2> HIDE DEF a
  <2>4. a \in Seq(Statements) /\ Len(a) = 14
    BY <2>3, FunctionSequence
  <2> QED BY <2>2, <2>4
<1>2. b \in Seq(Statements) /\ Len(b) = 7 /\ \A i \in 1..7 : b[i] = UpStatement(i + 14)
  <2>1. b = [i \in 1..7 |-> [verb |-> "create index", on |-> UniqueIndexes[i]]]
    BY TableDomains DEF Each
  <2>2. ASSUME NEW i \in 1..7 PROVE b[i] = UpStatement(i + 14) /\ UpStatement(i + 14) \in Statements
    <3>1. i + 14 \in 1..34 /\ i + 14 > 14 /\ i + 14 <= 21 /\ (i + 14) - 14 = i
      OBVIOUS
    <3> HIDE DEF b
    <3> QED BY <2>1, <3>1, StatementKinds
  <2>3. b \in [1..7 -> Statements]
    BY <2>1, <2>2
  <2> HIDE DEF b
  <2>4. b \in Seq(Statements) /\ Len(b) = 7
    BY <2>3, FunctionSequence
  <2> QED BY <2>2, <2>4
<1>3. d \in Seq(Statements) /\ Len(d) = 13 /\ \A i \in 1..13 : d[i] = UpStatement(i + 21)
  <2>1. d = [i \in 1..13 |-> [verb |-> "create key", on |-> ForeignKeys[i]]]
    BY TableDomains DEF Each
  <2>2. ASSUME NEW i \in 1..13 PROVE d[i] = UpStatement(i + 21) /\ UpStatement(i + 21) \in Statements
    <3>1. i + 21 \in 1..34 /\ i + 21 > 21 /\ (i + 21) - 21 = i
      OBVIOUS
    <3> HIDE DEF d
    <3> QED BY <2>1, <3>1, StatementKinds
  <2>3. d \in [1..13 -> Statements]
    BY <2>1, <2>2
  <2> HIDE DEF d
  <2>4. d \in Seq(Statements) /\ Len(d) = 13
    BY <2>3, FunctionSequence
  <2> QED BY <2>2, <2>4
<1>4. PendingUp(0) = a \o (b \o d) /\ PendingUp(2) = <<>>
  <2>1. Up[1] = a /\ Up[2] = b \o d
    BY DEF Up
  <2>2. PendingUp(0) = Up[1] \o Up[2]
    <3>1. 0 # 1 /\ 0 # 2
      OBVIOUS
    <3> QED BY <3>1, Zenon DEF PendingUp
  <2>3. PendingUp(2) = <<>>
    BY DEF PendingUp
  <2> QED BY <2>1, <2>2, <2>3
<1> HIDE DEF a, b, d
<1> DEFINE e == b \o d  w == a \o e
<1>5. e \in Seq(Statements) /\ Len(e) = 20 /\ \A i \in 1..20 : e[i] = UpStatement(i + 14)
  <2>1. /\ e \in Seq(Statements) /\ Len(e) = Len(b) + Len(d)
        /\ \A i \in 1 .. Len(b) + Len(d) : e[i] = IF i <= Len(b) THEN b[i] ELSE d[i - Len(b)]
    BY <1>2, <1>3, ConcatProperties
  <2> HIDE DEF e
  <2>2. Len(e) = 20 /\ \A i \in 1..20 : e[i] = IF i <= 7 THEN b[i] ELSE d[i - 7]
    BY <1>2, <1>3, <2>1
  <2>3. ASSUME NEW i \in 1..20 PROVE e[i] = UpStatement(i + 14)
    <3>1. CASE i <= 7
      BY <1>2, <2>2, <3>1
    <3>2. CASE i > 7
      <4>1. i - 7 \in 1..13 /\ (i - 7) + 21 = i + 14
        BY <3>2
      <4>2. e[i] = d[i - 7]
        BY <2>2, <3>2
      <4>3. d[i - 7] = UpStatement((i - 7) + 21)
        BY <1>3, <4>1
      <4> QED BY <4>1, <4>2, <4>3
    <3> QED BY <3>1, <3>2
  <2> QED BY <2>1, <2>2, <2>3
<1> HIDE DEF e
<1>6. w \in Seq(Statements) /\ Len(w) = 34 /\ \A i \in 1..34 : w[i] = UpStatement(i)
  <2>1. /\ w \in Seq(Statements) /\ Len(w) = Len(a) + Len(e)
        /\ \A i \in 1 .. Len(a) + Len(e) : w[i] = IF i <= Len(a) THEN a[i] ELSE e[i - Len(a)]
    BY <1>1, <1>5, ConcatProperties
  <2> HIDE DEF w
  <2>2. Len(w) = 34 /\ \A i \in 1..34 : w[i] = IF i <= 14 THEN a[i] ELSE e[i - 14]
    BY <1>1, <1>5, <2>1
  <2>3. ASSUME NEW i \in 1..34 PROVE w[i] = UpStatement(i)
    <3>1. CASE i <= 14
      <4>1. w[i] = a[i] /\ i \in 1..14
        BY <2>2, <3>1
      <4>2. a[i] = UpStatement(i)
        BY <1>1, <4>1
      <4> QED BY <4>1, <4>2
    <3>2. CASE i > 14
      <4>1. i - 14 \in 1..20 /\ (i - 14) + 14 = i
        BY <3>2
      <4>2. w[i] = e[i - 14]
        BY <2>2, <3>2
      <4>3. e[i - 14] = UpStatement((i - 14) + 14)
        BY <1>5, <4>1
      <4> QED BY <4>1, <4>2, <4>3
    <3> QED BY <3>1, <3>2
  <2> QED BY <2>1, <2>2, <2>3
<1>7. PendingUp(0) = w
  BY <1>4 DEF e
<1> HIDE DEF w
<1> QED BY <1>4, <1>6, <1>7

\* Those of down(): the same ones taken back from the last to the first.
LEMMA DownSequence ==
    /\ Reverted(2) \in Seq(Statements) /\ Len(Reverted(2)) = 34
    /\ \A i \in 1..34 : Reverted(2)[i] = DownStatement(35 - i)
    /\ Reverted(0) = <<>>
<1>1. DropTables \in Seq(Statements) /\ Len(DropTables) = 14 /\ \A i \in 1..14 : DropTables[i] = DownStatement(15 - i)
  <2>1. DropTables = [i \in 1..14 |-> [verb |-> "drop table", on |-> Tables[15 - i]]]
    BY TablesAre DEF DropTables, Each, Reverse
  <2>2. ASSUME NEW i \in 1..14 PROVE DropTables[i] = DownStatement(15 - i) /\ DownStatement(15 - i) \in Statements
    <3>1. 15 - i \in 1..34 /\ 15 - i <= 14
      OBVIOUS
    <3> QED BY <2>1, <3>1, StatementKinds
  <2>3. DropTables \in [1..14 -> Statements]
    BY <2>1, <2>2
  <2>4. DropTables \in Seq(Statements) /\ Len(DropTables) = 14
    BY <2>3, FunctionSequence
  <2> QED BY <2>2, <2>4
<1>2. DropIndexes \in Seq(Statements) /\ Len(DropIndexes) = 7 /\ \A i \in 1..7 : DropIndexes[i] = DownStatement(22 - i)
  <2>1. DropIndexes = [i \in 1..7 |-> [verb |-> "drop index", on |-> UniqueIndexes[8 - i]]]
    BY IndexesDiffer DEF DropIndexes, Each, Reverse
  <2>2. ASSUME NEW i \in 1..7 PROVE DropIndexes[i] = DownStatement(22 - i) /\ DownStatement(22 - i) \in Statements
    <3>1. 22 - i \in 1..34 /\ 22 - i > 14 /\ 22 - i <= 21 /\ (22 - i) - 14 = 8 - i
      OBVIOUS
    <3> QED BY <2>1, <3>1, StatementKinds
  <2>3. DropIndexes \in [1..7 -> Statements]
    BY <2>1, <2>2
  <2>4. DropIndexes \in Seq(Statements) /\ Len(DropIndexes) = 7
    BY <2>3, FunctionSequence
  <2> QED BY <2>2, <2>4
<1>3. DropKeys \in Seq(Statements) /\ Len(DropKeys) = 13 /\ \A i \in 1..13 : DropKeys[i] = DownStatement(35 - i)
  <2>1. DropKeys = [i \in 1..13 |-> [verb |-> "drop key", on |-> ForeignKeys[14 - i]]]
    BY KeysAre DEF DropKeys, Each, Reverse
  <2>2. ASSUME NEW i \in 1..13 PROVE DropKeys[i] = DownStatement(35 - i) /\ DownStatement(35 - i) \in Statements
    <3>1. 35 - i \in 1..34 /\ 35 - i > 21 /\ (35 - i) - 21 = 14 - i
      OBVIOUS
    <3> QED BY <2>1, <3>1, StatementKinds
  <2>3. DropKeys \in [1..13 -> Statements]
    BY <2>1, <2>2
  <2>4. DropKeys \in Seq(Statements) /\ Len(DropKeys) = 13
    BY <2>3, FunctionSequence
  <2> QED BY <2>2, <2>4
<1>4. Reverted(2) = (DropKeys \o DropIndexes) \o DropTables /\ Reverted(0) = <<>>
  BY DEF Reverted, Down
<1> DEFINE e == DropKeys \o DropIndexes  w == e \o DropTables
<1>5. e \in Seq(Statements) /\ Len(e) = 20 /\ \A i \in 1..20 : e[i] = DownStatement(35 - i)
  <2>1. /\ e \in Seq(Statements) /\ Len(e) = Len(DropKeys) + Len(DropIndexes)
        /\ \A i \in 1 .. Len(DropKeys) + Len(DropIndexes) :
              e[i] = IF i <= Len(DropKeys) THEN DropKeys[i] ELSE DropIndexes[i - Len(DropKeys)]
    BY <1>2, <1>3, ConcatProperties
  <2> HIDE DEF e
  <2>2. Len(e) = 20 /\ \A i \in 1..20 : e[i] = IF i <= 13 THEN DropKeys[i] ELSE DropIndexes[i - 13]
    BY <1>2, <1>3, <2>1
  <2>3. ASSUME NEW i \in 1..20 PROVE e[i] = DownStatement(35 - i)
    <3>1. CASE i <= 13
      <4>1. e[i] = DropKeys[i] /\ i \in 1..13
        BY <2>2, <3>1
      <4>2. DropKeys[i] = DownStatement(35 - i)
        BY <1>3, <4>1
      <4> QED BY <4>1, <4>2
    <3>2. CASE i > 13
      <4>1. i - 13 \in 1..7 /\ 22 - (i - 13) = 35 - i
        BY <3>2
      <4> QED BY <1>2, <2>2, <3>2, <4>1
    <3> QED BY <3>1, <3>2
  <2> QED BY <2>1, <2>2, <2>3
<1> HIDE DEF e
<1>6. w \in Seq(Statements) /\ Len(w) = 34 /\ \A i \in 1..34 : w[i] = DownStatement(35 - i)
  <2>1. /\ w \in Seq(Statements) /\ Len(w) = Len(e) + Len(DropTables)
        /\ \A i \in 1 .. Len(e) + Len(DropTables) :
              w[i] = IF i <= Len(e) THEN e[i] ELSE DropTables[i - Len(e)]
    BY <1>1, <1>5, ConcatProperties
  <2> HIDE DEF w
  <2>2. Len(w) = 34 /\ \A i \in 1..34 : w[i] = IF i <= 20 THEN e[i] ELSE DropTables[i - 20]
    BY <1>1, <1>5, <2>1
  <2>3. ASSUME NEW i \in 1..34 PROVE w[i] = DownStatement(35 - i)
    <3>1. CASE i <= 20
      <4>1. w[i] = e[i] /\ i \in 1..20
        BY <2>2, <3>1
      <4>2. e[i] = DownStatement(35 - i)
        BY <1>5, <4>1
      <4> QED BY <4>1, <4>2
    <3>2. CASE i > 20
      <4>1. i - 20 \in 1..14 /\ 15 - (i - 20) = 35 - i
        BY <3>2
      <4>2. w[i] = DropTables[i - 20]
        BY <2>2, <3>2
      <4>3. DropTables[i - 20] = DownStatement(15 - (i - 20))
        BY <1>1, <4>1
      <4> QED BY <4>1, <4>2, <4>3
    <3> QED BY <3>1, <3>2
  <2> QED BY <2>1, <2>2, <2>3
<1>7. Reverted(2) = w
  BY <1>4 DEF e
<1> HIDE DEF w
<1> QED BY <1>4, <1>6, <1>7

\* A command's work and what is left of it: every catalogue on the way is one
\* that up() passes through.
Upwards(todo, work, l) ==
    /\ l \in 0..34 /\ work = After(l) /\ todo \in Seq(Statements) /\ Len(todo) = 34 - l
    /\ \A i \in 1..34 - l : todo[i] = UpStatement(l + i)
Downwards(todo, work, l) ==
    /\ l \in 0..34 /\ work = After(l) /\ todo \in Seq(Statements) /\ Len(todo) = l
    /\ \A i \in 1..l : todo[i] = DownStatement(l + 1 - i)

OnTheWay(cmd, todo, work, base) ==
    \/ cmd \in {"up", "fresh"} /\ \E l \in 0..34 : Upwards(todo, work, l)
    \/ cmd = "down" /\ \E l \in 0..34 : Downwards(todo, work, l)
    \/ cmd = "status" /\ todo = <<>> /\ work = base

Commands == {"up", "down", "status", "fresh"}
Jobs == [cmd : Commands \cup {"none"}, at : {"connect", "run", "ended", "refused", "died", "failed"},
         tries : Nat, todo : Seq(Statements), work : {After(l) : l \in 0..34}]

MigrationInv ==
    /\ applied \in {0, 2} /\ catalog = After(IF applied = 0 THEN 0 ELSE 34)
    /\ job \in Jobs /\ job.at # "failed"
    /\ job.at \in {"connect", "run"} => job.cmd \in Commands
    /\ job.at = "run" => OnTheWay(job.cmd, job.todo, job.work, catalog)

\* An empty database, before the first statement of up().
LEMMA AfterNothing == Empty = After(0)
<1>1. First(Tables, 14, 0) = {} /\ First(UniqueIndexes, 7, 0 - 14) = {} /\ First(ForeignKeys, 13, 0 - 21) = {}
  BY DEF First
<1> QED BY <1>1 DEF Empty, After

\* A job that ends keeps nothing but its command.
LEMMA EndsFacts ==
    ASSUME job \in Jobs, NEW how \in {"ended", "refused", "died", "failed"}, Ends(how)
    PROVE  job' \in Jobs /\ job'.at = how
<1>1. <<>> \in Seq(Statements) /\ Empty \in {After(l) : l \in 0..34}
  BY AfterNothing
<1>2. job' = [cmd |-> job.cmd, at |-> how, tries |-> 0, todo |-> <<>>, work |-> Empty]
  BY DEF Ends, NoJob
<1>3. job.cmd \in Commands \cup {"none"}
  BY DEF Jobs
<1> QED BY <1>1, <1>2, <1>3 DEF Jobs

\* The transaction begins at one end of the way.
LEMMA ConnectStep ==
    ASSUME MigrationInv, Connect
    PROVE  MigrationInv'
<1>0. /\ job \in Jobs /\ job.cmd \in Commands /\ applied \in {0, 2} /\ UNCHANGED <<catalog, applied>>
      /\ catalog = After(IF applied = 0 THEN 0 ELSE 34)
  BY DEF MigrationInv, Connect
<1> DEFINE todo == CASE job.cmd = "up"     -> PendingUp(applied)
                     [] job.cmd = "down"   -> Reverted(applied)
                     [] job.cmd = "fresh"  -> PendingUp(0)
                     [] job.cmd = "status" -> <<>>
           work == IF job.cmd = "fresh" THEN Empty ELSE catalog
<1>1. job' = [cmd |-> job.cmd, at |-> "run", tries |-> 0, todo |-> todo, work |-> work]
  BY <1>0 DEF Connect, Jobs
<1>2. Upwards(PendingUp(0), After(0), 0) /\ Downwards(Reverted(2), After(34), 34)
  BY UpSequence, DownSequence DEF Upwards, Downwards
<1>3. Upwards(PendingUp(2), After(34), 34) /\ Downwards(Reverted(0), After(0), 0)
  <2>1. <<>> \in Seq(Statements) /\ Len(<<>>) = 0
    OBVIOUS
  <2>2. Upwards(<<>>, After(34), 34)
    BY <2>1 DEF Upwards
  <2>3. Downwards(<<>>, After(0), 0)
    BY <2>1 DEF Downwards
  <2> QED BY <2>2, <2>3, UpSequence, DownSequence
<1>4. OnTheWay(job.cmd, todo, work, catalog)
  <2>1. CASE job.cmd = "up"
    <3>1. todo = PendingUp(applied) /\ work = catalog
      BY <2>1
    <3> QED BY <1>0, <1>2, <1>3, <2>1, <3>1 DEF OnTheWay
  <2>2. CASE job.cmd = "down"
    <3>1. todo = Reverted(applied) /\ work = catalog
      BY <2>2
    <3> QED BY <1>0, <1>2, <1>3, <2>2, <3>1 DEF OnTheWay
  <2>3. CASE job.cmd = "fresh"
    <3>1. todo = PendingUp(0) /\ work = After(0)
      BY <2>3, AfterNothing
    <3> QED BY <1>2, <2>3, <3>1 DEF OnTheWay
  <2>4. CASE job.cmd = "status"
    <3>1. todo = <<>> /\ work = catalog
      BY <2>4
    <3> QED BY <2>4, <3>1 DEF OnTheWay
  <2> QED BY <1>0, <2>1, <2>2, <2>3, <2>4 DEF Commands
<1> HIDE DEF todo, work
<1>5. todo \in Seq(Statements) /\ work \in {After(l) : l \in 0..34}
  <2>1. catalog \in {After(l) : l \in 0..34}
    BY <1>0
  <2>2. <<>> \in Seq(Statements)
    OBVIOUS
  <2> QED BY <1>4, <2>1, <2>2 DEF OnTheWay, Upwards, Downwards
<1>6. job' \in Jobs /\ job'.at = "run" /\ job'.cmd = job.cmd /\ job'.todo = todo /\ job'.work = work
  BY <1>0, <1>1, <1>5 DEF Jobs, Commands
<1> QED BY <1>0, <1>4, <1>6 DEF MigrationInv

\* The database refuses no statement, and each takes the work one step along.
LEMMA StatementStep ==
    ASSUME MigrationInv, Statement
    PROVE  MigrationInv'
<1> DEFINE s == Head(job.todo)
<1>0. /\ job \in Jobs /\ job.cmd \in Commands /\ job.at = "run" /\ job.todo # <<>>
      /\ job.todo \in Seq(Statements) /\ UNCHANGED <<catalog, applied>>
      /\ OnTheWay(job.cmd, job.todo, job.work, catalog)
  <2>1. /\ job \in Jobs /\ job.at = "run" /\ job.todo # <<>> /\ UNCHANGED <<catalog, applied>>
        /\ job.cmd \in Commands /\ OnTheWay(job.cmd, job.todo, job.work, catalog)
    BY DEF MigrationInv, Statement
  <2>2. job.todo \in Seq(Statements)
    BY <2>1 DEF Jobs
  <2> QED BY <2>1, <2>2
<1>1. /\ s = job.todo[1] /\ Tail(job.todo) \in Seq(Statements) /\ Len(job.todo) \in Nat \ {0}
      /\ Len(Tail(job.todo)) = Len(job.todo) - 1
      /\ \A i \in 1..Len(job.todo) - 1 : Tail(job.todo)[i] = job.todo[i + 1]
  BY <1>0
<1> DEFINE rest == Tail(job.todo)
<1> HIDE DEF s, rest
<1>2. ASSUME NEW l \in 0..34, Upwards(job.todo, job.work, l)
      PROVE  /\ Possible(s, job.work) /\ Upwards(rest, Result(s, job.work), l + 1)
             /\ l + 1 \in 0..34
  <2>1. l + 1 \in 1..34 /\ (l + 1) - 1 = l /\ 34 - (l + 1) = Len(job.todo) - 1
    <3>1. Len(job.todo) = 34 - l
      BY <1>2 DEF Upwards
    <3>2. Len(job.todo) \in Nat \ {0}
      BY <1>1
    <3> QED BY <3>1, <3>2
  <2>2. s = UpStatement(l + 1) /\ job.work = After(l)
    BY <1>1, <1>2, <2>1 DEF Upwards
  <2>3. Possible(s, job.work) /\ Result(s, job.work) = After(l + 1)
    BY <2>1, <2>2, UpPossible
  <2>4. ASSUME NEW i \in 1..34 - (l + 1) PROVE rest[i] = UpStatement((l + 1) + i)
    <3>1. rest[i] = job.todo[i + 1]
      BY <1>1, <2>1 DEF rest
    <3>2. i + 1 \in 1..34 - l /\ l + (i + 1) = (l + 1) + i
      BY <2>1
    <3>3. job.todo[i + 1] = UpStatement(l + (i + 1))
      BY <1>2, <3>2 DEF Upwards
    <3> QED BY <3>1, <3>2, <3>3
  <2>5. rest \in Seq(Statements) /\ Len(rest) = 34 - (l + 1)
    BY <1>1, <2>1 DEF rest
  <2> QED BY <2>1, <2>3, <2>4, <2>5 DEF Upwards
<1>3. ASSUME NEW l \in 0..34, Downwards(job.todo, job.work, l)
      PROVE  /\ Possible(s, job.work) /\ Downwards(rest, Result(s, job.work), l - 1)
             /\ l - 1 \in 0..34
  <2>1. l \in 1..34 /\ l - 1 = Len(job.todo) - 1 /\ l - 1 \in 0..34
    <3>1. Len(job.todo) = l
      BY <1>3 DEF Downwards
    <3>2. Len(job.todo) \in Nat \ {0}
      BY <1>1
    <3> QED BY <3>1, <3>2
  <2>2. s = DownStatement(l) /\ job.work = After(l)
    <3>1. l + 1 - 1 = l /\ 1 \in 1..l
      BY <2>1
    <3> QED BY <1>1, <1>3, <3>1 DEF Downwards
  <2>3. Possible(s, job.work) /\ Result(s, job.work) = After(l - 1)
    BY <2>1, <2>2, DownPossible
  <2>4. ASSUME NEW i \in 1..l - 1 PROVE rest[i] = DownStatement((l - 1) + 1 - i)
    <3>1. rest[i] = job.todo[i + 1]
      BY <1>1, <2>1 DEF rest
    <3>2. i + 1 \in 1..l /\ l + 1 - (i + 1) = (l - 1) + 1 - i
      BY <2>1
    <3>3. job.todo[i + 1] = DownStatement(l + 1 - (i + 1))
      BY <1>3, <3>2 DEF Downwards
    <3> QED BY <3>1, <3>2, <3>3
  <2>5. rest \in Seq(Statements) /\ Len(rest) = l - 1
    BY <1>1, <2>1 DEF rest
  <2> QED BY <2>1, <2>3, <2>4, <2>5 DEF Downwards
<1>4. /\ Possible(s, job.work) /\ OnTheWay(job.cmd, rest, Result(s, job.work), catalog)
      /\ Result(s, job.work) \in {After(l) : l \in 0..34}
  <2>1. CASE job.cmd \in {"up", "fresh"}
    <3>1. PICK l \in 0..34 : Upwards(job.todo, job.work, l)
      BY <1>0, <2>1 DEF OnTheWay
    <3>2. /\ Possible(s, job.work) /\ Upwards(rest, Result(s, job.work), l + 1) /\ l + 1 \in 0..34
      BY <1>2, <3>1
    <3>3. Result(s, job.work) = After(l + 1)
      BY <3>2 DEF Upwards
    <3> QED BY <2>1, <3>2, <3>3 DEF OnTheWay
  <2>2. CASE job.cmd = "down"
    <3>1. PICK l \in 0..34 : Downwards(job.todo, job.work, l)
      BY <1>0, <2>2 DEF OnTheWay
    <3>2. /\ Possible(s, job.work) /\ Downwards(rest, Result(s, job.work), l - 1) /\ l - 1 \in 0..34
      BY <1>3, <3>1
    <3>3. Result(s, job.work) = After(l - 1)
      BY <3>2 DEF Downwards
    <3> QED BY <2>2, <3>2, <3>3 DEF OnTheWay
  <2> QED BY <1>0, <2>1, <2>2 DEF OnTheWay
<1>5. job' = [job EXCEPT !.todo = rest, !.work = Result(s, job.work)]
  <2>1. Possible(Head(job.todo), job.work)
    BY <1>4 DEF s
  <2>2. job' = [job EXCEPT !.todo = Tail(@), !.work = Result(Head(job.todo), @)]
    BY <2>1, Zenon DEF Statement
  <2> QED BY <2>2 DEF s, rest
<1> DEFINE done == Result(s, job.work)
<1>6. rest \in Seq(Statements) /\ done \in {After(l) : l \in 0..34}
  BY <1>1, <1>4 DEF rest
<1> HIDE DEF done
<1>7. job' \in Jobs /\ job'.cmd = job.cmd /\ job'.at = "run" /\ job'.todo = rest /\ job'.work = done
  <2>1. job' = [job EXCEPT !.todo = rest, !.work = done]
    BY <1>5 DEF done
  <2> QED BY <1>0, <1>6, <2>1 DEF Jobs
<1>8. OnTheWay(job'.cmd, job'.todo, job'.work, catalog')
  BY <1>0, <1>4, <1>7 DEF done
<1> QED BY <1>0, <1>7, <1>8 DEF MigrationInv

\* What a transaction commits is one of the two ends of the way.
LEMMA CommitStep ==
    ASSUME MigrationInv, Commit
    PROVE  MigrationInv'
<1>0. /\ job \in Jobs /\ job.cmd \in Commands /\ job.todo = <<>> /\ Len(job.todo) = 0
      /\ catalog' = job.work /\ Ends("ended") /\ applied \in {0, 2}
      /\ OnTheWay(job.cmd, job.todo, job.work, catalog) /\ catalog = After(IF applied = 0 THEN 0 ELSE 34)
  BY DEF MigrationInv, Commit
<1>1. job' \in Jobs /\ job'.at = "ended"
  BY <1>0, EndsFacts
<1>2. CASE job.cmd = "status"
  <2>1. applied' = applied /\ job.work = catalog
    BY <1>0, <1>2 DEF Commit, OnTheWay
  <2> QED BY <1>0, <1>1, <2>1 DEF MigrationInv
<1>3. CASE job.cmd = "down"
  <2>1. applied' = 0
    BY <1>3 DEF Commit
  <2>2. PICK l \in 0..34 : Downwards(job.todo, job.work, l)
    BY <1>0, <1>3 DEF OnTheWay
  <2>3. job.work = After(0)
    BY <1>0, <2>2 DEF Downwards
  <2> QED BY <1>0, <1>1, <2>1, <2>3 DEF MigrationInv
<1>4. CASE job.cmd \in {"up", "fresh"}
  <2>1. applied' = 2
    <3>1. Len(Up) = 2
      BY DEF Up
    <3> QED BY <1>4, <3>1 DEF Commit
  <2>2. PICK l \in 0..34 : Upwards(job.todo, job.work, l)
    BY <1>0, <1>4 DEF OnTheWay
  <2>3. l = 34
    BY <1>0, <2>2 DEF Upwards
  <2>4. job.work = After(34)
    BY <2>2, <2>3 DEF Upwards
  <2> QED BY <1>0, <1>1, <2>1, <2>4 DEF MigrationInv
<1> QED BY <1>0, <1>2, <1>3, <1>4 DEF Commands

\* The migration runner's invariant, step by step.
LEMMA MigrationStep ==
    ASSUME MigrationInv, [MigrationNext]_dbVars
    PROVE  MigrationInv'
<1>0. job \in Jobs
  BY DEF MigrationInv
<1>1. ASSUME NEW cmd \in Commands, Command(cmd) PROVE MigrationInv'
  <2>1. job' = [cmd |-> cmd, at |-> "connect", tries |-> 0, todo |-> <<>>, work |-> Empty]
    BY <1>1 DEF Command, NoJob
  <2>2. <<>> \in Seq(Statements) /\ Empty \in {After(l) : l \in 0..34}
    BY AfterNothing
  <2>3. job' \in Jobs /\ job'.at = "connect" /\ job'.cmd = cmd
    BY <2>1, <2>2 DEF Jobs
  <2> QED BY <1>1, <2>3 DEF MigrationInv, Command
<1>2. CASE ConnectFails
  <2>1. CASE job' = [job EXCEPT !.tries = @ + 1]
    <3>1. job' \in Jobs /\ job'.at = job.at /\ job'.cmd = job.cmd
      <4> DEFINE more == job.tries + 1
      <4>1. more \in Nat /\ job' = [job EXCEPT !.tries = more]
        BY <1>0, <2>1 DEF Jobs
      <4> HIDE DEF more
      <4> QED BY <1>0, <4>1 DEF Jobs
    <3> QED BY <1>2, <3>1 DEF MigrationInv, ConnectFails
  <2>2. CASE Ends("refused")
    BY <1>0, <1>2, <2>2, EndsFacts DEF MigrationInv, ConnectFails
  <2> QED BY <1>2, <2>1, <2>2 DEF ConnectFails
<1>3. CASE RunnerDies
  <2>1. job' \in Jobs /\ job'.at = "died"
    BY <1>0, <1>3, EndsFacts DEF RunnerDies
  <2> QED BY <1>3, <2>1 DEF MigrationInv, RunnerDies
<1>4. CASE UNCHANGED <<catalog, applied, job>>
  BY <1>4 DEF MigrationInv
<1>5. ASSUME NEW e \in Entities, Repository(e) PROVE MigrationInv'
  <2>1. UNCHANGED <<catalog, applied, job>>
    BY <1>5 DEF Repository
  <2> QED BY <1>4, <2>1
<1>6. CASE Connect \/ Statement \/ Commit
  BY <1>6, ConnectStep, StatementStep, CommitStep
<1>7. CASE UNCHANGED dbVars
  BY <1>4, <1>7 DEF dbVars
<1> QED BY <1>1, <1>2, <1>3, <1>5, <1>6, <1>7 DEF MigrationNext, Commands

\* Whatever commands came before and wherever earlier runners died, the database
\* refuses no statement of up(), down() or fresh.
THEOREM MigrationsWork == MigrationSpec => []MigrationsSucceed
<1>1. MigrationInit => MigrationInv
  <2> SUFFICES ASSUME MigrationInit PROVE MigrationInv
    OBVIOUS
  <2>1. <<>> \in Seq(Statements) /\ Empty \in {After(l) : l \in 0..34}
    BY AfterNothing
  <2>2. job \in Jobs /\ job.at = "ended"
    BY <2>1 DEF MigrationInit, NoJob, Jobs
  <2> QED BY <2>2, AfterNothing DEF MigrationInit, MigrationInv
<1>2. MigrationInv /\ [MigrationNext]_dbVars => MigrationInv'
  BY MigrationStep
<1>3. MigrationInv => MigrationsSucceed
  BY DEF MigrationInv, MigrationsSucceed
<1> QED BY <1>1, <1>2, <1>3, PTL DEF MigrationSpec
=============================================================================
