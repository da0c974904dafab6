-------------------------------- MODULE MCApi --------------------------------
(***************************************************************************)
(* The management API around the tunnel handlers, and its database, for    *)
(* TLC.  The seven components share no state, so a behaviour steps one of  *)
(* them: "part" says which.                                                *)
(***************************************************************************)
EXTENDS RateLimiter, ConnectionLimiter, ApiPipeline, CircuitBreaker, ServicePlans,
        Migrations, QuotaTracker

VARIABLE part

vars == <<part, rateVars, connVars, apiVars, breakerVars, planVars, dbVars, quotaVars>>

\* Requests per minute and burst multipliers: small, with the ratios that matter.
MCRate == [api    |-> [Free |-> 2, Pro |-> 2, Enterprise |-> 2],
           tunnel |-> [Free |-> 1, Pro |-> 1, Enterprise |-> 1],
           dns    |-> [Free |-> 1, Pro |-> 2, Enterprise |-> 2]]
MCBurst == [Free |-> 1, Pro |-> 2, Enterprise |-> 3]

MCInit ==
    /\ part \in {"rate", "conn", "api", "breaker", "plans", "db", "quota"}
    /\ RateInit /\ ConnInit /\ ApiInit /\ BreakerInit /\ MigrationInit
    /\ QuotaInit
    /\ IF part = "plans" THEN PlanInit
       ELSE /\ plans = [p \in PlanIds |-> NoName] /\ namers = [p \in PlanIds |-> {}]
            /\ assigns = {} /\ hreq = [r \in PlanRequests |-> NoReq]
            /\ met = [r \in PlanRequests |-> {}]

MCNext ==
    /\ UNCHANGED part
    /\ \/ /\ part = "rate" /\ RateNext
          /\ UNCHANGED <<connVars, apiVars, breakerVars, planVars, dbVars, quotaVars>>
       \/ /\ part = "conn" /\ ConnNext
          /\ UNCHANGED <<rateVars, apiVars, breakerVars, planVars, dbVars, quotaVars>>
       \/ /\ part = "api" /\ ApiNext
          /\ UNCHANGED <<rateVars, connVars, breakerVars, planVars, dbVars, quotaVars>>
       \/ /\ part = "breaker" /\ BreakerNext
          /\ UNCHANGED <<rateVars, connVars, apiVars, planVars, dbVars, quotaVars>>
       \/ /\ part = "plans" /\ PlanNext
          /\ UNCHANGED <<rateVars, connVars, apiVars, breakerVars, dbVars, quotaVars>>
       \/ /\ part = "db" /\ MigrationNext
          /\ UNCHANGED <<rateVars, connVars, apiVars, breakerVars, planVars, quotaVars>>
       \/ /\ part = "quota" /\ QuotaNext
          /\ UNCHANGED <<rateVars, connVars, apiVars, breakerVars, planVars, dbVars>>
       \/ /\ part = "quota" /\ \A q \in QuotaRequests : pc[q] \in {"done", "denied"}
          /\ UNCHANGED vars  \* the requests are answered

MCSpec == MCInit /\ [][MCNext]_vars

\* The requests of the plan handlers, and the plans, are interchangeable.
Symmetry == Permutations(PlanRequests) \cup Permutations(PlanIds)
=============================================================================
