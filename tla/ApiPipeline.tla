----------------------------- MODULE ApiPipeline -----------------------------
(***************************************************************************)
(* A request's way through the layers of the management API               *)
(* (create_router in crates/backendapi/src/lib.rs), the tokens it may      *)
(* carry (crates/auth/src/lib.rs, handlers/auth.rs) and the reply the      *)
(* layers make of an error (error.rs, middleware/).                        *)
(*                                                                         *)
(* From the outside in: rate limit, authentication, telemetry, request     *)
(* size, timeout, error recovery, error handler, handler.  A reply only    *)
(* passes the layers outside the one that made it.  The verdicts of the    *)
(* rate limiter and of GitHub are inputs here; RateLimiter models the      *)
(* first.                                                                  *)
(***************************************************************************)
EXTENDS Integers, Sequences, FiniteSets, TLC

CONSTANTS Requests,
          DevMode,      \* config.development_mode
          Life,         \* lifetime of a token (24 hours), in seconds
          Fractions,    \* ticks in a second
          MaxClock, MaxTokens  \* bounds of the instance

ASSUME PipelineAssumption ==
    /\ DevMode \in BOOLEAN /\ Life \in Nat \ {0} /\ Fractions \in Nat \ {0}
    /\ MaxClock \in Nat /\ MaxTokens \in Nat

VARIABLES clock,        \* Utc::now().timestamp(), whole seconds
          frac,         \* what Utc::now() has beyond them
          tokens,       \* tokens handed out: the timestamp inside, the expires_at beside it,
                        \* and what the timestamp left out (history)
          req           \* each request: where it stands, what it carries, its reply

time == <<clock, frac>>
apiVars == <<time, tokens, req>>

Paths == {"oauth", "exchange", "tunnels", "admin"}

(* The credentials of a request: no header, one that is not a bearer token, *)
(* the development header or token, a token nobody signed, or the n-th      *)
(* token handed out.                                                        *)
Creds == [kind : {"none", "malformed", "devHeader", "devToken", "unsigned"}, tok : {0}]
         \cup [kind : {"token"}, tok : 1..MaxTokens]
NoCred == [kind |-> "none", tok |-> 0]

NoReply == [status |-> 0, retry |-> 0, why |-> "none"]
Fresh == [at |-> "idle", path |-> "admin", cred |-> NoCred, big |-> FALSE, ts |-> 0, tf |-> 0,
          reply |-> NoReply]

ApiInit == clock = 0 /\ frac = 0 /\ tokens = <<>> /\ req = [r \in Requests |-> Fresh]

-----------------------------------------------------------------------------
(* ApiError::get_error_info: the status of each error.                     *)

StatusErrors == (400 :> {"BadRequest", "ValidationError"})
    @@ (401 :> {"AuthenticationFailed", "Unauthorized"})
    @@ (403 :> {"AuthorizationFailed", "Forbidden", "QuotaExceeded"})
    @@ (404 :> {"TunnelNotFound", "NotFound"})
    @@ (408 :> {"RequestTimeout"})
    @@ (409 :> {"Conflict"})
    @@ (412 :> {"PreconditionFailed"})
    @@ (413 :> {"PayloadTooLarge"})
    @@ (415 :> {"UnsupportedMediaType"})
    @@ (429 :> {"RateLimitExceeded", "TooManyRequests"})
    @@ (500 :> {"CertificateError", "StorageError", "ConfigurationError", "InternalError",
                "DatabaseError"})
    @@ (502 :> {"GitHubApiError", "ExternalService"})
    @@ (503 :> {"ServiceUnavailable", "ResourceExhausted", "CircuitBreakerOpen"})
ApiErrors == UNION {StatusErrors[s] : s \in DOMAIN StatusErrors}
StatusOf(e) == CHOOSE s \in DOMAIN StatusErrors : e \in StatusErrors[s]

\* Conversions of the errors of other crates (the From impls).
FromAuthError(why) ==
    IF why \in {"Unauthorized", "ExternalService", "ConfigurationError"} THEN why
    ELSE "AuthenticationFailed"

\* apply_error_recovery: the Retry-After header a status is given, 0 for none.
RecoveryRetry(s) == CASE s = 503 -> 30 [] s = 429 -> 60 [] OTHER -> 0

Reply(r, s, retry, why) ==
    req' = [req EXCEPT ![r].at = "replied",
                       ![r].reply = [status |-> s, retry |-> retry, why |-> why]]
Goto(r, l) == req' = [req EXCEPT ![r].at = l]

\* A reply made outside the recovery layer, and one made inside it.
Refuse(r, e, retry, why) == Reply(r, StatusOf(e), retry, why)
Answer(r, e, why) == Reply(r, StatusOf(e), RecoveryRetry(StatusOf(e)), why)

-----------------------------------------------------------------------------
(* Tokens.                                                                 *)

\* extract_bearer_token_with_dev_bypass: the credential a handler is left with.
Extract(c, dev) ==
    CASE c.kind = "devHeader" -> IF dev THEN "dev" ELSE "AuthenticationFailed"
      [] c.kind = "devToken"  -> IF dev THEN "dev" ELSE "AuthenticationFailed"
      [] c.kind \in {"none", "malformed"} -> "AuthenticationFailed"
      [] OTHER -> c.kind

\* validate_jwt_token's age check: more than 24 hours, in whole seconds.
ExpiredAtLife(ts) == clock - ts >= Life
Expired(ts) == clock - ts > Life

\* Extraction and validation as the middleware and every handler call them:
\* "ok", or the error.
Authenticate(c, dev) ==
    LET x == Extract(c, dev) IN
    CASE x = "dev" -> "ok"
      [] x = "unsigned" -> "InvalidTokenSignature"
      [] x = "token" -> IF Expired(tokens[c.tok].ts) THEN "TokenExpired" ELSE "ok"
      [] OTHER -> x

IsPublicEndpoint(p) == p \in {"oauth", "exchange"}

-----------------------------------------------------------------------------
(* The layers.                                                             *)

LoginsUnderway == Cardinality({r \in Requests : req[r].at # "idle" /\ IsPublicEndpoint(req[r].path)})

Arrive(r, p, c, big) ==
    /\ req[r].at = "idle"
    /\ c.tok <= Len(tokens)
    /\ IsPublicEndpoint(p) => Len(tokens) + LoginsUnderway < MaxTokens
    /\ req' = [req EXCEPT ![r] = [Fresh EXCEPT !.at = "rate", !.path = p, !.cred = c, !.big = big]]
    /\ UNCHANGED <<time, tokens>>

\* rate_limit_middleware: its own headers, an hour for an address.
RateLayer(r, verdict) ==
    /\ req[r].at = "rate"
    /\ CASE verdict = "pass"  -> Goto(r, "auth")
         [] verdict = "ip"    -> Refuse(r, "RateLimitExceeded", 3600, "ip")
         [] verdict = "token" -> Refuse(r, "RateLimitExceeded", 60, "token")
    /\ UNCHANGED <<time, tokens>>

AuthLayer(r) ==
    /\ req[r].at = "auth"
    /\ LET a == IF IsPublicEndpoint(req[r].path) THEN "ok" ELSE Authenticate(req[r].cred, DevMode)
       IN  IF a = "ok" THEN Goto(r, "size") ELSE Refuse(r, "AuthenticationFailed", 0, a)
    /\ UNCHANGED <<time, tokens>>

RequestSizeLayer(r) ==
    /\ req[r].at = "size"
    /\ IF req[r].big THEN Refuse(r, "PayloadTooLarge", 0, "size") ELSE Goto(r, "handler")
    /\ UNCHANGED <<time, tokens>>

InHandler(r) == req[r].at \in {"handler", "validate", "generate", "promise"}

\* timeout_middleware: the handler's future is dropped at whatever await it is in.
TimeoutLayer(r) ==
    /\ InHandler(r)
    /\ req[r].at # "promise"       \* nothing is awaited between the token and the reply
    /\ Refuse(r, "RequestTimeout", 0, "timeout")
    /\ UNCHANGED <<time, tokens>>

-----------------------------------------------------------------------------
(* The handlers.                                                           *)

\* exchange_github_code, only in github_oauth.
ExchangeGithubCode(r, ok) ==
    /\ req[r].at = "handler" /\ req[r].path = "oauth"
    /\ IF ok THEN Goto(r, "validate") ELSE Answer(r, "AuthenticationFailed", "github")
    /\ UNCHANGED <<time, tokens>>

\* validate_github_token, in both logins: GitHub may refuse, or grant too little.
ValidateGithubToken(r, ok) ==
    /\ \/ req[r].at = "validate"
       \/ req[r].at = "handler" /\ req[r].path = "exchange"
    /\ IF ok THEN Goto(r, "generate") ELSE Answer(r, "AuthenticationFailed", "github")
    /\ UNCHANGED <<time, tokens>>

\* generate_jwt_token reads the clock once and keeps the whole seconds ...
GenerateJwtToken(r) ==
    /\ req[r].at = "generate"
    /\ req' = [req EXCEPT ![r].at = "promise", ![r].ts = clock, ![r].tf = frac]
    /\ UNCHANGED <<time, tokens>>

\* ... and the handler reads it again for expires_at, and keeps all of it.
HandOut(r) ==
    /\ req[r].at = "promise"
    /\ tokens' = Append(tokens, [ts |-> req[r].ts, tf |-> req[r].tf,
                                 promise |-> [s |-> clock + Life, f |-> frac]])
    /\ Reply(r, 200, 0, "none")
    /\ UNCHANGED time

\* Every other handler extracts and validates the token again - the admin and
\* plan handlers without the development bypass - and then does its work.
WorkHandler(r, outcome) ==
    /\ req[r].at = "handler" /\ ~ IsPublicEndpoint(req[r].path)
    /\ LET a == Authenticate(req[r].cred, DevMode /\ req[r].path = "tunnels") IN
       IF a # "ok" THEN Answer(r, FromAuthError(a), a)
       ELSE IF outcome = "ok" THEN Reply(r, 200, 0, "none")
       ELSE Answer(r, outcome, "handler")
    /\ UNCHANGED <<time, tokens>>

Done(r) ==
    /\ req[r].at = "replied"
    /\ req' = [req EXCEPT ![r] = Fresh]
    /\ UNCHANGED <<time, tokens>>

ApiTick ==
    /\ clock < MaxClock
    /\ \/ frac + 1 < Fractions /\ frac' = frac + 1 /\ UNCHANGED clock
       \/ frac + 1 = Fractions /\ frac' = 0 /\ clock' = clock + 1
    /\ UNCHANGED <<tokens, req>>

ApiNext ==
    \/ \E r \in Requests :
        \/ \E p \in Paths, c \in Creds, big \in BOOLEAN : Arrive(r, p, c, big)
        \/ \E v \in {"pass", "ip", "token"} : RateLayer(r, v)
        \/ AuthLayer(r) \/ RequestSizeLayer(r) \/ TimeoutLayer(r)
        \/ \E ok \in BOOLEAN : ExchangeGithubCode(r, ok) \/ ValidateGithubToken(r, ok)
        \/ GenerateJwtToken(r) \/ HandOut(r)
        \/ \E o \in ApiErrors \cup {"ok"} : WorkHandler(r, o)
        \/ Done(r)
    \/ ApiTick

ApiSpec == ApiInit /\ [][ApiNext]_apiVars

-----------------------------------------------------------------------------
\* Every reply that says "later" says how much later: whichever layer or handler
\* made a 429 or a 503, it leaves the server with a Retry-After header.
OverloadTellsWhen ==
    \A r \in Requests : req[r].reply.status \in {429, 503} => req[r].reply.retry > 0

Now == [s |-> clock, f |-> frac]
Earlier(a, b) == a.s < b.s \/ (a.s = b.s /\ a.f < b.f)

\* What a refused token is owed: its 24 hours since generate_jwt_token are over,
\* and its expires_at has come too, unless the two readings of the login fell
\* into different seconds (then it comes by less than the time between them).
RefusedInTime(t) ==
    /\ Earlier([s |-> t.ts + Life, f |-> t.tf], Now)
    /\ Earlier(Now, t.promise) => t.promise.s > t.ts + Life

\* The expires_at of a login and the age check of its token come from separate
\* readings of the clock, one with and one without the fraction of a second, and
\* the middleware and the handler check at two times.  Still, a token is refused
\* as expired in time only, and none passes the middleware a second or more after
\* its expires_at.
ExpiryAsPromised ==
    [][\A r \in Requests :
          LET t == tokens[req[r].cred.tok] IN
          /\ (req[r].at # "replied" /\ req'[r].reply.why = "TokenExpired")
                => RefusedInTime(t)
          /\ (/\ req[r].at = "auth" /\ req'[r].at = "size"
              /\ req[r].cred.kind = "token" /\ ~IsPublicEndpoint(req[r].path))
                => clock <= t.promise.s]_apiVars

\* The plain reading of expires_at, which a login that straddles a second
\* disappoints: stamped 0.9 and promised from 1.1, a token is refused from
\* 86401.0 on, before its expires_at of 86401.1.
RefusedOnlyAfterPromise ==
    [][\A r \in Requests :
          (req[r].at # "replied" /\ req'[r].reply.why = "TokenExpired")
              => ~Earlier(Now, tokens[req[r].cred.tok].promise)]_apiVars
=============================================================================
