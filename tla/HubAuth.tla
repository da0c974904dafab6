------------------------------ MODULE HubAuth ------------------------------
(***************************************************************************)
(* Starting the hub's SSH server and authenticating its connections        *)
(* (crates/edgehub/src/ssh_server.rs): load_or_generate_host_key, the      *)
(* choice of an authentication backend, auth_publickey and the brute-force *)
(* protection around it.                                                   *)
(*                                                                         *)
(* The protection is one table behind a mutex that auth_publickey takes    *)
(* twice: to look for a lockout, and, after it awaited Redis, to record    *)
(* the attempt.  Its key is the peer's SocketAddr, port included; a client *)
(* that closes a connection and opens another from the same port has two   *)
(* handlers under one key.  Ages are in ticks and stop at LockoutTicks.    *)
(***************************************************************************)
EXTENDS Naturals, FiniteSets, Functions

CONSTANTS
    Addrs,            \* peer socket addresses
    AuthConns,        \* connections being authenticated
    MaxAuthAttempts,  \* max_auth_attempts
    LockoutTicks,     \* auth_lockout_duration, in ticks
    MaxStarts         \* bound on the starts of the hub process

ASSUME HubAuthAssumption ==
    /\ MaxAuthAttempts \in Nat \ {0} /\ LockoutTicks \in Nat \ {0}
    /\ MaxStarts \in Nat /\ IsFiniteSet(AuthConns)

VARIABLES
    config,     \* redis_auth_enabled with a URL, insecure_accept_all_keys
    hub,        \* the process: down, writing the host key, or up
    hostFile,   \* host_key_path: absent, torn by a crash, or holding a key
    hostKey,    \* the key the hub serves, 0 while it is down
    backend,    \* how keys are validated
    starts,     \* starts so far; also numbers the keys generated
    attempt,    \* the auth_publickey call of each connection
    failures,   \* attempts: an address's recorded failures, each with its age
    lockouts,   \* lockouts: their ages; no entry is LockoutTicks
    \* history, read by properties only
    firstKey,   \* the first host key served
    guesses     \* the failures since the last success or restart, with their ages

authVars == <<config, hub, hostFile, hostKey, backend, starts, attempt, failures,
              lockouts, firstKey, guesses>>

\* A list of failures is a function from their numbers to their ages.
NoFailures == [n \in {} |-> 0]
NoAttempt == [pc |-> "idle", addr |-> 0, ok |-> FALSE]

AuthInit ==
    /\ config \in [redis : BOOLEAN, insecure : BOOLEAN]
    /\ hub = "down"
    /\ hostFile = [is |-> "absent", key |-> 0]
    /\ hostKey = 0
    /\ backend = "none"
    /\ starts = 0
    /\ attempt = [c \in AuthConns |-> NoAttempt]
    /\ failures = [a \in Addrs |-> NoFailures]
    /\ lockouts = [a \in Addrs |-> LockoutTicks]
    /\ firstKey = 0
    /\ guesses = [a \in Addrs |-> NoFailures]

-----------------------------------------------------------------------------
\* SshServer::new after the host key: without a working handler the hub rejects
\* every key, unless it was told to accept them all.
Backend(connected) ==
    IF config.redis /\ connected THEN "redis"
    ELSE IF config.insecure THEN "accept_all" ELSE "closed"

Serve(key) ==
    /\ hub' = "up"
    /\ hostKey' = key
    /\ firstKey' = IF firstKey = 0 THEN key ELSE firstKey
    /\ \E connected \in BOOLEAN : backend' = Backend(connected)

\* The key file is there; one that cannot be decoded stops the start.
KeyFileExistsNever == FALSE
KeyFileExists == hostFile.is # "absent"

LoadHostKey ==
    /\ hub = "down" /\ starts < MaxStarts
    /\ KeyFileExists
    /\ hostFile.is = "key"
    /\ starts' = starts + 1
    /\ Serve(hostFile.key)
    /\ UNCHANGED <<config, hostFile, attempt, failures, lockouts, guesses>>

\* Generate a key; fs::write truncates the file, then fills it.
GenerateHostKey ==
    /\ hub = "down" /\ starts < MaxStarts
    /\ ~KeyFileExists
    /\ starts' = starts + 1
    /\ hub' = "writing"
    /\ hostFile' = [is |-> "torn", key |-> 0]
    /\ UNCHANGED <<config, hostKey, backend, attempt, failures, lockouts, firstKey, guesses>>

WriteHostKey ==
    /\ hub = "writing"
    /\ hostFile' = [is |-> "key", key |-> starts]
    /\ Serve(starts)
    /\ UNCHANGED <<config, starts, attempt, failures, lockouts, guesses>>

\* The process dies; what it remembered of its peers goes with it.
HubDies ==
    /\ hub # "down"
    /\ hub' = "down"
    /\ hostKey' = 0
    /\ backend' = "none"
    /\ attempt' = [c \in AuthConns |-> NoAttempt]
    /\ failures' = [a \in Addrs |-> NoFailures]
    /\ lockouts' = [a \in Addrs |-> LockoutTicks]
    /\ guesses' = [a \in Addrs |-> NoFailures]
    /\ UNCHANGED <<config, hostFile, starts, firstKey>>

-----------------------------------------------------------------------------
\* BruteForceProtection::is_locked_out
IsLockedOut(a) == lockouts[a] < LockoutTicks

\* auth_publickey: a peer that is not locked out and names a well-formed
\* session id goes on to the backend; the others are rejected, uncounted.
AuthPublickey(c, a) ==
    /\ hub = "up"
    /\ attempt[c].pc = "idle"
    /\ ~IsLockedOut(a)
    /\ attempt' = [attempt EXCEPT ![c] = [pc |-> "asked", addr |-> a, ok |-> FALSE]]
    /\ UNCHANGED <<config, hub, hostFile, hostKey, backend, starts, failures, lockouts,
                   firstKey, guesses>>

\* What the backend answers; valid is validate_public_key's result, FALSE for
\* an error.
Accepted(valid) == (backend = "redis" /\ valid) \/ backend = "accept_all"

Validate(c, valid) ==
    /\ attempt[c].pc = "asked"
    /\ attempt' = [attempt EXCEPT ![c].pc = "answered", ![c].ok = Accepted(valid)]
    /\ UNCHANGED <<config, hub, hostFile, hostKey, backend, starts, failures, lockouts,
                   firstKey, guesses>>

\* retain: the failures inside the lockout duration.
Recent(ages) == Restrict(ages, {n \in DOMAIN ages : ages[n] < LockoutTicks})

\* push: one more failure, under a number that is free.
Pushed(ages) ==
    LET new == CHOOSE n \in 0..Cardinality(DOMAIN ages) : n \notin DOMAIN ages
    IN  [n \in DOMAIN ages \cup {new} |-> IF n = new THEN 0 ELSE ages[n]]

\* The failures that lead to a lockout.
TooManyLate(n) == n > MaxAuthAttempts
TooMany(n) == n >= MaxAuthAttempts

\* record_attempt: forget the old attempts, add this one; a success clears the
\* peer's failures and its lockout, a failure may lock it out.
RecordAttempt(c) ==
    LET a == attempt[c].addr
        failed == Pushed(Recent(failures[a]))
    IN /\ attempt[c].pc = "answered"
       /\ attempt' = [attempt EXCEPT ![c] = NoAttempt]
       /\ IF attempt[c].ok
          THEN /\ failures' = [failures EXCEPT ![a] = NoFailures]
               /\ lockouts' = [lockouts EXCEPT ![a] = LockoutTicks]
               /\ guesses' = [guesses EXCEPT ![a] = NoFailures]
          ELSE /\ failures' = [failures EXCEPT ![a] = failed]
               /\ lockouts' = [lockouts EXCEPT ![a] = IF TooMany(Cardinality(DOMAIN failed)) THEN 0 ELSE @]
               /\ guesses' = [guesses EXCEPT ![a] = Pushed(Recent(@))]
       /\ UNCHANGED <<config, hub, hostFile, hostKey, backend, starts, firstKey>>

Older(n) == IF n < LockoutTicks THEN n + 1 ELSE n
Aged(ages) == [n \in DOMAIN ages |-> Older(ages[n])]

AuthTick ==
    /\ failures' = [a \in Addrs |-> Aged(failures[a])]
    /\ lockouts' = [a \in Addrs |-> Older(lockouts[a])]
    /\ guesses' = [a \in Addrs |-> Recent(Aged(guesses[a]))]
    /\ UNCHANGED <<config, hub, hostFile, hostKey, backend, starts, attempt, firstKey>>

AuthNext ==
    \/ LoadHostKey \/ GenerateHostKey \/ WriteHostKey \/ HubDies \/ AuthTick
    \/ \E c \in AuthConns :
          \/ \E a \in Addrs : AuthPublickey(c, a)
          \/ \E valid \in BOOLEAN : Validate(c, valid)
          \/ RecordAttempt(c)

AuthSpec == AuthInit /\ [][AuthNext]_authVars

-----------------------------------------------------------------------------
(* What the start and the protection promise                               *)

\* ssh_server.rs: "failed auth attempts (per peer) before a lockout kicks in"
\* and "how long a peer stays locked out after too many failures".  However its
\* connections overlap and however the lockouts run out, an address gets no
\* more than max_auth_attempts wrong keys checked in any lockout period, plus
\* one for each other connection that was past the check already.
GuessesBounded ==
    \A a \in Addrs :
        Cardinality(DOMAIN guesses[a]) <= MaxAuthAttempts + Cardinality(AuthConns) - 1

\* A client pins the host key it met first; a hub with a key path serves that
\* key for ever, across crashes at any point of the start.
HostKeyKept == hub = "up" => hostKey = firstKey
=============================================================================
