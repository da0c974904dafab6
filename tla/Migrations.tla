----------------------------- MODULE Migrations -----------------------------
(***************************************************************************)
(* The database schema: the migration runner (crates/migration), the two   *)
(* migrations, and the tables the entities of crates/models ask for.       *)
(*                                                                         *)
(* A command is one transaction of PostgreSQL: its statements act on the   *)
(* catalog it will commit, an error or the death of the runner leaves the  *)
(* committed one as it was.  Of a table its columns are left out, except   *)
(* those a unique index or a foreign key names.                            *)
(***************************************************************************)
EXTENDS Naturals, Sequences, SequencesExt

CONSTANT Attempts     \* connection attempts of the runner, 30

ASSUME AttemptsAssumption == Attempts \in Nat \ {0}

VARIABLES
    catalog,    \* the committed schema: tables, unique indexes, foreign keys
    applied,    \* seaql_migrations: how many migrations are applied
    job,        \* the runner: command, state, attempts, statements to run, its catalog
    reply       \* what the last repository call returned

dbVars == <<catalog, applied, job, reply>>

-----------------------------------------------------------------------------
(* The two migrations                                                       *)

\* m20250716_191521, in the order of up().
AccountTables ==
    <<"user", "service_plan", "pricing", "user_service_plan", "tunnel",
      "ssh_key_pair", "auth_token", "certificate_info">>
RecordTables ==
    <<"api_stats", "ca_stats", "payment_info", "user_usage", "audit_log", "billing_event">>
Tables == AccountTables \o RecordTables

\* m20250716_191522: the unique indexes, then the foreign keys, in order.
UniqueIndexes ==
    <<<<"service_plan", "name">>, <<"user", "github_id">>, <<"user", "email">>,
      <<"tunnel", "subdomain">>, <<"tunnel", "fqdn">>, <<"ssh_key_pair", "fingerprint">>,
      <<"certificate_info", "fingerprint">>>>

Key(t, column, to, action) == [of |-> t, column |-> column, to |-> to, delete |-> action]
ForeignKeys ==
    <<Key("pricing", "service_plan_id", "service_plan", "cascade"),
      Key("user_service_plan", "user_id", "user", "cascade"),
      Key("user_service_plan", "service_plan_id", "service_plan", "restrict"),
      Key("tunnel", "user_id", "user", "cascade"),
      Key("tunnel", "ssh_key_pair_id", "ssh_key_pair", "set null"),
      Key("tunnel", "certificate_serial", "certificate_info", "set null"),
      Key("auth_token", "user_id", "user", "cascade"),
      Key("payment_info", "user_id", "user", "cascade"),
      Key("user_usage", "user_id", "user", "cascade"),
      Key("audit_log", "user_id", "user", "cascade"),
      Key("billing_event", "user_id", "user", "cascade"),
      Key("billing_event", "service_plan_id", "service_plan", "cascade"),
      Key("api_stats", "ca_stats_id", "ca_stats", "cascade")>>

Each(verb, objects) == [i \in DOMAIN objects |-> [verb |-> verb, on |-> objects[i]]]

\* The down() functions go through the same objects backwards.
DropKeys == Each("drop key", Reverse(ForeignKeys))
DropIndexes == Each("drop index", Reverse(UniqueIndexes))
DropTables == Each("drop table", Reverse(Tables))

Up == <<Each("create table", Tables),
        Each("create index", UniqueIndexes) \o Each("create key", ForeignKeys)>>
Down == <<DropTables, DropKeys \o DropIndexes>>

\* Migrator: what is pending, in order; what is applied, last one first.
PendingUp(n) == CASE n = 0 -> Up[1] \o Up[2] [] n = 1 -> Up[2] [] n = 2 -> <<>>
RevertedFirstToLast(n) == CASE n = 0 -> <<>> [] n = 1 -> Down[1] [] n = 2 -> Down[1] \o Down[2]
Reverted(n) == CASE n = 0 -> <<>> [] n = 1 -> Down[1] [] n = 2 -> Down[2] \o Down[1]

-----------------------------------------------------------------------------
(* What PostgreSQL does with a statement                                    *)

Empty == [tables |-> {}, indexes |-> {}, keys |-> {}]

\* A key refers to the primary key of its target; a table others refer to
\* cannot be dropped.
Possible(s, c) ==
    CASE s.verb = "create table" -> TRUE       \* IF NOT EXISTS
      [] s.verb = "create index" -> s.on[1] \in c.tables /\ s.on \notin c.indexes
      [] s.verb = "create key"   -> {s.on.of, s.on.to} \subseteq c.tables /\ s.on \notin c.keys
      [] s.verb = "drop key"     -> s.on \in c.keys
      [] s.verb = "drop index"   -> s.on \in c.indexes
      [] s.verb = "drop table"   -> s.on \in c.tables
                                      /\ \A k \in c.keys : k.to = s.on => k.of = s.on

Result(s, c) ==
    CASE s.verb = "create table" -> [c EXCEPT !.tables = @ \cup {s.on}]
      [] s.verb = "create index" -> [c EXCEPT !.indexes = @ \cup {s.on}]
      [] s.verb = "create key"   -> [c EXCEPT !.keys = @ \cup {s.on}]
      [] s.verb = "drop key"     -> [c EXCEPT !.keys = @ \ {s.on}]
      [] s.verb = "drop index"   -> [c EXCEPT !.indexes = @ \ {s.on}]
      [] s.verb = "drop table"   -> [tables |-> c.tables \ {s.on},
                                     indexes |-> {i \in c.indexes : i[1] # s.on},
                                     keys |-> {k \in c.keys : k.of # s.on}]

-----------------------------------------------------------------------------
(* The runner                                                               *)

NoJob == [cmd |-> "none", at |-> "ended", tries |-> 0, todo |-> <<>>, work |-> Empty]

MigrationInit ==
    /\ catalog = Empty
    /\ applied = 0
    /\ job = NoJob
    /\ reply = "none"

Ends(how) == job' = [NoJob EXCEPT !.cmd = job.cmd, !.at = how]

\* main: a command, "up" by default.
Command(cmd) ==
    /\ job.at \in {"ended", "failed", "refused", "died"}
    /\ job' = [NoJob EXCEPT !.cmd = cmd, !.at = "connect"]
    /\ UNCHANGED <<catalog, applied, reply>>

\* connect_with_retry
ConnectFails ==
    /\ job.at = "connect"
    /\ IF job.tries + 1 < Attempts THEN job' = [job EXCEPT !.tries = @ + 1]
                                   ELSE Ends("refused")
    /\ UNCHANGED <<catalog, applied, reply>>

\* The transaction begins; fresh starts by dropping whatever there is.
Connect ==
    /\ job.at = "connect"
    /\ job' = [job EXCEPT
          !.at = "run",
          !.tries = 0,
          !.work = IF job.cmd = "fresh" THEN Empty ELSE catalog,
          !.todo = CASE job.cmd = "up"     -> PendingUp(applied)
                     [] job.cmd = "down"   -> Reverted(applied)
                     [] job.cmd = "fresh"  -> PendingUp(0)
                     [] job.cmd = "status" -> <<>>]
    /\ UNCHANGED <<catalog, applied, reply>>

Statement ==
    /\ job.at = "run"
    /\ job.todo # <<>>
    /\ IF Possible(Head(job.todo), job.work)
       THEN job' = [job EXCEPT !.todo = Tail(@), !.work = Result(Head(job.todo), @)]
       ELSE Ends("failed")
    /\ UNCHANGED <<catalog, applied, reply>>

Commit ==
    /\ job.at = "run"
    /\ job.todo = <<>>
    /\ catalog' = job.work
    /\ applied' = CASE job.cmd = "down" -> 0
                    [] job.cmd = "status" -> applied
                    [] OTHER -> Len(Up)
    /\ Ends("ended")
    /\ UNCHANGED reply

RunnerDies ==
    /\ job.at \in {"connect", "run"}
    /\ Ends("died")
    /\ UNCHANGED <<catalog, applied, reply>>

-----------------------------------------------------------------------------
(* The entities and their repositories.  An entity is the table it names    *)
(* and the tables its belongs_to relations lead to.                         *)

Entity(name, parents) == [table |-> name, parents |-> parents]
User == Entity("users", {})
ServicePlan == Entity("service_plans", {})
UserServicePlan == Entity("user_service_plans", {"users", "service_plans"})
Tunnel == Entity("tunnels", {"users", "certificate_info", "ssh_key_pairs"})
CertificateInfo == Entity("certificate_info", {})
SshKeyPair == Entity("ssh_key_pairs", {})
AuthToken == Entity("auth_tokens", {"users"})
BillingEvent == Entity("billing_event", {"users", "service_plans"})
ApiStats == Entity("api_stats", {"ca_stats"})
CaStats == Entity("ca_stats", {})
PaymentInfo == Entity("payment_info", {"users"})
UserUsage == Entity("user_usage", {"users"})
AuditLog == Entity("audit_log", {"users"})

Entities == {User, ServicePlan, UserServicePlan, Tunnel, CertificateInfo, SshKeyPair,
             AuthToken, BillingEvent, ApiStats, CaStats, PaymentInfo, UserUsage, AuditLog}

\* A repository call is one statement on its entity's table; whatever goes wrong
\* is a DatabaseError.
Repository(e) ==
    /\ reply' = IF e.table \in catalog.tables THEN "rows" ELSE "DatabaseError"
    /\ UNCHANGED <<catalog, applied, job>>

MigrationNext ==
    \/ \E cmd \in {"up", "down", "status", "fresh"} : Command(cmd)
    \/ ConnectFails \/ Connect \/ Statement \/ Commit \/ RunnerDies
    \/ \E e \in Entities : Repository(e)

MigrationSpec == MigrationInit /\ [][MigrationNext]_dbVars

-----------------------------------------------------------------------------
(* Properties                                                               *)

\* Whatever commands were given before, wherever earlier runners died, no
\* statement of up(), down() or fresh is refused by the database: the foreign
\* keys are dropped before the tables they lead to, across the two migrations,
\* and nothing is created or dropped twice.
MigrationsSucceed == job.at # "failed"

\* Refuted: the entities name their tables in the plural, the migrations in the
\* singular.  models/lib.rs: "all database models using SeaORM entities"; the
\* migration crate is "canonical".
EntitiesServed ==
    applied = Len(Up) => \A e \in Entities : e.table \in catalog.tables
=============================================================================
