----------------------------- MODULE Migrations -----------------------------
(***************************************************************************)
(* The schema migrations of the platform's own database                    *)
(* (backend/migrations): six revisions, each a list of CREATE TABLE with   *)
(* foreign keys and a list of DROP TABLE that undoes it.  A run of alembic *)
(* reads the version, applies revision after revision and stamps each one, *)
(* all in ONE transaction (env.py).  The entrypoint of the backend         *)
(* container upgrades to head whenever it starts (the workers skip it:     *)
(* docker-compose.yml, entrypoint: []), and an operator may upgrade or     *)
(* downgrade besides.  Alembic takes no lock: such runs overlap, and       *)
(* PostgreSQL decides between them.                                        *)
(*                                                                         *)
(* Columns, indexes and the data are left out; a table is its name and the *)
(* tables it references.                                                   *)
(***************************************************************************)
EXTENDS Integers, Sequences

CONSTANTS Runners,      \* processes that may run alembic
          Targets,      \* the revisions a run may be asked for
          MaxMigrations \* bound: runs of alembic started

VARIABLES schema,    \* what is committed: version and tables
          migration, \* the run of each runner
          migrations \* runs started so far

migrationVars == <<schema, migration, migrations>>

T(name, references) == [table |-> name, references |-> references]

\* 001_initial, in the order of its upgrade().
AccountsAndInstances == << T("users", {}), T("db_instances", {}) >>
CollectedData == << T("metric_samples", {"db_instances"}),
                    T("active_sessions", {"db_instances"}) >>
IncidentsAndBaselines == << T("incidents", {"db_instances", "users"}),
                            T("baselines", {"db_instances"}) >>
ChangesAndAudit == << T("schema_changes", {"db_instances"}), T("audit_logs", {"users"}) >>
QuestionsAndDocuments == << T("nl2sql_histories", {"users", "db_instances"}),
                            T("rag_documents", {"incidents"}) >>
AlertTables == << T("alert_channels", {"users"}), T("alert_policies", {}),
                  T("alert_history", {"incidents", "alert_channels", "alert_policies"}) >>

InitialTables == AccountsAndInstances \o CollectedData \o IncidentsAndBaselines
                   \o ChangesAndAudit \o QuestionsAndDocuments \o AlertTables

GraphTables == << T("graph_nodes", {"db_instances"}), T("graph_edges", {"graph_nodes"}) >>
ActionTables == << T("agent_actions", {"db_instances", "users"}) >>
Phase2Tables == << T("playbooks", {}),
                   T("remediation_logs", {"playbooks", "incidents", "db_instances"}),
                   T("mtl_predictions", {"incidents", "db_instances"}),
                   T("copilot_sessions", {"db_instances", "incidents", "mtl_predictions"}) >>
SettingTables == << T("system_settings", {}) >>
ReportTables == << T("dba_reports", {}) >>

Upgrade == << InitialTables, GraphTables, ActionTables, Phase2Tables,
              SettingTables, ReportTables >>

\* The DROP TABLEs of each downgrade(), in their order.
InitialDrops == << "alert_history", "alert_policies", "alert_channels", "rag_documents",
                   "nl2sql_histories", "audit_logs", "schema_changes", "baselines",
                   "incidents", "active_sessions", "metric_samples", "db_instances", "users" >>
MutGraphDrops == << "graph_nodes", "graph_edges" >>
GraphDrops == << "graph_edges", "graph_nodes" >>
ActionDrops == << "agent_actions" >>
Phase2Drops == << "copilot_sessions", "mtl_predictions", "remediation_logs", "playbooks" >>
SettingDrops == << "system_settings" >>
ReportDrops == << "dba_reports" >>

Downgrade == << InitialDrops, GraphDrops, ActionDrops, Phase2Drops,
                SettingDrops, ReportDrops >>

HeadRevision == Len(Upgrade)
NoRevision == 0

ASSUME MigrationAssumption == Targets \subseteq 0..HeadRevision /\ MaxMigrations \in Nat

\* What a revision creates.
CreatesOf(revision) == { Upgrade[revision][i] : i \in DOMAIN Upgrade[revision] }

AllCreates == UNION { CreatesOf(revision) : revision \in 1..HeadRevision }
Tables == { c.table : c \in AllCreates }
References(t) == (CHOOSE c \in AllCreates : c.table = t).references

\* What the revisions up to v create.
TablesAt(v) == { c.table : c \in UNION { CreatesOf(revision) : revision \in 1..v } }

\* Never started, or over.
NoRun == [ state |-> "idle", target |-> NoRevision, version |-> NoRevision, step |-> 0,
           created |-> {}, dropped |-> {}, stamped |-> FALSE, alone |-> TRUE ]

Running == { r \in Runners : migration[r].state = "running" }
Others(r) == Running \ {r}

\* What the transaction of run m sees (READ COMMITTED).
Visible(m) == (schema.tables \cup m.created) \ m.dropped
SeenVersion(m) == IF m.stamped THEN m.version ELSE schema.version

Up(m) == m.version < m.target
\* The revision the run is at work on, and its statements.
Revision(m) == IF Up(m) THEN m.version + 1 ELSE m.version
Statements(m) == IF Up(m) THEN Upgrade[Revision(m)] ELSE Downgrade[Revision(m)]

MigrationInit ==
  /\ schema = [version |-> NoRevision, tables |-> {}]
  /\ migration = [r \in Runners |-> NoRun]
  /\ migrations = 0

-----------------------------------------------------------------------------
\* `alembic upgrade head' of the backend's entrypoint, `alembic upgrade <rev>'
\* or `alembic downgrade <rev>' of an operator: the version committed now
\* decides what is to be done.
StartMigration(r, target) ==
  /\ migration[r].state # "running"
  /\ migrations < MaxMigrations
  /\ migrations' = migrations + 1
  /\ migration' = [ q \in Runners |->
       IF q = r
       THEN [ NoRun EXCEPT !.state = "running", !.target = target,
                           !.version = schema.version, !.step = 1,
                           !.alone = (Others(r) = {}) ]
       ELSE [ migration[q] EXCEPT !.alone = @ /\ migration[q].state # "running" ] ]
  /\ UNCHANGED schema

\* A statement PostgreSQL refuses aborts the transaction, and with it the run.
Refuse(r) ==
  /\ migration' = [ migration EXCEPT ![r].state = "refused" ]
  /\ UNCHANGED <<schema, migrations>>

\* CREATE TABLE waits for the transaction that has created the same name, or
\* dropped a table it references, to end.
CreateWaits(r, create) ==
  \E q \in Others(r) : \/ create.table \in migration[q].created \cup migration[q].dropped
                       \/ create.references \cap migration[q].dropped # {}

CreateTable(r) ==
  LET m == migration[r] IN
  /\ m.state = "running" /\ m.version # m.target /\ Up(m)
  /\ m.step <= Len(Statements(m))
  /\ LET create == Statements(m)[m.step] IN
       /\ ~CreateWaits(r, create)
       /\ IF create.table \in Visible(m) \/ ~(create.references \subseteq Visible(m))
          THEN Refuse(r)
          ELSE /\ migration' = [ migration EXCEPT
                     ![r].created = @ \cup {create.table},
                     ![r].dropped = @ \ {create.table}, ![r].step = @ + 1 ]
               /\ UNCHANGED <<schema, migrations>>

\* DROP TABLE waits for whoever holds the table or one that references it; it
\* is refused while a table that references it is there (no CASCADE).
DropWaits(r, table) ==
  \E q \in Others(r) : \/ table \in migration[q].dropped
                       \/ \E t \in migration[q].created : t = table \/ table \in References(t)

DropTable(r) ==
  LET m == migration[r] IN
  /\ m.state = "running" /\ m.version # m.target /\ ~Up(m)
  /\ m.step <= Len(Statements(m))
  /\ LET table == Statements(m)[m.step] IN
       /\ ~DropWaits(r, table)
       /\ IF table \notin Visible(m) \/ \E t \in Visible(m) \ {table} : table \in References(t)
          THEN Refuse(r)
          ELSE /\ migration' = [ migration EXCEPT
                     ![r].created = @ \ {table},
                     ![r].dropped = @ \cup {table}, ![r].step = @ + 1 ]
               /\ UNCHANGED <<schema, migrations>>

\* Alembic stamps the revision with UPDATE alembic_version SET .. WHERE
\* version_num = <the one before>, and gives up when no row matched.
VersionMatches(m) == SeenVersion(m) = m.version

\* A run that commits each revision on its own (transaction_per_migration).
MutStamp(r) ==
  LET m == migration[r] IN
  /\ m.state = "running" /\ m.version # m.target
  /\ m.step > Len(Statements(m))
  /\ IF VersionMatches(m)
     THEN LET next == IF Up(m) THEN m.version + 1 ELSE m.version - 1 IN
          /\ schema' = [version |-> next, tables |-> Visible(m)]
          /\ migration' = [ migration EXCEPT
                ![r].version = next, ![r].step = 1, ![r].created = {}, ![r].dropped = {} ]
          /\ UNCHANGED migrations
     ELSE Refuse(r)

Stamp(r) ==
  LET m == migration[r] IN
  /\ m.state = "running" /\ m.version # m.target
  /\ m.step > Len(Statements(m))
  /\ \A q \in Others(r) : ~migration[q].stamped        \* the row lock
  /\ IF VersionMatches(m)
     THEN /\ migration' = [ migration EXCEPT
                ![r].version = IF Up(m) THEN @ + 1 ELSE @ - 1,
                ![r].step = 1, ![r].stamped = TRUE ]
          /\ UNCHANGED <<schema, migrations>>
     ELSE Refuse(r)

\* Every revision is applied: the one transaction of the run is committed.
CommitMigration(r) ==
  LET m == migration[r] IN
  /\ m.state = "running" /\ m.version = m.target
  /\ schema' = IF m.stamped THEN [version |-> m.version, tables |-> Visible(m)] ELSE schema
  /\ migration' = [ migration EXCEPT ![r].state = "done" ]
  /\ UNCHANGED migrations

\* The container is stopped, the connection is lost, or a statement fails for
\* a reason of its own (the vector extension is not installed): rolled back.
LoseMigration(r) ==
  /\ migration[r].state = "running"
  /\ migration' = [ migration EXCEPT ![r].state = "lost" ]
  /\ UNCHANGED <<schema, migrations>>

MigrationNext ==
  \E r \in Runners :
    \/ \E target \in Targets : StartMigration(r, target)
    \/ CreateTable(r)
    \/ DropTable(r)
    \/ Stamp(r)
    \/ CommitMigration(r)
    \/ LoseMigration(r)

MigrationSpec == MigrationInit /\ [][MigrationNext]_migrationVars

-----------------------------------------------------------------------------
MigrationTypeOK ==
  /\ schema \in [version : 0..HeadRevision, tables : SUBSET Tables]
  /\ migrations \in 0..MaxMigrations
  /\ \A r \in Runners :
       LET m == migration[r] IN
       /\ m.state \in {"idle", "running", "done", "refused", "lost"}
       /\ m.target \in 0..HeadRevision /\ m.version \in 0..HeadRevision
       /\ m.created \subseteq Tables /\ m.dropped \subseteq Tables

\* The committed tables are those of the committed version, whatever runs
\* overlapped or died: a start after any crash finds a state the next upgrade
\* can begin from (env.py, one transaction for all revisions).
SchemaFitsVersion == schema.tables = TablesAt(schema.version)

\* A run that shares the database with no other is never refused: each
\* revision creates what its foreign keys need before it needs it, and each
\* downgrade drops a table after those that reference it.
AloneNeverRefused ==
  \A r \in Runners : migration[r].alone => migration[r].state # "refused"

\* The version a run has set out from: while it holds the row of
\* alembic_version, nobody else commits another.
Base(m) == IF m.stamped THEN schema.version ELSE m.version

\* What a run still is to do.  One that finds the version it is asked for has
\* nothing to do from its start.
Request(m) ==
  IF m.state = "running" /\ (m.stamped \/ m.version # m.target)
  THEN {[from |-> Base(m), to |-> m.target]} ELSE {}

Atomic == INSTANCE AtomicMigrations WITH
  TablesOf <- [v \in 0..HeadRevision |-> TablesAt(v)],
  version  <- schema.version,
  tables   <- schema.tables,
  asked    <- [r \in Runners |-> Request(migration[r])]

\* A run of alembic takes effect in full and at one moment, from the version
\* it found when it started, or not at all, whatever other runs upgrade,
\* downgrade or die in between (env.py, the entrypoint of the backend).
MigrationsAreAtomic == Atomic!Spec
=============================================================================
