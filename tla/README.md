# NeuralDB (AIDbChecker): specifications, model checking and proofs

NeuralDB watches PostgreSQL instances, detects anomalies, answers questions
through a "DBA agent" and runs write operations behind a safety gate.  The
modules here are written from the code under `src/backend/app` (paths below
are relative to it unless they start with `src/`).  TLC checks them on small
instances; TLAPS proves what it can for every value of the constants.

## 1. The system and its parts

One uvicorn process serves the REST API, the MCP server and Socket.IO
(FastAPI, asyncio; `src/backend/Dockerfile`).  Celery workers and Beat run
`tasks/`.  PostgreSQL holds the system database; Valkey is cache, lock-free
key store and Celery broker at once.  Each monitored instance is another
PostgreSQL, reached by `asyncpg`.  So what interleaves is: requests at every
`await`, worker processes at every statement, transactions of the system
database under READ COMMITTED, and the targets, the model and Slack, which may
fail or fall silent at any time.

| component | state | operations | hard part | what makes it correct |
|---|---|---|---|---|
| Safety guard `agents/safety_guard.py` | none (tables) | classify_risk, check_policy | tables edited by hand | critical needs a human; decision monotone |
| Execution engine `agents/execution_engine.py` | `agent_actions`, `audit_logs`, the target | execute, execute_approved | two databases, swallowed errors, crashes, unlocked approvals | nothing reaches the target without the gate or a human; the tables never overstate |
| DBA agent, session memory `agents/dba_agent.py`, `services/session_memory.py` | session document, data keys (Valkey) | ask | read-modify-write across a long answer | no turn lost but in a race |
| Task queue `services/task_queue.py` | `_task_store` (memory) | create, approve, reject, cancel, expire | await before the gate, restart, limits | slots, gate shows in status, first decision stands |
| Anomaly detection `analyzers/anomaly.py`, `tasks/analyze.py` | cooldown (Valkey and per process), `incidents` | check | concurrent workers, outage, redelivery, mark before commit | duplicates are bounded; an incident starts its cooldown |
| Baseline training `analyzers/baseline.py` | `baselines` | train | overlapping transactions, autoflush | no deadlock, no mixture |
| Incidents API `api/v1/incidents.py` | `incidents` | status update | unlocked read-validate-write | lifecycle goes forward; times fit the status |
| Collection `tasks/collect.py`, `adapters/postgresql` | `metric_samples` | collect hot, warm, cold, ASH | overlapping runs, a hanging target, time limit | each answering instance is sampled |
| KPI `services/kpi_calculator.py` | none | delta rates, ratios | counter resets, equal times | what the target did, never a spike |
| Schema detector `services/schema_detector.py` | snapshot cache (Valkey, memory), `schema_changes` | detect_changes | commit before cache, stale memory | no change is skipped |
| Schema graph `services/graph_rag.py` | `graph_nodes`, `graph_edges` | build_graph, add_business_metric, retrieve | delete and reinsert in a shared session | a build replaces, a failed build keeps, reads fit together |
| Reports, proactive agent `tasks/proactive.py`, `tasks/reports.py`, `api/v1/reports.py` | `dba_reports`, Slack | morning report, DBA report, deep analysis | one session for a batch, swallowed errors, Slack before commit | what may be missing is bounded; a row's claim is so |
| Playbooks `services/playbook_executor.py` | custom playbooks (memory) | execute, create, update, delete | level looked up early, names | built-ins stand; runs need their level |
| Runtime settings `services/settings_store.py`, `api/v1/*_settings.py` | attributes, `system_settings` | update, start | two copies, awaits between | they survive a restart |
| Assistants `agents/`, `services/llm_provider.py`, `services/mtl_lite.py`, `services/nl2sql.py` | loops | ask | late failures, retries, made-up scores | bounded calls; a diagnosis earns its status |
| Pools to targets `api/v1/kpi.py`, `api/v1/tuning.py` | two caches of pools | get, replace | awaits between look and write | the pool fits the row; leaks need an overlap |
| Migrations `src/backend/migrations`, `src/backend/entrypoint.sh` | tables, version | upgrade, downgrade | runs of the backend's start and of operators overlap, death in the middle | tables fit the version |
| Instances API, MCP server | `db_instances` | create, update, delete; tools | check then insert | see the modules that use them |
| Rate limiter, alerts, autonomy manager, auth, users, SSO, audit, RAG, WebSocket, frontend | - | - | - | not modelled, section 6 |

`PROJECT.json` lists the same components with what is modelled and why the
rest is not, and under "hazards" every line where the code is hard to test,
with the properties that would notice.

## 2. Modules

| module | models | state and actions |
|---|---|---|
| `SafetyGuard` | `agents/safety_guard.py` | pure operators `ClassifyRisk`, `CheckPolicy`.  A SQL text is its *shape*: the first group of patterns it hits |
| `PolicyGate` | the gate, asked again while level, role or confidence change | one variable, three actions; it exists for `DecisionMonotone` |
| `ExecutionEngine` | `execute` and its two callers, `execute_approved` | per call `pc`, `prop`, `seen`, `result`, `staged`; per approval `apc`, `act`, `outcome`; the tables `rows`, `audits`; the target as `applied`.  Steps end where the coroutine awaits another system |
| `ActionLedger` | what the engine promises (abstract) | `verdict` per action, permits `issued` and `used`, `effects`, `record`, `log`: no sessions, no commits, no crashes |
| `TaskQueue`, `SlotLimiter` | `services/task_queue.py`, `api/v1/tasks.py`; what the queue promises about concurrency (abstract) | `status`, `created`, `target`, `gate` of tasks; `handler` for the request that creates one, since it awaits the level first; `autonomy`, `now`.  `SlotLimiter`: `holding`, `retired` |
| `AnomalyDetector` | hand-over of the collector, Celery task, cooldown, commit | `marked` per store (Valkey, or a worker's process), per sample `task`, `worker`, `pos`, `cooldownRead`, `pending`; `incidents`; faults: crash, outage, failing metric or check |
| `IncidentLifecycle` | status update of `api/v1/incidents.py` | row `status`, `acknowledged`, `resolved`, `version`; requests `Load`, `Update`, `Abort` |
| `DbaConversation` | `DBAAgent.ask`, `services/session_memory.py` | `ask` per question (step, session, copy of the turns, intent), `document` and the data keys.  A text is the keyword score of its intents |
| `SchemaDetector` | `services/schema_detector.py`, `tasks/schema.py` | the target's `schema`, `cached` in Valkey, `memory` and `adapter` per process, `step`/`new`/`old` per task, `log` |
| `SchemaGraph` | `services/graph_rag.py` and all that builds or reads it | committed `nodes`, `edges`; `tx` per session with what it has seen, doomed and inserted; the `queue` of the deep analysis; registrations; one `reader` |
| `BaselineTraining` | `BaselineAnalyzer.train` | per training the bucket it is at, what is pending, what is flushed; the stored row of each bucket |
| `MetricCollection` | `tasks/collect.py`, the adapter, `GET /instances/{id}/kpi` | counters and state of each target, a run per worker, the samples, one KPI request |
| `ScheduledReports` | `tasks/proactive.py`, `tasks/reports.py`, `api/v1/reports.py` and their services | per batch what is left and whether its transaction is aborted, per request where it is, `posted`, `saved` |
| `Playbooks` | `services/playbook_executor.py`, `api/v1/playbooks.py` | `customPlaybooks`, the level, executions |
| `RuntimeSettings` | `services/settings_store.py`, `api/v1/llm_settings.py`, `api/v1/slack_settings.py`, `main.py` | `attribute`, `row`, per update where it is |
| `Assistants` | tuning, native tools, copilot, RCA, NL2SQL | per question where its loop is, how many calls it cost, the outcome; usable providers |
| `TargetPools` | `api/v1/kpi.py`, `api/v1/tuning.py` | `pool`, `cache` per kind, requests, the DSN of the row |
| `Migrations` | `src/backend/migrations`, `src/backend/entrypoint.sh` | committed version and tables, per run its revisions and what it has done |
| `AtomicMigrations` | what a run of alembic promises (abstract) | `version`, `tables` and `asked`: a run is one compare-and-set of the version |
| `MC*` | instances for TLC | constants, symmetry, sums of components |
| `*Proofs` | theorems | section 5 |

How the code is cut into steps.  The API is one asyncio process: what runs
between two awaits is one action.  `services/task_queue.py` never awaits, so
each of its functions is an action; `execute` awaits the target and the system
database, and is cut there.  A handler's uncommitted rows are staged and
become visible only with its commit; in `SchemaGraph`, `BaselineTraining`,
`RuntimeSettings` and `Migrations`, whose questions are about transactions
that wait for each other, the locks of PostgreSQL are guards.  Operators named
`Mut...` are not part of a specification: they are wrong versions of the
definition that follows them, which `PROJECT.json` uses to show that a
property notices.

How modules compose.  `PolicyGate` and `ExecutionEngine` extend
`SafetyGuard`; `ExecutionEngine` instantiates `ActionLedger`, `TaskQueue`
`SlotLimiter` and `Migrations` `AtomicMigrations`; `SchemaGraph` composes
the builders (API, schema task, deep analysis) with registrations and the
retrieval of NL2SQL; `MetricCollection` composes collection with the KPI
request.  `MCBackgroundTasks` and `MCApiRequests` check components side by side
whose models share no state: their `active` picks one in the initial state,
and the others rest.  A behaviour of these runs is a behaviour of one
component (`RequestsAreTheirParts`, `TasksAreTheirParts`), so that nothing is
claimed about components that share state but by the modules named before.

Choices that a reader may question:

* `execute_approved` and `expire_stale_tasks` have no caller in the
  application.  They are modelled as the tests call them: their correctness is
  a matter of what happens once they are called.
* An ANALYZE is classified WARNING: its text hits `_WARNING_PATTERNS`, which
  overrides the SAFE of its type, as `test_dba_001_spec.py` asserts and the
  specification's table does not say.  The model follows the code.
* The statements that PostgreSQL refuses inside a transaction always fail,
  since `_execute_with_timeout` opens one.  So of the ops tools only
  `kill_session` and `analyze_table` can take effect.
* In `AnomalyDetector`, Valkey keeps its keys over an outage.  A key that is
  evicted (`allkeys-lru`) would only allow more duplicates.  `SchemaDetector`
  lets the key expire.
* Apart from `anomaly_blind`, `AnomalyDetector` runs with samples that hold
  the metrics it is written for, which is what its tests feed it; the run
  `anomaly_blind` uses what the adapter of this repository really collects.
* `DbaConversation` has a constant `ForwardsSession`.  `DBAAgent.ask` accepts a
  session to continue, and the run sets TRUE; its three callers
  (`api/v1/dba.py`, `mcp/server.py`, `tasks/proactive.py`) pass none, so in the
  deployed application every question opens a conversation of its own and the
  hazards of shared documents are dormant.
* In `SchemaGraph` any nodes may be the nearest to a question, and a node's
  identifier is reused only when no actor knows it: `Copies` bounds how many
  rows of one name exist or are remembered at a time.
* `MetricCollection` keeps two counters of the eleven; every rate is derived
  like `disk_iops`, and the hit ratio needs both.  `KpisAreMeasured` speaks of
  samples whose workers read in the order of their times (`ReadInOrder`):
  workers on two hosts may do otherwise, and then a rate is clamped to 0.
* `ScheduledReports`: `soft_time_limit` is left out, since a batch that is cut
  is one that ends early, which every prefix of a behaviour is.

## 3. Runs

| run | instance | what it shows |
|---|---|---|
| `agent_actions` | 2 calls, 2 approvals, 3 proposals, levels 0, 2, 4, faults | `EffectsAuthorised`: no statement on the target without the gate's grant for the level the call read, or an approval of that action.  `ExecutedRowHasEffect`, `PendingRowBehindTarget`: the table overstates never and understates only around an approval.  `RowAndAuditTogether`: row and decision log are atomic.  `OneEffectPerGrant`: a statement takes effect at most once for the gate's grant and once for each approval.  `ImplementsLedger`, the refinement of `ActionLedger` |
| `task_queue` | 3 tasks, 3 instances, limits 1 and 2, levels 2 and 3 | `SlotLimits`, `StatusFitsGate`, `DecisionStands`, and `ImplementsSlots`, the refinement of `SlotLimiter` |
| `schema_graph` | 1 instance, two tables with a column each and a foreign key between them, 1 builder beside the deep analysis, 1 registration or 1 question, 1 change of the schema, 1 failure, 4 identifiers per name | `BuildReplacesEarlier`: a committed build leaves nothing that was there when its DELETE began.  `JoinsFitContext`: both ends of a join path of a context are relations it describes, unless a build has deleted that end since the edges were read, or the read of the neighbours failed.  `GraphCatchesUp` (liveness): the graph ends up with what the schema has |
| `background_tasks` | anomalies: 2 samples, 2 workers, 2 metrics of which one is in the sample, cooldown 2, clock 3, 2 faults.  schema: 2 workers, a schema that goes to and fro between 2 snapshots which differ in a column, a table and an index.  baselines: 3 trainings of 3 buckets.  metrics: 1 target that resets or hangs, 2 workers, 2 samples.  reports: 2 instances, 1 batch of each kind, 1 request | `IncidentsSpaced`: a check that could see the mark never duplicates.  `IncidentStartsCooldown`.  `LogExplainsCaches`: every copy of the snapshot is a first one plus what the log reports.  `TrainingsNeverDeadlock`, `LastTrainingWhole`.  `KpisAreMeasured`: exactly the work of the interval, or 0.  `ReportGapsBounded`: only the slow queries may be missing from a DBA report, a morning report counts nothing after its first gap, and a row that says it was sent was |
| `api_requests` | gate: all inputs.  incidents: 2 incidents, 3 requests.  conversation: 3 questions, 4 shapes of text, 2 turns.  playbooks: 7 documents, 2 uploads, 1 execution.  settings: 2 keys, 2 values, 2 updates, 1 restart.  assistants: 1 question of each kind or of an intent the model classifies first, answers that leave scores out, 2 providers, loops of 2 and retries of 3.  pools: 3 requests, 2 changes of the DSN.  migrations: 2 runners, all 6 revisions, 4 runs | `CriticalNeedsHuman`, `DecisionMonotone`; `TimesFitStatus`, `UpdatesKeepHistory`; `SavesLoseOnlyRaces`; `BuiltinsNotShadowed`, `RunsNeedTheirLevel`; `SettingsSurviveRestart`; `CallsBounded`: the rounds of both loops, the retries and the classification of the intent; `DiagnosisEarnsStatus`: no score the code fills in lifts a diagnosis, except that a risk left out counts as none; `PoolFitsRequest`, `LeaksNeedOverlap`; `AloneNeverRefused`, and `MigrationsAreAtomic`, the refinement of `AtomicMigrations` |
| `agent_history_lost` (violation) | 1 call | `/dba/ask` never commits: no row and no log for what was done (AC-4, AC-16 of DBA_AGENT_EXEC_SPEC) |
| `agent_approval_race` (violation) | 1 call, 2 approvals | both approvals run the statement |
| `task_slot_leak` (violation, with fairness) | 2 tasks, level 3 | a running task never ends and keeps its slot |
| `anomaly_blind` (violation, with fairness) | keys of the adapter | no collected sample is ever compared with a baseline |
| `incident_reopened` (violation) | 1 incident, 2 requests | overlapping updates go backwards |
| `graph_torn` (violation) | 2 instances, 1 failure | a refresh that fails in the deep analysis deletes the graph of its instance, because the next instance's commit commits the DELETE |
| `collect_blocked` (violation, with fairness) | 2 instances, one hangs | the other is never sampled, although "failures are logged and skipped to prevent one instance's issues from blocking others" |

The properties in a sentence each stand above their definitions.  The runs
take between seconds and two minutes; `background_tasks` is the largest.

**Where documents and code disagree.**  The seven violation runs show a
sentence of the repository and a behaviour that breaks it.  The following
disagreements have no run: the model does what the code does, and the property
named says no more than that.

* *Playbooks.*  Rule 2 of `src/docs/specs/playbooks/PLAYBOOK_SPEC.md:219` lets
  nothing run at L0 and L1 and asks for an approval at L2, as AC-5 of
  `src/docs/specs/ai/ADAPTIVE_AUTONOMY_SPEC.md:207` and the docstring
  `api/v1/playbooks.py:77-78` do at L2.  `services/playbook_executor.py:191-217` blocks L0
  and what is below the level of the playbook, and runs the rest at once:
  the playbooks of level 1 (`vacuum-maintenance`, `connection-pool`,
  `query-timeout`) at L1, those of level 2 at L2.  (Its steps are
  recorded; no SQL is executed.)  `RunsNeedTheirLevel` is what both agree on.
* *Flow of the conversation.*
  `src/docs/specs/agents/DBA_MULTITURN_SPEC.md:199-203` and the comment
  `services/session_memory.py:270` lead an ambiguous question after "analyze"
  to "execute", as in the example of DBA_ORCHESTRATOR_SPEC 4.2.  The code keeps
  the intent of the keywords there; it leads from "execute" to "analyze" and
  from "query" to "query" (`FlowIntent`).  No property is stated about it.
* *Confidence.*  `src/docs/specs/ai/CONFIDENCE_SCORE_SPEC.md:226` (AC-3) caps the
  level at L2 for a confidence between 0.5 and 0.8;
  `agents/copilot_agent.py:272-295` does not.  A score that the model leaves out
  is 0 (`agents/copilot_agent.py:104-107`), which for `risk_penalty` is the most
  favourable value: a diagnosis may be called executed on three scores and no
  risk.  `DiagnosisEarnsStatus` allows both.
* *custom_sql.*  Its type is listed as DANGEROUS, "conservative default"
  (`agents/safety_guard.py:59`), and the docstring of `classify_risk` speaks of a
  floor; the code classifies it from the text alone (lines 128-133), so that it
  may be SAFE.  The model has it so.
* *Slow queries.*  A DBA report shows "(없음)", none, when the target has no slow
  queries, when there is no pool and when `pg_stat_statements` cannot be read
  (`services/dba_report.py:91-92`, `127-129`, `405`; `api/v1/reports.py:179-180`).
  The model counts the figure as missing (`FiguresWith`), and
  `ReportGapsBounded` says that nothing else can be.
* *Graph builds at the start.*  `src/backend/entrypoint.sh:40-66` builds the graphs
  of all instances in one session without a rollback, as the deep analysis does;
  what the run `graph_torn` shows there can happen here.

**Bounds.** Two calls and two approvals give every pair of actors on one row;
nothing relates three. The proposals are one per way through the gate. Three
tasks against a global limit of two reach the limit and the task beyond it;
`ApprovalTimeout = 1` with `Horizon = 2` lets a task be one unit short of, at
and past its expiry. With `Cooldown = 2` and `Horizon = 3` an incident can
fall before, at and after the end of a cooldown, and two faults combine an
outage with a crash. Three requests allow a stale update of an incident that
two others have moved. Two snapshots make a schema go away and come back while the cache is lost and the memory of one worker is left behind (a third one more than doubles the states, and the theorem covers any number). Three trainings form the smallest circle beyond a
pair. Three questions overlap in one full document of two turns (ten pairs in
the code), so that trimming happens. Three requests make one use, one close
and one open a pool. Two runners and targets before, between and at the head
(a restart of the backend container beside an operator) give an upgrade
against an upgrade, and against a downgrade that drops what
the other creates; four runs of alembic let a third start from what a crash
has left. `Copies = 4` is what a DELETE, two builds and a registration can
hold at once. Bounds in guards: `Horizon`, `LastTick` (clocks), `Faults`,
`MaxFailures`, `MaxAlters`, `MaxWork`, `MaxResets`, `MaxSamples`,
`MaxUploads`, `MaxRestarts`, `MaxRotations`, `MaxMigrations`, `MaxBatches`.
Deadlock is not checked: every module models a finite number of requests,
after which nothing need happen.

## 4. Fairness

Safety runs assume none.  `TaskQueue!FairSpec`: the clock runs and a handler
that has looked up its level answers.  Approval, cancellation and expiry get
none, since humans may stay away and no schedule of `tasks/__init__.py` calls
the expiry.  `AnomalyDetector!FairAnomalySpec`: Beat collects, Valkey comes
back (`restart: always`), idle workers take queued tasks and a running check
goes on; faults get none.  `MCSchemaGraph!MCSpec`: Beat starts the deep
analysis again and again and it goes on to the next instance, and a build that
has begun commits or fails (its statements have time limits); requests,
changes of the schema and failures get none, and failures are finitely many.
`MetricCollection!FairCollectionSpec`: Beat sends the task, and a run goes on
until it is done or cut by its time limit; whether a target answers gets none.

## 5. Proofs

All theorems are for arbitrary constants that satisfy the named assumptions;
TLC evaluates the assumptions in every run.

`ExecutionEngineProofs` (`ProposalsAssumption`, `ChosenLevelsAssumption`,
`FaultsAssumption`, `ApprovalsAssumption`: finitely many approvals; any set of
calls).  The properties are not
inductive: that an executed row has an effect needs to know what the session
still holds.  `ActionInv` adds, for each place the data passes, that it fits
the gate's decision: `NothingTooEarly`, `CallFitsGate`, `RowFitsGate`,
`ApprovalFitsRow`.  `Decision(c)` is a function of `prop` and `seen`, and the
lemma `DecisionFixed` says that no step after the load changes it: that is why
a change of the autonomy level by an administrator cannot matter.  From
`TypeInvariant` and `ActionInvariant` follow `OnlyAuthorisedEffects`,
`ExecutedRowsHaveEffects`, `RowsAndAuditsTogether`, `PendingRowsBehindTarget`,
`RowsMoveForward`, and, with the lemma `CriticalIsNeverGranted` about the
policy matrix, `NoUnattendedCritical`.

`EffectsAreGranted` counts: a call holds at most one grant of the gate, and
each approval one for the action it has selected; a statement that is sent uses
one of them up, and has one effect at most.  The set of approvals that have
sent the statement of a call grows by one element with each
(`ApprovalStepKeepsGrants`).  `ImplementsActionLedger` is the refinement.
What the ledger calls a verdict is the gate's decision from the moment the call
has loaded the level; permits are issued and used according to where calls and
approvals stand.  So a load is a judgement, a statement sent uses a permit, a
commit files or amends a record, and everything else (closing a session,
crashing, deleting an instance, changing the level) leaves the ledger alone.
The step that needs the invariants is the commit: `CallFitsGate` and
`ApprovalFitsRow` say that what a session holds is one of the statuses the
ledger allows at that point.

`TaskQueueProofs` (`TasksAssumption`: finitely many tasks; natural limits).
`GateInv` adds to `StatusFitsGate` that a stored task's handler has answered,
so that its gate level is final.  `LimitsHold` rests on `FewerActive` and
`CreateKeepsLimits`, two facts about cardinalities.  `ImplementsSlotLimiter`
shows the refinement with `holding` the active tasks and `retired` those that
have ended or been lost.

`IncidentProofs` (`RequestsAssumption`: finitely many requests).  `IncidentInv` adds `LoadedWasRow`: what a validated request
has loaded was once the row, nothing has been taken back since, and where the
version is the same so is the status.  From it `StatusHasItsTime` and
`NoUpdateTakesBack`.  About the gate: `CriticalAlwaysNeedsHuman`
and `DecisionsAreMonotone`, from one lemma per argument of `CheckPolicy`.

`AnomalyDetectorProofs` (`TimesAssumption`, `MetricsAssumption`,
`WorkersAssumption`: no worker is named like the store of Valkey).
`CooldownInv` speaks of incidents that are stored or still pending: what a
check has read is no later than now, the mark of an incident is no later than
the one in its store, and an incident was marked either a cooldown before the
read of another, or in another store, or after it (`Before`).  From it
`SecondIncidentWaits`; `StoredIncidentIsMarked` besides.

`TaskProofs`, about the snapshots of the schema (no assumption).
`LogExplainsCopies` holds because of
`LogExplainsRuns`, what a run compares with is explained and, once persisted,
so is its own snapshot, and of two lemmas about the comparison:
`ComparisonExplains` (what is explained by the log is explained with the
changes to the next snapshot added) and `LogOnlyAdds`.  It depends on the order
in the code: with the cache written first, the step that replaces the cache
has nothing to cite.

`SchemaProofs` (`GraphAssumption`: a catalog is a set of
columns, `Copies` a number).  `BuildsReplace` needs to know what becomes of the
rows that were there when the DELETE of a build began: `Marked` says that
those nobody else has removed are doomed by the build before it reads the
catalog, and that what it creates is none of them; `DeepMarked`, that the
deep analysis, whose transaction runs on from instance to instance, has
created nodes only for instances it has left behind.  `JoinsFit` needs more
than what the one reader has gathered (`ReaderInv`): `Apart` says that what no
transaction has committed yet is nowhere else, so that a node that was not
there at the second read never comes back to be an end of a join path at a
later commit.  `GraphInv` is the conjunction.
That a new node has an identifier nobody knows (`NewIdIsFree`) is where the
smallest free number is chosen, and is proved with the library's `WFMin`.

`RequestProofs` (`PlaybookAssumption`, `PoolAssumption`, `SettingAssumption`,
`MigrationAssumption`).  `BuiltinsStand` and
`RunsAreAllowed` (`ExecutionInv`: the level looked up is one the instance had,
or 0).  `PoolsFit` from `PoolsNamed`; `LeaksAreOverlaps` from `CacheInv`: while
no two requests of a kind have been in the lookup at once, the one there finds
the entry as it left it, and an open pool is in the cache (`KindInv`).

Also there, `SettingsSurvive`: while no update is in flight, a start would come
up with the settings in use, unless updates have overlapped, failed or cleared
a key since the last start.  `KeyDone` says what the one update in flight has
done to each key, in the order of its list: assigned the attribute, and put the
value on its way to the row.

And the migrations.  `SchemaFits`: whatever runs of alembic overlap, are
refused or die, the committed tables are those of the committed version;
`AloneSucceeds`: a run that is alone is never refused.  Both rest on `OnItsWay`:
what a run sees is exactly what the statements it has executed make of the
version it set out from (`Progress`), and that version is the stored one as
long as the run is alone or, once it has stamped a revision, until it ends,
because the row of `alembic_version` is locked.  Below it stand facts about the
lists of the repository, read off once: every revision creates names of its
own (`NamesNew`), after all they refer to (`ReferencesThere`), and drops them in
an order that leaves no reference behind (`SoundDowngrade`), so that
`CreateSucceeds` and `DropSucceeds` hold at every statement.

`ImplementsAtomicMigrations` makes one statement of it: a run of alembic, with
all its DDL, its stamps and its one transaction, is a compare-and-set of the
version.  A run that is on its way is a request from its `Base`, the version its
transaction has found, to its target (`Request`); its steps keep the request
(`StatementKeepsRequest`, `StampKeepsRequest`, where the first stamp takes the
row lock and the base no longer depends on what others commit), being refused
or dying drops it, and the commit applies it (`CommitApplies`): the base is
still the stored version, and the tables become those of the target.

Components side by side.  `RequestsAreTheirParts` and, in `TaskProofs`,
`TasksAreTheirParts`: what the runs `api_requests` and `background_tasks`
check is, for each component, a behaviour of its own specification.  So each
theorem about a component holds of the run as well, and the type invariants of
the two runs (`ApiTypeInvariant`, `TasksTypeInvariant`) follow at once.

`TaskProofs` (`ReportAssumption`: finitely many instances;
`CollectionAssumption`: natural bounds).
`NoTrainingDeadlock` from `Ordered`: all that a training holds comes before
what it waits for, in the order of the buckets, so a circle would go up for
ever.  `LastTrainingStands`.  `ReportsTell` from `MorningInv` (messages of a
batch are numbered by what it has done, and after an incomplete one the
transaction is aborted), `ZerosFollow`, `GapsAreSlow` (what a request has
gathered lacks at most the slow queries) and `ToldIsPosted`.  `KpisMeasure`: a
rate or hit ratio is that of the work done between its two samples, or 0.  The
counters forget work when a target resets, and what a rate needs is that the
work forgotten only grows: `ForgetsMore` orders two samples by it, and `RateInv`
keeps that order for the stored samples, those still in a worker's hands and
the target itself.

`AssistantProofs` (`ConversationAssumption`, `AssistantAssumption`: natural
bounds, and branches that hold any of the four scores, in tenths).
`SavesKeepTheirCopy` states what a save may lose.  The attempt showed that the
property had said too much: with three turns or more a stale save may bring
a turn back in front of a full copy, so that what it loses is the oldest turn
of the copy it had loaded and not always the oldest of the document.  It now
says the former.  `CallsStayBounded` from `Counted`: what a question has cost is
what its place in the loops allows, the classification of an unclear intent
included (`BegunCounted`).  `StatusIsEarned` because the scores the code makes
up when the model fails are too weak for any status (`MadeUpFails`), and those
it fills in for the ones an answer leaves out add nothing to what the others
come to (`MeritSuffices`).

Every module has its type invariant as a theorem (`...TypeInvariant`).  Where
that says more than that fields have their type, it needs an argument of its
own: `VersionsCount` (the version of an incident is the number of requests that
have updated it, so it is never more than there are requests), `BoundsInv` (the
place of a message in its batch), `DsnsBounded`.

Every invariant, action property and refinement of the passing runs is a
theorem.  Liveness under fairness is out of the prover's reach and left to TLC:
`GraphCatchesUp`, and with it that the models do not get stuck.  Three theorems
state a property that no run checks any more, because it says less than another
one or is a fact about tables: `RowsMoveForward` is what the ledger has in
`File` and `Amend`, and `SchemaFits` what `AtomicMigrations` has in `Init` and
`Apply`; `NoUnattendedCritical` is `OneEffectPerGrant` with
`CriticalIsNeverGranted`.  TLC had found them to hold.  The
violation runs are counterexamples and have nothing to prove.

What a proof changed in the models.  Assumptions on constants are now named.
`SavesLoseOnlyRaces` was restated, as said above.  `RuntimeSettings` starts
afresh at a restart with what the database could be reached for.
`OneEffectPerGrant` speaks of a count of approvals, which needs
`ApprovalsAssumption`.  In
`SchemaGraph` and `Migrations` a few expressions were rewritten, with the same
meaning, because the prover reads the old form otherwise or not at all.

## 6. Not modelled, and why

* The quick check of the proactive agent (`agents/proactive_agent.py:47`)
  calls `compute_all_kpi(session, instance_id)`, declared as `(instance_id,
  session)`; the error is caught, and no threshold is ever looked at.  A model
  would be one step that always fails.
* `services/autonomy_manager.py` is called by its tests only.
  `agents/action_memory.py` only reads.
* `middleware/rate_limit.py` changes one number in one synchronous function.
* The webhook task of `tasks/alert.py` is queued by the test button of a
  channel only; no code sends an alert for an incident.
* Authentication, users, SSO, audit middleware: forms and tokens over single
  tables.  Creation of an instance or of a single sign-on user checks and then
  inserts; the UNIQUE constraint decides, and the loser gets an error.
* RAG documents and PDF: text in, text out.  WebSocket events and the
  frontend: views of what was committed elsewhere.
* Prompts, texts, embeddings, SQL patterns and the statistics of baselines are
  data; where they decide something, the decision is a choice.
* The audit entry of `POST /reports/generate` is flushed and never committed
  (`GenerateReport`, `CloseSession`): the model has it, and no document states
  a property it would break.
* The data keys of `services/session_memory.py:112` may collide once a document
  is full; nothing reads them back.

## 7. What could come next

Abstract specifications of more components, where a few lines can stand for
many properties as `ActionLedger` does: a store with lost updates for the
documents of the DBA agent, an incident log for the cooldowns.  Proofs of what
the runs do not ask yet: which orders of builds leave the graph equal to the
catalog without fairness.  A shared model of the instance row, of which now
each module has the part it reads.

## 8. Running

In this directory, `tlc -config task_queue.cfg MCTaskQueue.tla` checks a run
(`PROJECT.json` names the module of each), and `tlapm TaskQueueProofs.tla`
checks the proofs of a module.
