--------------------------- MODULE SchemaDetector ---------------------------
(***************************************************************************)
(* Detection of DDL changes (services/schema_detector.py, run by the       *)
(* Celery task of tasks/schema.py) for one monitored instance.  A worker   *)
(* takes a snapshot of the target's catalog, compares it with the snapshot *)
(* in the cache, commits the differences, and only then replaces the       *)
(* cache.  The cache is Valkey, with a copy in the memory of each worker   *)
(* for when Valkey has no answer.                                          *)
(*                                                                         *)
(* A snapshot is a record of two partial functions: columns to their       *)
(* definitions (type and nullability) and indexes to theirs.               *)
(***************************************************************************)
EXTENDS FiniteSets, Naturals

CONSTANTS
  Detectors,     \* the Celery processes that may run the task
  Snapshots,   \* the schemas the target goes through
  TableOf(_),  \* the table a column belongs to
  NoSnapshot   \* no entry in the cache

VARIABLES
  schema,    \* the schema of the target
  cached,    \* the snapshot under Valkey's key, or NoSnapshot
  cacheUp,  \* Valkey answers
  memory,    \* Detectors -> its entry of _snapshot_fallback, or NoSnapshot
  adapter,   \* Detectors -> "none" | "bound" to this task's loop | "stale"
  step,      \* Detectors -> how far its task has got
  new, old,  \* Detectors -> the snapshots its task compares
  log,       \* the committed rows of schema_changes, as a set
  baselines  \* history: the snapshots a first run has taken as they were

detectorVars ==
  <<schema, cached, cacheUp, memory, adapter, step, new, old, log, baselines>>

CacheCopy == Snapshots \cup {NoSnapshot}

-----------------------------------------------------------------------------
(* compare_snapshots                                                       *)

TablesOf(s) == {TableOf(c) : c \in DOMAIN s.columns}

Change(type, object, name) == [type |-> type, object |-> object, name |-> name]

TableChanges(a, b) ==
  {Change("CREATE", "TABLE", t) : t \in TablesOf(b) \ TablesOf(a)}
    \cup {Change("DROP", "TABLE", t) : t \in TablesOf(a) \ TablesOf(b)}

\* A column of a table that both snapshots have, and that came, went or
\* changed its definition.
ColumnChanged(a, b, c) ==
  /\ TableOf(c) \in TablesOf(a) \cap TablesOf(b)
  /\ \/ c \notin DOMAIN a.columns
     \/ c \notin DOMAIN b.columns
     \/ a.columns[c] # b.columns[c]

ColumnChanges(a, b) ==
  {Change("ALTER", "COLUMN", c) :
     c \in {d \in DOMAIN a.columns \cup DOMAIN b.columns : ColumnChanged(a, b, d)}}

IndexChanges(a, b) ==
  {Change("CREATE", "INDEX", i) : i \in DOMAIN b.indexes \ DOMAIN a.indexes}
    \cup {Change("DROP", "INDEX", i) : i \in DOMAIN a.indexes \ DOMAIN b.indexes}

CompareSnapshots(a, b) == TableChanges(a, b) \cup ColumnChanges(a, b) \cup IndexChanges(a, b)

-----------------------------------------------------------------------------
DetectorInit ==
  /\ schema \in Snapshots
  /\ cached = NoSnapshot
  /\ cacheUp = TRUE
  /\ memory = [w \in Detectors |-> NoSnapshot]
  /\ adapter = [w \in Detectors |-> "none"]
  /\ step = [w \in Detectors |-> "idle"]
  /\ new = [w \in Detectors |-> NoSnapshot]
  /\ old = [w \in Detectors |-> NoSnapshot]
  /\ log = {}
  /\ baselines = {}

\* Somebody changes the schema of the target.
AlterSchema ==
  /\ schema' \in Snapshots \ {schema}
  /\ UNCHANGED <<cached, cacheUp, memory, adapter, step, new, old, log, baselines>>

\* The task gets an adapter, connecting if the process has none, and takes
\* its snapshot.  An adapter an earlier task has left belongs to an event
\* loop that is closed: with it the task fails here, and changes nothing.
TakeSnapshot(w) ==
  /\ step[w] = "idle"
  /\ adapter[w] = "none"
  /\ adapter' = [adapter EXCEPT ![w] = "bound"]
  /\ new' = [new EXCEPT ![w] = schema]
  /\ step' = [step EXCEPT ![w] = "scanned"]
  /\ UNCHANGED <<schema, cached, cacheUp, memory, old, log, baselines>>

\* A task of collect.py in the same process clears the cached adapters, and
\* leaves its own behind if it can connect.
CollectInWorker(w) ==
  /\ step[w] = "idle"
  /\ \E connected \in BOOLEAN :
       adapter' = [adapter EXCEPT ![w] = IF connected THEN "stale" ELSE "none"]
  /\ UNCHANGED <<schema, cached, cacheUp, memory, step, new, old, log, baselines>>

\* What _get_cached_snapshot returns: Valkey's entry, else the process's own.
CachedSnapshot(w) ==
  IF cacheUp /\ cached # NoSnapshot THEN cached ELSE memory[w]

ReadCache(w) ==
  /\ step[w] = "scanned"
  /\ old' = [old EXCEPT ![w] = CachedSnapshot(w)]
  /\ step' = [step EXCEPT ![w] = "compared"]
  /\ UNCHANGED <<schema, cached, cacheUp, memory, adapter, new, log, baselines>>

HasChanges(w) == old[w] # NoSnapshot /\ CompareSnapshots(old[w], new[w]) # {}

\* The rows of one comparison are committed together.
PersistChanges(w) ==
  /\ step[w] = "compared"
  /\ HasChanges(w)
  /\ log' = log \cup CompareSnapshots(old[w], new[w])
  /\ step' = [step EXCEPT ![w] = "persisted"]
  /\ UNCHANGED <<schema, cached, cacheUp, memory, adapter, new, old, baselines>>

\* A detection that replaces the cache before it commits the changes.
MutMayCache(w) == step[w] \in {"compared", "persisted"}

\* After the commit, or at once when there is nothing to report: the first
\* snapshot of all, and a snapshot without changes.
MayCache(w) == step[w] = "persisted" \/ (step[w] = "compared" /\ ~HasChanges(w))

SetCache(w) ==
  /\ MayCache(w)
  /\ cached' = IF cacheUp THEN new[w] ELSE cached
  /\ memory' = [memory EXCEPT ![w] = new[w]]
  /\ baselines' = IF old[w] = NoSnapshot THEN baselines \cup {new[w]} ELSE baselines
  /\ step' = [step EXCEPT ![w] = "idle"]
  /\ adapter' = [adapter EXCEPT ![w] = "stale"]
  /\ new' = [new EXCEPT ![w] = NoSnapshot]
  /\ old' = [old EXCEPT ![w] = NoSnapshot]
  /\ UNCHANGED <<schema, cacheUp, log>>

\* The target, the system database or the time limit of the task raises: the
\* instance is skipped until the next run.
SkipOnError(w) ==
  /\ step[w] # "idle"
  /\ step' = [step EXCEPT ![w] = "idle"]
  /\ adapter' = [adapter EXCEPT ![w] = "stale"]
  /\ new' = [new EXCEPT ![w] = NoSnapshot]
  /\ old' = [old EXCEPT ![w] = NoSnapshot]
  /\ UNCHANGED <<schema, cached, cacheUp, memory, log, baselines>>

\* The process dies, or is replaced after its thousandth task; what it had
\* begun is delivered again, which is a task like any other.
ReplaceWorker(w) ==
  /\ memory' = [memory EXCEPT ![w] = NoSnapshot]
  /\ adapter' = [adapter EXCEPT ![w] = "none"]
  /\ step' = [step EXCEPT ![w] = "idle"]
  /\ new' = [new EXCEPT ![w] = NoSnapshot]
  /\ old' = [old EXCEPT ![w] = NoSnapshot]
  /\ UNCHANGED <<schema, cached, cacheUp, log, baselines>>

\* Valkey goes away and comes back with its keys; a key that is not renewed
\* for two hours expires.
ValkeyChange ==
  /\ \/ cacheUp' = ~cacheUp /\ UNCHANGED cached
     \/ cached # NoSnapshot /\ cached' = NoSnapshot /\ UNCHANGED cacheUp
  /\ UNCHANGED <<schema, memory, adapter, step, new, old, log, baselines>>

DetectionStep(w) ==
  \/ TakeSnapshot(w) \/ ReadCache(w) \/ PersistChanges(w) \/ SetCache(w)

DetectorNext ==
  \/ AlterSchema
  \/ ValkeyChange
  \/ \E w \in Detectors :
       DetectionStep(w) \/ SkipOnError(w) \/ CollectInWorker(w) \/ ReplaceWorker(w)

DetectorSpec == DetectorInit /\ [][DetectorNext]_detectorVars

-----------------------------------------------------------------------------
DetectorTypeOK ==
  /\ schema \in Snapshots
  /\ cached \in CacheCopy
  /\ cacheUp \in BOOLEAN
  /\ memory \in [Detectors -> CacheCopy]
  /\ adapter \in [Detectors -> {"none", "bound", "stale"}]
  /\ step \in [Detectors -> {"idle", "scanned", "compared", "persisted"}]
  /\ new \in [Detectors -> CacheCopy]
  /\ old \in [Detectors -> CacheCopy]
  /\ baselines \subseteq Snapshots
  /\ \A c \in log : c.object \in {"TABLE", "COLUMN", "INDEX"}

Reported(object, name) == \E c \in log : c.object = object /\ c.name = name

\* Column c is the same in both snapshots, or its difference is in the log:
\* as a change of the column, or of its table.
ColumnExplained(a, b, c) ==
  \/ c \in DOMAIN a.columns /\ c \in DOMAIN b.columns /\ a.columns[c] = b.columns[c]
  \/ c \notin DOMAIN a.columns /\ c \notin DOMAIN b.columns
  \/ Reported("COLUMN", c)
  \/ Reported("TABLE", TableOf(c))

IndexExplained(a, b, i) ==
  (i \in DOMAIN a.indexes <=> i \in DOMAIN b.indexes) \/ Reported("INDEX", i)

Explained(a, b) ==
  /\ \A c \in DOMAIN a.columns \cup DOMAIN b.columns : ColumnExplained(a, b, c)
  /\ \A i \in DOMAIN a.indexes \cup DOMAIN b.indexes : IndexExplained(a, b, i)

\* No change is skipped: every copy of the cached snapshot, in Valkey or in a
\* process, differs from some first snapshot only in what schema_changes
\* reports, whatever workers overlap, die or lose Valkey.  So the next
\* comparison, with any of the copies, starts from where the reports end.
ExplainedByLog(s) == s # NoSnapshot => \E b \in baselines : Explained(b, s)

LogExplainsCaches ==
  /\ ExplainedByLog(cached)
  /\ \A w \in Detectors : ExplainedByLog(memory[w])

\* What a run compares with is explained as well, and when it has committed
\* its changes so is its own snapshot.
LogExplainsRuns ==
  \A w \in Detectors :
    /\ ExplainedByLog(old[w])
    /\ step[w] = "persisted" => ExplainedByLog(new[w])
=============================================================================
