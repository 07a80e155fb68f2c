-------------------------- MODULE AnomalyDetector --------------------------
(***************************************************************************)
(* Anomaly detection on hot samples: tasks/collect.py hands every sample   *)
(* it has stored to the Celery task tasks/analyze.py:check_anomalies,      *)
(* whose AnomalyDetector (analyzers/anomaly.py) compares each hot metric   *)
(* with its baseline and opens incidents, at most one per metric and       *)
(* cooldown.  One monitored instance is modelled: two share nothing.       *)
(*                                                                         *)
(* The cooldown of a metric is marked in Valkey, by a key that expires,    *)
(* or, while Valkey does not answer, in a dictionary of the worker's       *)
(* process.  It is read before the incident is built and marked before the *)
(* incident is committed; other workers run in between.  Valkey is the     *)
(* broker too.  A task is acknowledged when it has ended (acks_late), so   *)
(* the task of a worker that dies is delivered again.                      *)
(***************************************************************************)
EXTENDS Integers, Sequences

CONSTANTS
  HotMetricKeys,    \* the metrics baselines are built for, in list order
  SampleKeys,       \* the keys of a hot sample, as the adapter collects it
  Samples,          \* the hot samples of an instance
  Workers,
  Cooldown,
  Horizon,          \* bound on the clock
  Faults            \* bound on the number of faults

ASSUME TimesAssumption == Cooldown \in Nat \ {0} /\ Horizon \in Nat /\ Faults \in Nat
ASSUME MetricsAssumption == HotMetricKeys \in Seq(STRING)
ASSUME WorkersAssumption == "valkey" \notin Workers

Metrics == { HotMetricKeys[k] : k \in DOMAIN HotMetricKeys }

VARIABLES
  now,
  valkeyUp,
  faults,       \* faults so far
  life,         \* Workers -> how many processes it has lost
  marked,       \* Stores -> metric -> when its cooldown was last started
  abnormal,     \* Samples -> the keys whose value is far off its usual range
  task,         \* Samples -> progress of its check_anomalies task
  worker,       \* Samples -> the worker its task was last delivered to
  pos,          \* Samples -> index of the metric the check is at
  cooldownRead,         \* Samples -> when and where it read the cooldown of that metric
  pending,      \* Samples -> incidents in the session of the check
  incidents     \* rows of incidents

checkVars == <<task, worker, pos, cooldownRead, pending>>
anomalyVars == <<now, valkeyUp, faults, life, marked, abnormal, checkVars, incidents>>

\* A cooldown is kept in Valkey or in the memory of a worker's process.
Valkey == <<"valkey", 0>>
Stores == {Valkey} \cup (Workers \X (0..Faults))
Alive(s) == s = Valkey \/ \E w \in Workers : s = <<w, life[w]>>

\* The store a check gets: Valkey if it answers, else its own process.
Process(c) == <<worker[c], life[worker[c]]>>
StoreOf(c) == IF valkeyUp THEN Valkey ELSE Process(c)

Never == -Cooldown

TaskSteps == {"uncollected", "queued", "lost", "checking", "passed", "ended", "acked"}
InCheck(c) == task[c] \in {"checking", "passed", "ended"}

Incident == [sample : Samples, metric : Metrics, by : Stores \ {Valkey},
             readAt : 0..Horizon, readFrom : Stores,
             markedAt : 0..Horizon, markedIn : Stores]

AnomalyInit ==
  /\ now = 0
  /\ valkeyUp = TRUE
  /\ faults = 0
  /\ life = [w \in Workers |-> 0]
  /\ marked = [s \in Stores |-> [m \in Metrics |-> Never]]
  /\ abnormal \in [Samples -> SUBSET SampleKeys]
  /\ task = [c \in Samples |-> "uncollected"]
  /\ worker \in [Samples -> Workers]
  /\ pos = [c \in Samples |-> 1]
  /\ cooldownRead = [c \in Samples |-> [at |-> 0, from |-> Valkey]]
  /\ pending = [c \in Samples |-> {}]
  /\ incidents = {}

-----------------------------------------------------------------------------
(* The world around the check.                                             *)

Fault == faults < Faults /\ faults' = faults + 1

Tick ==
  /\ now < Horizon
  /\ now' = now + 1
  /\ UNCHANGED <<valkeyUp, faults, life, marked, abnormal, checkVars, incidents>>

\* Valkey stops answering, and answers again with its keys.
ValkeyDown ==
  /\ valkeyUp
  /\ Fault
  /\ valkeyUp' = FALSE
  /\ UNCHANGED <<now, life, marked, abnormal, checkVars, incidents>>

ValkeyBack ==
  /\ ~valkeyUp
  /\ valkeyUp' = TRUE
  /\ UNCHANGED <<now, faults, life, marked, abnormal, checkVars, incidents>>

\* A worker's process dies: its dictionary, and the session of a check it
\* was running, are gone; the check is delivered again.
Crash(w) ==
  /\ Fault
  /\ life' = [life EXCEPT ![w] = @ + 1]
  /\ LET died == { c \in Samples : InCheck(c) /\ worker[c] = w } IN
       /\ task' = [c \in Samples |-> IF c \in died THEN "queued" ELSE task[c]]
       /\ pending' = [c \in Samples |-> IF c \in died THEN {} ELSE pending[c]]
  /\ UNCHANGED <<now, valkeyUp, marked, abnormal, worker, pos, cooldownRead, incidents>>

-----------------------------------------------------------------------------
(* The task.                                                               *)

\* The collector has stored a hot sample and sends its task; a broker that
\* does not answer loses it.
Collect(c) ==
  /\ task[c] = "uncollected"
  /\ task' = [task EXCEPT ![c] = IF valkeyUp THEN "queued" ELSE "lost"]
  /\ UNCHANGED <<now, valkeyUp, faults, life, marked, abnormal, worker, pos, cooldownRead,
                 pending, incidents>>

\* An idle worker takes a task; the check opens its session.
Deliver(c, w) ==
  /\ task[c] = "queued"
  /\ valkeyUp
  /\ ~\E d \in Samples : InCheck(d) /\ worker[d] = w
  /\ task' = [task EXCEPT ![c] = "checking"]
  /\ worker' = [worker EXCEPT ![c] = w]
  /\ pos' = [pos EXCEPT ![c] = 1]
  /\ UNCHANGED <<now, valkeyUp, faults, life, marked, abnormal, cooldownRead, pending, incidents>>

AtMetric(c) == task[c] = "checking" /\ pos[c] <= Len(HotMetricKeys)
MetricOf(c) == HotMetricKeys[pos[c]]

\* The metric is not in the sample, has no baseline, or is within 1.5 sigma.
SkipMetric(c) ==
  /\ AtMetric(c)
  /\ MetricOf(c) \notin abnormal[c]
  /\ pos' = [pos EXCEPT ![c] = @ + 1]
  /\ UNCHANGED <<now, valkeyUp, faults, life, marked, abnormal, task, worker, cooldownRead,
                 pending, incidents>>

\* A cooldown test that lets everything through while Valkey is away.
MutIsInCooldown(s, m) == s = Valkey /\ now - marked[s][m] < Cooldown

\* _is_in_cooldown: the key has not expired, or the time in the dictionary
\* is less than a cooldown ago.
IsInCooldown(s, m) == now - marked[s][m] < Cooldown

\* An abnormal metric whose cooldown runs is skipped; otherwise the check
\* goes on to read the baseline for the description.
ReadCooldown(c) ==
  /\ AtMetric(c)
  /\ MetricOf(c) \in abnormal[c]
  /\ IF IsInCooldown(StoreOf(c), MetricOf(c))
     THEN /\ pos' = [pos EXCEPT ![c] = @ + 1]
          /\ UNCHANGED <<task, cooldownRead>>
     ELSE /\ task' = [task EXCEPT ![c] = "passed"]
          /\ cooldownRead' = [cooldownRead EXCEPT ![c] = [at |-> now, from |-> StoreOf(c)]]
          /\ UNCHANGED pos
  /\ UNCHANGED <<now, valkeyUp, faults, life, marked, abnormal, worker, pending, incidents>>

\* A cooldown that is marked only when Valkey is away.
MutSetCooldown(s, m) == marked' = [marked EXCEPT ![s][m] = IF s = Valkey THEN @ ELSE now]

\* A cooldown marked by the time it ends.
MutSetExpiry(s, m) == marked' = [marked EXCEPT ![s][m] = now + Cooldown]

\* _set_cooldown: setex, or the time in the dictionary.
SetCooldown(s, m) == marked' = [marked EXCEPT ![s][m] = now]

\* The incident is added to the session and the cooldown marked; the row is
\* not yet in the database.
OpenIncident(c) ==
  LET m == MetricOf(c) IN
  /\ task[c] = "passed"
  /\ pending' = [pending EXCEPT ![c] = @ \cup
       {[sample |-> c, metric |-> m, by |-> Process(c),
         readAt |-> cooldownRead[c].at, readFrom |-> cooldownRead[c].from,
         markedAt |-> now, markedIn |-> StoreOf(c)]}]
  /\ SetCooldown(StoreOf(c), m)
  /\ task' = [task EXCEPT ![c] = "checking"]
  /\ pos' = [pos EXCEPT ![c] = @ + 1]
  /\ UNCHANGED <<now, valkeyUp, faults, life, abnormal, worker, cooldownRead, incidents>>

\* The time limit strikes while the baseline is read: the metric is skipped.
DropMetric(c) ==
  /\ task[c] = "passed"
  /\ Fault
  /\ task' = [task EXCEPT ![c] = "checking"]
  /\ pos' = [pos EXCEPT ![c] = @ + 1]
  /\ UNCHANGED <<now, valkeyUp, life, marked, abnormal, worker, cooldownRead, pending, incidents>>

\* All metrics are done and the incidents, if any, are committed.
Commit(c) ==
  /\ task[c] = "checking"
  /\ pos[c] > Len(HotMetricKeys)
  /\ incidents' = incidents \cup pending[c]
  /\ pending' = [pending EXCEPT ![c] = {}]
  /\ task' = [task EXCEPT ![c] = "ended"]
  /\ UNCHANGED <<now, valkeyUp, faults, life, marked, abnormal, worker, pos, cooldownRead>>

\* The database fails a statement or the commit: the session is of no more
\* use, its incidents are rolled back, and the task swallows the exception.
FailCheck(c) ==
  /\ task[c] \in {"checking", "passed"}
  /\ Fault
  /\ pending' = [pending EXCEPT ![c] = {}]
  /\ task' = [task EXCEPT ![c] = "ended"]
  /\ UNCHANGED <<now, valkeyUp, life, marked, abnormal, worker, pos, cooldownRead, incidents>>

Ack(c) ==
  /\ task[c] = "ended"
  /\ task' = [task EXCEPT ![c] = "acked"]
  /\ UNCHANGED <<now, valkeyUp, faults, life, marked, abnormal, worker, pos, cooldownRead,
                 pending, incidents>>

-----------------------------------------------------------------------------
CheckStep(c) ==
  SkipMetric(c) \/ ReadCooldown(c) \/ OpenIncident(c) \/ Commit(c) \/ Ack(c)

AnomalyNext ==
  \/ Tick
  \/ ValkeyDown
  \/ ValkeyBack
  \/ \E w \in Workers : Crash(w)
  \/ \E c \in Samples :
       \/ Collect(c)
       \/ \E w \in Workers : Deliver(c, w)
       \/ CheckStep(c)
       \/ DropMetric(c)
       \/ FailCheck(c)

AnomalySpec == AnomalyInit /\ [][AnomalyNext]_anomalyVars

\* Beat collects, Valkey comes back (restart: always), workers take what is
\* queued and a check that runs goes on.
FairAnomalySpec ==
  /\ AnomalySpec
  /\ WF_anomalyVars(ValkeyBack)
  /\ \A c \in Samples :
       /\ WF_anomalyVars(Collect(c))
       /\ WF_anomalyVars(\E w \in Workers : Deliver(c, w))
       /\ WF_anomalyVars(CheckStep(c))

-----------------------------------------------------------------------------
AnomalyTypeOK ==
  /\ now \in 0..Horizon
  /\ valkeyUp \in BOOLEAN
  /\ faults \in 0..Faults
  /\ life \in [Workers -> 0..Faults]
  /\ marked \in [Stores -> [Metrics -> {Never} \cup 0..Horizon]]
  /\ abnormal \in [Samples -> SUBSET SampleKeys]
  /\ task \in [Samples -> TaskSteps]
  /\ worker \in [Samples -> Workers]
  /\ pos \in [Samples -> 1..Len(HotMetricKeys) + 1]
  /\ cooldownRead \in [Samples -> [at : 0..Horizon, from : Stores]]
  /\ pending \in [Samples -> SUBSET Incident]
  /\ incidents \in SUBSET Incident

\* Two incidents of a metric are a cooldown apart whenever the check that
\* opened the second read the store the first had already marked: across
\* workers, redeliveries of a task, and outages of Valkey.  (Checks that read
\* before either marks, or in different stores, may duplicate: "best-effort".)
IncidentsSpaced ==
  \A a, b \in incidents :
     /\ a.metric = b.metric
     /\ a.markedIn = b.readFrom
     /\ a.markedAt < b.readAt
     => b.readAt - a.markedAt >= Cooldown

\* A stored incident has started its cooldown in a store, which goes on for
\* as long as the cooldown is to last or the process that holds it lives.
IncidentStartsCooldown ==
  \A a \in incidents :
     Alive(a.markedIn) => marked[a.markedIn][a.metric] >= a.markedAt

-----------------------------------------------------------------------------

\* The hot samples that are collected are what anomalies are detected in: a
\* sample with an abnormal value brings an incident of the sample, or finds
\* one that was opened less than a cooldown before.
AnomalyIsDetected ==
  \A c \in Samples :
     task[c] = "queued" /\ abnormal[c] # {} ~> incidents # {}
=============================================================================
