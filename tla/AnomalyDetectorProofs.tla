----------------------- MODULE AnomalyDetectorProofs -----------------------
(***************************************************************************)
(* Machine-checked proofs about AnomalyDetector, for every set of workers, *)
(* samples and metrics, every cooldown and any number of faults: what the  *)
(* best-effort cooldown does promise.                                      *)
(***************************************************************************)
EXTENDS AnomalyDetector, TLAPS

-----------------------------------------------------------------------------
(* Type correctness.                                                       *)

\* A worker loses a process by a fault; a check that has passed the cooldown
\* of a metric is at a metric.
PlacesFit ==
  /\ \A w \in Workers : life[w] <= faults
  /\ \A c \in Samples : task[c] = "passed" => pos[c] <= Len(HotMetricKeys)

AnomalyTypeInv == AnomalyTypeOK /\ PlacesFit

LEMMA MetricIsHot ==
  ASSUME NEW k \in 1..Len(HotMetricKeys)
  PROVE  HotMetricKeys[k] \in Metrics
BY MetricsAssumption DEF Metrics

\* Where a check keeps its cooldown is one of the stores, and its process is
\* not Valkey.
LEMMA StoresFit ==
  ASSUME AnomalyTypeOK, NEW c \in Samples
  PROVE  Process(c) \in Stores \ {Valkey} /\ StoreOf(c) \in Stores
<1>1. Process(c) \in Workers \X (0..Faults)
  BY DEF AnomalyTypeOK, Process
<1>2. Valkey \notin Workers \X (0..Faults)
  BY WorkersAssumption DEF Valkey
<1> QED
  BY <1>1, <1>2 DEF Stores, StoreOf

LEMMA OpenIncidentTyped ==
  ASSUME AnomalyTypeInv, NEW c \in Samples, OpenIncident(c)
  PROVE  AnomalyTypeInv'
<1> USE TimesAssumption DEF AnomalyTypeInv, AnomalyTypeOK, PlacesFit
<1>1. task[c] = "passed" /\ pos[c] \in 1..Len(HotMetricKeys) /\ Len(HotMetricKeys) \in Nat
  BY MetricsAssumption DEF OpenIncident
<1>2. MetricOf(c) \in Metrics
  BY <1>1, MetricIsHot DEF MetricOf
<1>3. Process(c) \in Stores \ {Valkey} /\ StoreOf(c) \in Stores
  BY StoresFit
<1>4. [sample |-> c, metric |-> MetricOf(c), by |-> Process(c),
       readAt |-> cooldownRead[c].at, readFrom |-> cooldownRead[c].from,
       markedAt |-> now, markedIn |-> StoreOf(c)] \in Incident
  BY <1>2, <1>3 DEF Incident
<1>5. pending' \in [Samples -> SUBSET Incident]
  BY <1>4 DEF OpenIncident
<1>6. marked' \in [Stores -> [Metrics -> {Never} \cup 0..Horizon]]
  BY <1>2, <1>3 DEF OpenIncident, SetCooldown
<1>7. pos' \in [Samples -> 1..Len(HotMetricKeys) + 1]
  BY <1>1 DEF OpenIncident
<1>8. task' \in [Samples -> TaskSteps] /\ \A d \in Samples : task'[d] = "passed" => d # c
  BY DEF OpenIncident, TaskSteps
<1>9. \A d \in Samples : task'[d] = "passed" => pos'[d] <= Len(HotMetricKeys)
  BY <1>8 DEF OpenIncident
<1> QED
  BY <1>5, <1>6, <1>7, <1>8, <1>9 DEF OpenIncident

LEMMA CheckKeepsTypes ==
  ASSUME AnomalyTypeInv, NEW c \in Samples,
         \/ Collect(c) \/ (\E w \in Workers : Deliver(c, w))
         \/ CheckStep(c) \/ DropMetric(c) \/ FailCheck(c)
  PROVE  AnomalyTypeInv'
<1> USE TimesAssumption DEF AnomalyTypeInv, AnomalyTypeOK, PlacesFit
<1>0. Len(HotMetricKeys) \in Nat
  BY MetricsAssumption
<1>1. CASE Collect(c)
  BY <1>1 DEF Collect, TaskSteps
<1>2. ASSUME NEW w \in Workers, Deliver(c, w) PROVE AnomalyTypeInv'
  BY <1>0, <1>2 DEF Deliver, TaskSteps
<1>3. CASE SkipMetric(c)
  BY <1>0, <1>3 DEF SkipMetric, AtMetric
<1>4. CASE ReadCooldown(c)
  <2>1. pos[c] \in 1..Len(HotMetricKeys) /\ StoreOf(c) \in Stores
    BY <1>0, <1>4, StoresFit DEF ReadCooldown, AtMetric
  <2>2. CASE IsInCooldown(StoreOf(c), MetricOf(c))
    <3>1. /\ pos' = [pos EXCEPT ![c] = @ + 1]
          /\ UNCHANGED <<now, valkeyUp, faults, life, marked, abnormal, task, worker,
                         cooldownRead, pending, incidents>>
          /\ task[c] = "checking"
      BY <1>4, <2>2 DEF ReadCooldown, AtMetric
    <3>2. pos' \in [Samples -> 1..Len(HotMetricKeys) + 1]
      BY <1>0, <2>1, <3>1
    <3> QED
      BY <3>1, <3>2
  <2>3. CASE ~IsInCooldown(StoreOf(c), MetricOf(c))
    <3>1. /\ task' = [task EXCEPT ![c] = "passed"]
          /\ cooldownRead' = [cooldownRead EXCEPT ![c] = [at |-> now, from |-> StoreOf(c)]]
          /\ UNCHANGED <<now, valkeyUp, faults, life, marked, abnormal, worker, pos,
                         pending, incidents>>
      BY <1>4, <2>3 DEF ReadCooldown
    <3>2. cooldownRead' \in [Samples -> [at : 0..Horizon, from : Stores]]
      BY <2>1, <3>1
    <3>3. task' \in [Samples -> TaskSteps]
      BY <3>1 DEF TaskSteps
    <3>4. \A d \in Samples : task'[d] = "passed" => pos[d] <= Len(HotMetricKeys)
      BY <1>0, <2>1, <3>1
    <3> QED
      BY <3>1, <3>2, <3>3, <3>4
  <2> QED
    BY <2>2, <2>3
<1>5. CASE OpenIncident(c)
  BY <1>5, OpenIncidentTyped
<1>6. CASE Commit(c)
  BY <1>6 DEF Commit, TaskSteps
<1>7. CASE Ack(c)
  BY <1>7 DEF Ack, TaskSteps
<1>8. CASE DropMetric(c)
  BY <1>0, <1>8 DEF DropMetric, Fault, TaskSteps
<1>9. CASE FailCheck(c)
  BY <1>9 DEF FailCheck, Fault, TaskSteps
<1> QED
  BY <1>1, <1>2, <1>3, <1>4, <1>5, <1>6, <1>7, <1>8, <1>9 DEF CheckStep

LEMMA TypesStep == AnomalyTypeInv /\ [AnomalyNext]_anomalyVars => AnomalyTypeInv'
<1> SUFFICES ASSUME AnomalyTypeInv, [AnomalyNext]_anomalyVars PROVE AnomalyTypeInv'
  OBVIOUS
<1> USE TimesAssumption DEF AnomalyTypeInv, AnomalyTypeOK, PlacesFit, checkVars
<1>1. CASE Tick
  BY <1>1 DEF Tick
<1>2. CASE ValkeyDown
  <2>1. faults' \in 0..Faults /\ faults' = faults + 1
    <3>1. faults < Faults /\ faults' = faults + 1
      BY <1>2 DEF ValkeyDown, Fault
    <3>2. faults \in 0..Faults /\ Faults \in Nat
      OBVIOUS
    <3> QED
      BY <3>1, <3>2
  <2>2. ASSUME NEW w \in Workers PROVE life[w] <= faults'
    BY <2>1
  <2>3. valkeyUp' \in BOOLEAN
    BY <1>2 DEF ValkeyDown
  <2> QED
    BY <1>2, <2>1, <2>2, <2>3 DEF ValkeyDown
<1>3. CASE ValkeyBack
  BY <1>3 DEF ValkeyBack
<1>4. ASSUME NEW w \in Workers, Crash(w) PROVE AnomalyTypeInv'
  <2>1. life' \in [Workers -> 0..Faults] /\ \A v \in Workers : life'[v] <= faults'
    <3>1. life[w] + 1 <= faults + 1 /\ faults + 1 \in 0..Faults /\ life[w] + 1 \in 0..Faults
      BY <1>4 DEF Crash, Fault
    <3>2. life' = [life EXCEPT ![w] = @ + 1] /\ faults' = faults + 1
      BY <1>4 DEF Crash, Fault
    <3>3. ASSUME NEW v \in Workers PROVE life'[v] \in 0..Faults /\ life'[v] <= faults'
      BY <3>1, <3>2
    <3> QED
      BY <3>2, <3>3
  <2>2. /\ task' \in [Samples -> TaskSteps]
        /\ \A c \in Samples : task'[c] = "passed" => task[c] = "passed"
    <3>1. \A c \in Samples : task'[c] = task[c] \/ task'[c] = "queued"
      BY <1>4 DEF Crash
    <3>2. task' = [c \in Samples |-> task'[c]]
      BY <1>4 DEF Crash
    <3> QED
      BY <3>1, <3>2 DEF TaskSteps
  <2>3. pending' \in [Samples -> SUBSET Incident]
    BY <1>4 DEF Crash
  <2>4. faults' \in 0..Faults
    BY <1>4 DEF Crash, Fault
  <2> QED
    BY <1>4, <2>1, <2>2, <2>3, <2>4 DEF Crash
<1>5. CASE UNCHANGED anomalyVars
  BY <1>5 DEF anomalyVars
<1> QED
  BY <1>1, <1>2, <1>3, <1>4, <1>5, CheckKeepsTypes DEF AnomalyNext

LEMMA AnomalyTypesHold == AnomalySpec => []AnomalyTypeInv
<1>1. AnomalyInit => AnomalyTypeInv
  BY TimesAssumption, MetricsAssumption
  DEF AnomalyInit, AnomalyTypeInv, AnomalyTypeOK, PlacesFit, Stores, TaskSteps
<1> QED
  BY <1>1, TypesStep, PTL DEF AnomalySpec

\* Every variable keeps its type (analyzers/anomaly.py, tasks/analyze.py).
THEOREM AnomalyTypeInvariant == AnomalySpec => []AnomalyTypeOK
BY AnomalyTypesHold, PTL DEF AnomalyTypeInv

-----------------------------------------------------------------------------
(* The cooldown.                                                           *)

\* The incidents in the database and in the sessions of the checks.
Opened == incidents \cup UNION {pending[c] : c \in Samples}

\* Incident a was marked a cooldown before metric m was read from a store, or
\* in another store, or later.
Before(a, m, at, from) ==
  a.metric = m /\ a.markedIn = from /\ a.markedAt < at => at - a.markedAt >= Cooldown

CooldownInv ==
  /\ \A s \in Stores, m \in Metrics : marked[s][m] <= now
  /\ \A c \in Samples : cooldownRead[c].at <= now
  /\ \A a \in Opened : a.readAt <= now /\ a.markedAt <= marked[a.markedIn][a.metric]
  /\ \A a, b \in Opened : Before(a, b.metric, b.readAt, b.readFrom)
  /\ \A c \in Samples : task[c] = "passed" =>
       \A a \in Opened : Before(a, MetricOf(c), cooldownRead[c].at, cooldownRead[c].from)

LEMMA OpenedTyped == AnomalyTypeOK => Opened \subseteq Incident
BY DEF AnomalyTypeOK, Opened

\* A step that opens no incident, marks and reads no cooldown, and lets no
\* check pass one.
LEMMA QuietStep ==
  ASSUME AnomalyTypeInv, CooldownInv,
         now' \in Int, now <= now', UNCHANGED <<marked, cooldownRead>>, Opened' \subseteq Opened,
         \A c \in Samples : task'[c] = "passed" => task[c] = "passed" /\ pos'[c] = pos[c]
  PROVE  CooldownInv'
<1> USE DEF CooldownInv
<1>1. now \in Int
  BY DEF AnomalyTypeInv, AnomalyTypeOK
<1>2. \A s \in Stores, m \in Metrics : marked'[s][m] <= now'
  <2> SUFFICES ASSUME NEW s \in Stores, NEW m \in Metrics PROVE marked[s][m] <= now'
    OBVIOUS
  <2>1. marked[s][m] \in Int
    BY TimesAssumption DEF AnomalyTypeInv, AnomalyTypeOK, Never
  <2> QED
    BY <1>1, <2>1
<1>3. \A c \in Samples : cooldownRead'[c].at <= now'
  <2> SUFFICES ASSUME NEW c \in Samples PROVE cooldownRead[c].at <= now'
    OBVIOUS
  <2>1. cooldownRead[c].at \in Int
    BY DEF AnomalyTypeInv, AnomalyTypeOK
  <2> QED
    BY <1>1, <2>1
<1>4. ASSUME NEW a \in Opened'
      PROVE  a.readAt <= now' /\ a.markedAt <= marked'[a.markedIn][a.metric]
  <2>1. a \in Opened /\ a.readAt \in Int
    BY <1>4, OpenedTyped DEF AnomalyTypeInv, Incident
  <2> QED
    BY <1>1, <2>1
<1>5. \A a, b \in Opened' : Before(a, b.metric, b.readAt, b.readFrom)'
  BY DEF Before
<1>6. ASSUME NEW c \in Samples, task'[c] = "passed", NEW a \in Opened'
      PROVE  Before(a, MetricOf(c), cooldownRead[c].at, cooldownRead[c].from)'
  <2>1. MetricOf(c)' = MetricOf(c)
    BY <1>6 DEF MetricOf
  <2>2. Before(a, MetricOf(c), cooldownRead[c].at, cooldownRead[c].from)
    BY <1>6
  <2> QED
    BY <2>1, <2>2 DEF Before
<1> QED
  BY <1>2, <1>3, <1>4, <1>5, <1>6

\* A check that passes the test of a cooldown reads a store in which every
\* incident of the metric was marked a cooldown ago.
LEMMA ReadKeepsInv ==
  ASSUME AnomalyTypeInv, CooldownInv, NEW c \in Samples, ReadCooldown(c)
  PROVE  CooldownInv'
<1>1. Opened' = Opened
  BY DEF ReadCooldown, Opened
<1>2. CASE IsInCooldown(StoreOf(c), MetricOf(c))
  <2>1. \A d \in Samples : task'[d] = "passed" => task[d] = "passed" /\ pos'[d] = pos[d]
    BY <1>2 DEF ReadCooldown, AtMetric, AnomalyTypeInv, AnomalyTypeOK
  <2>2. UNCHANGED <<marked, cooldownRead, now>> /\ now \in Int
    BY <1>2 DEF ReadCooldown, AnomalyTypeInv, AnomalyTypeOK
  <2> QED
    BY <1>1, <2>1, <2>2, QuietStep
<1>3. CASE ~IsInCooldown(StoreOf(c), MetricOf(c))
  <2>1. PICK s, m : s = StoreOf(c) /\ m = MetricOf(c)
    OBVIOUS
  <2>2. s \in Stores /\ m \in Metrics
    <3>1. pos[c] \in 1..Len(HotMetricKeys)
      BY MetricsAssumption DEF ReadCooldown, AtMetric, AnomalyTypeInv, AnomalyTypeOK
    <3> QED
      BY <2>1, <3>1, MetricIsHot, StoresFit DEF MetricOf, AnomalyTypeInv
  <2>3. /\ task' = [task EXCEPT ![c] = "passed"]
        /\ cooldownRead' = [cooldownRead EXCEPT ![c] = [at |-> now, from |-> s]]
        /\ UNCHANGED <<now, marked, pos>>
    BY <1>3, <2>1 DEF ReadCooldown
  <2>4. now \in Int /\ marked[s][m] \in Int /\ Cooldown \in Int
    BY <2>2, TimesAssumption DEF AnomalyTypeInv, AnomalyTypeOK, Never
  <2>5. now - marked[s][m] >= Cooldown
    BY <1>3, <2>1, <2>4 DEF IsInCooldown
  <2>6. ASSUME NEW a \in Opened PROVE Before(a, m, now, s)
    <3>1. a.markedAt \in Int /\ a.markedAt <= marked[a.markedIn][a.metric]
      BY OpenedTyped DEF CooldownInv, AnomalyTypeInv, Incident
    <3> QED
      BY <2>4, <2>5, <3>1 DEF Before
  <2>7. /\ cooldownRead'[c].at = now /\ cooldownRead'[c].from = s
        /\ \A d \in Samples \ {c} : cooldownRead'[d] = cooldownRead[d] /\ task'[d] = task[d]
    BY <2>3 DEF AnomalyTypeInv, AnomalyTypeOK
  <2>8. \A d \in Samples : cooldownRead'[d].at <= now'
    BY <2>3, <2>4, <2>7 DEF CooldownInv
  <2>9. ASSUME NEW d \in Samples, task'[d] = "passed", NEW a \in Opened
        PROVE  Before(a, MetricOf(d), cooldownRead[d].at, cooldownRead[d].from)'
    <3>1. MetricOf(d)' = MetricOf(d)
      BY <2>3 DEF MetricOf
    <3>2. CASE d = c
      BY <2>1, <2>6, <2>7, <3>1, <3>2 DEF Before
    <3>3. CASE d # c
      BY <2>7, <2>9, <3>1, <3>3 DEF CooldownInv, Before
    <3> QED
      BY <3>2, <3>3
  <2>10. \A a, b \in Opened' : Before(a, b.metric, b.readAt, b.readFrom)'
    BY <1>1 DEF CooldownInv, Before
  <2> QED
    BY <1>1, <2>3, <2>8, <2>9, <2>10 DEF CooldownInv
<1> QED
  BY <1>2, <1>3

\* The incident a check opens is one its own test has let through, and it
\* marks the cooldown no earlier than any other was read.
LEMMA OpenKeepsInv ==
  ASSUME AnomalyTypeInv, CooldownInv, NEW c \in Samples, OpenIncident(c)
  PROVE  CooldownInv'
<1>1. PICK s, m : s = StoreOf(c) /\ m = MetricOf(c)
  OBVIOUS
<1>2. task[c] = "passed" /\ s \in Stores /\ m \in Metrics
  <2>1. task[c] = "passed" /\ pos[c] \in 1..Len(HotMetricKeys)
    BY MetricsAssumption DEF OpenIncident, AnomalyTypeInv, AnomalyTypeOK, PlacesFit
  <2> QED
    BY <1>1, <2>1, MetricIsHot, StoresFit DEF MetricOf, AnomalyTypeInv
<1>3. PICK n : n = [sample |-> c, metric |-> m, by |-> Process(c),
                    readAt |-> cooldownRead[c].at, readFrom |-> cooldownRead[c].from,
                    markedAt |-> now, markedIn |-> s]
  OBVIOUS
<1>4. /\ pending' = [pending EXCEPT ![c] = @ \cup {n}]
      /\ marked' = [marked EXCEPT ![s][m] = now]
      /\ task' = [task EXCEPT ![c] = "checking"]
      /\ pos' = [pos EXCEPT ![c] = @ + 1]
      /\ UNCHANGED <<now, cooldownRead, incidents>>
  BY <1>1, <1>3 DEF OpenIncident, SetCooldown
<1>5. Opened' \subseteq Opened \cup {n}
  BY <1>4 DEF Opened, AnomalyTypeInv, AnomalyTypeOK
<1>6. now \in Int /\ Opened \subseteq Incident
  BY OpenedTyped DEF AnomalyTypeInv, AnomalyTypeOK
<1>7. /\ n.metric = m /\ n.markedIn = s /\ n.markedAt = now
      /\ n.readAt = cooldownRead[c].at /\ n.readFrom = cooldownRead[c].from
  BY <1>3
<1>8. ASSUME NEW r \in Stores, NEW k \in Metrics
      PROVE  marked'[r][k] <= now /\ marked[r][k] <= marked'[r][k] /\ marked'[s][m] = now
  <2>1. marked[r][k] \in Int /\ marked[r][k] <= now
    BY TimesAssumption DEF CooldownInv, AnomalyTypeInv, AnomalyTypeOK, Never
  <2>2. marked'[s][m] = now
    BY <1>2, <1>4 DEF AnomalyTypeInv, AnomalyTypeOK
  <2>3. CASE r = s /\ k = m
    BY <1>6, <2>1, <2>2, <2>3
  <2>4. CASE r # s \/ k # m
    BY <1>2, <1>4, <1>6, <2>1, <2>2, <2>4 DEF AnomalyTypeInv, AnomalyTypeOK
  <2> QED
    BY <2>3, <2>4
<1>9. ASSUME NEW a \in Opened'
      PROVE  a.readAt <= now /\ a.markedAt <= marked'[a.markedIn][a.metric]
  <2>1. CASE a = n
    BY <1>2, <1>6, <1>7, <1>8, <2>1 DEF CooldownInv
  <2>2. CASE a \in Opened
    <3>1. /\ a.markedIn \in Stores /\ a.metric \in Metrics /\ a.markedAt \in Int
          /\ a.markedAt <= marked[a.markedIn][a.metric]
      BY <1>6, <2>2 DEF CooldownInv, Incident
    <3>2. marked[a.markedIn][a.metric] <= marked'[a.markedIn][a.metric]
      BY <1>8, <3>1
    <3>3. marked[a.markedIn][a.metric] \in Int /\ marked'[a.markedIn][a.metric] \in Int
      <4>1. marked' \in [Stores -> [Metrics -> {Never} \cup 0..Horizon]]
        BY <1>2, <1>4 DEF AnomalyTypeInv, AnomalyTypeOK
      <4> QED
        BY <3>1, <4>1, TimesAssumption DEF AnomalyTypeInv, AnomalyTypeOK, Never
    <3> QED
      BY <2>2, <3>1, <3>2, <3>3 DEF CooldownInv
  <2> QED
    BY <1>5, <1>9, <2>1, <2>2
<1>10. ASSUME NEW b, b.readAt <= now, b.readAt \in Int
       PROVE  Before(n, b.metric, b.readAt, b.readFrom)
  BY <1>6, <1>7, <1>10 DEF Before
<1>11. ASSUME NEW a \in Opened', NEW b \in Opened'
       PROVE  Before(a, b.metric, b.readAt, b.readFrom)
  <2>1. b.readAt \in Int
    BY <1>5, <1>6, <1>7, <1>11 DEF AnomalyTypeInv, AnomalyTypeOK, Incident
  <2>2. CASE a = n
    BY <1>9, <1>10, <1>11, <2>1, <2>2
  <2>3. CASE a \in Opened /\ b = n
    BY <1>1, <1>2, <1>7, <2>3 DEF CooldownInv
  <2>4. CASE a \in Opened /\ b \in Opened
    BY <2>4 DEF CooldownInv
  <2> QED
    BY <1>5, <1>11, <2>2, <2>3, <2>4
<1>12. ASSUME NEW d \in Samples, task'[d] = "passed", NEW a \in Opened'
       PROVE  Before(a, MetricOf(d), cooldownRead[d].at, cooldownRead[d].from)'
  <2>1. d # c /\ task[d] = "passed" /\ MetricOf(d)' = MetricOf(d)
    BY <1>4, <1>12 DEF MetricOf, AnomalyTypeInv, AnomalyTypeOK
  <2>2. Before(a, MetricOf(d), cooldownRead[d].at, cooldownRead[d].from)
    <3>1. CASE a = n
      BY <1>6, <1>7, <3>1 DEF Before, CooldownInv, AnomalyTypeInv, AnomalyTypeOK
    <3>2. CASE a \in Opened
      BY <2>1, <3>2 DEF CooldownInv
    <3> QED
      BY <1>5, <1>12, <3>1, <3>2
  <2> QED
    BY <1>4, <2>1, <2>2 DEF Before
<1>13. \A a, b \in Opened' : Before(a, b.metric, b.readAt, b.readFrom)'
  BY <1>11 DEF Before
<1> QED
  BY <1>4, <1>8, <1>9, <1>12, <1>13 DEF CooldownInv

LEMMA CooldownStep ==
  AnomalyTypeInv /\ CooldownInv /\ [AnomalyNext]_anomalyVars => CooldownInv'
<1> SUFFICES ASSUME AnomalyTypeInv, CooldownInv, [AnomalyNext]_anomalyVars PROVE CooldownInv'
  OBVIOUS
<1> USE DEF AnomalyTypeInv, AnomalyTypeOK, checkVars
<1>1. CASE Tick
  <2>1. now' \in Int /\ now <= now' /\ UNCHANGED <<marked, cooldownRead, task, pos, incidents, pending>>
    BY <1>1 DEF Tick
  <2> QED
    BY <2>1, QuietStep DEF Opened
<1>2. CASE ValkeyDown \/ ValkeyBack \/ UNCHANGED anomalyVars
  <2>1. now' \in Int /\ now <= now' /\ UNCHANGED <<marked, cooldownRead, task, pos, incidents, pending>>
    BY <1>2 DEF ValkeyDown, ValkeyBack, anomalyVars
  <2> QED
    BY <2>1, QuietStep DEF Opened
<1>3. ASSUME NEW w \in Workers, Crash(w) PROVE CooldownInv'
  <2>1. /\ now' \in Int /\ now <= now' /\ UNCHANGED <<marked, cooldownRead, pos>>
        /\ \A c \in Samples : task'[c] = "passed" => task[c] = "passed"
    BY <1>3 DEF Crash
  <2>2. incidents' = incidents /\ \A c \in Samples : pending'[c] \subseteq pending[c]
    BY <1>3 DEF Crash
  <2>3. Opened' \subseteq Opened
    BY <2>2 DEF Opened
  <2> QED
    BY <2>1, <2>3, QuietStep
<1>4. ASSUME NEW c \in Samples,
             \/ Collect(c) \/ (\E w \in Workers : Deliver(c, w))
             \/ SkipMetric(c) \/ DropMetric(c) \/ Ack(c)
      PROVE  CooldownInv'
  <2>1. /\ now' \in Int /\ now <= now' /\ UNCHANGED <<marked, cooldownRead, incidents, pending>>
        /\ \A d \in Samples : task'[d] = "passed" => task[d] = "passed" /\ pos'[d] = pos[d]
    BY <1>4 DEF Collect, Deliver, SkipMetric, AtMetric, DropMetric, Ack
  <2> QED
    BY <2>1, QuietStep DEF Opened
<1>5. ASSUME NEW c \in Samples, Commit(c) \/ FailCheck(c) PROVE CooldownInv'
  <2>1. /\ now' \in Int /\ now <= now' /\ UNCHANGED <<marked, cooldownRead, pos>>
        /\ \A d \in Samples : task'[d] = "passed" => task[d] = "passed"
    BY <1>5 DEF Commit, FailCheck
  <2>2. incidents' \subseteq incidents \cup pending[c] /\ \A d \in Samples : pending'[d] \subseteq pending[d]
    BY <1>5 DEF Commit, FailCheck
  <2>3. Opened' \subseteq Opened
    BY <2>2 DEF Opened
  <2> QED
    BY <2>1, <2>3, QuietStep
<1> QED
  BY <1>1, <1>2, <1>3, <1>4, <1>5, ReadKeepsInv, OpenKeepsInv DEF AnomalyNext, CheckStep

LEMMA CooldownInvHolds == AnomalySpec => []CooldownInv
<1>1. AnomalyInit => CooldownInv
  BY TimesAssumption DEF AnomalyInit, CooldownInv, Opened, Never, Stores
<1> QED
  BY <1>1, CooldownStep, AnomalyTypesHold, PTL DEF AnomalySpec

\* Two incidents of a metric are a cooldown apart whenever the check that
\* opened the second read the store the first had already marked: across
\* workers, redeliveries of a task and outages of Valkey (_is_in_cooldown).
THEOREM SecondIncidentWaits == AnomalySpec => []IncidentsSpaced
<1>1. CooldownInv => IncidentsSpaced
  BY DEF CooldownInv, IncidentsSpaced, Opened, Before
<1> QED
  BY <1>1, CooldownInvHolds, PTL

\* A stored incident has started its cooldown (_set_cooldown comes before the
\* commit, in every store, whatever dies in between).
THEOREM StoredIncidentIsMarked == AnomalySpec => []IncidentStartsCooldown
<1>1. AnomalyTypeInv /\ CooldownInv => IncidentStartsCooldown
  <2> SUFFICES ASSUME AnomalyTypeInv, CooldownInv, NEW a \in incidents
               PROVE  marked[a.markedIn][a.metric] >= a.markedAt
    BY DEF IncidentStartsCooldown
  <2>1. a \in Opened /\ a \in Incident
    BY OpenedTyped DEF Opened, AnomalyTypeInv
  <2>2. a.markedAt \in Int /\ marked[a.markedIn][a.metric] \in Int
    BY <2>1, TimesAssumption DEF AnomalyTypeInv, AnomalyTypeOK, Incident, Never
  <2> QED
    BY <2>1, <2>2 DEF CooldownInv
<1> QED
  BY <1>1, CooldownInvHolds, AnomalyTypesHold, PTL
=============================================================================
