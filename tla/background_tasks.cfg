SPECIFICATION TasksSpec
CONSTANTS
  HotMetricKeys <- TwoMetrics
  SampleKeys = {"cpu_usage"}
  Samples = {s1, s2}
  Workers = {w1, w2}
  Cooldown = 2
  Horizon = 3
  Faults = 2
  Detectors = {d1, d2}
  a1 = a1
  b1 = b1
  x1 = x1
  NoSnapshot = NoSnapshot
  Snapshots <- MCSnapshots
  TableOf <- MCTableOf
  Trainings = {t1, t2, t3}
  Instances = {i1}
  Runs = {k1, k2}
  LastTick = 1
  MaxWork = 2
  MaxResets = 1
  MaxSamples = 2
  SlowTargets = {i1}
  Monitored = {m1, m2}
  ReportRequests = {q1}
  MaxBatches = 1
SYMMETRY Symmetry
INVARIANTS
  TypeOK
  IncidentsSpaced
  IncidentStartsCooldown
  LogExplainsCaches
  TrainingsNeverDeadlock
  LastTrainingWhole
  KpisAreMeasured
  
CHECK_DEADLOCK FALSE
