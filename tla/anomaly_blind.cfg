SPECIFICATION FairAnomalySpec
CONSTANTS
  HotMetricKeys <- TwoMetrics
  SampleKeys = {"numbackends", "xact_commit"}
  Samples = {s1, s2}
  Workers = {w1}
  Cooldown = 2
  Horizon = 2
  Faults = 0
PROPERTY AnomalyIsDetected
CHECK_DEADLOCK FALSE
