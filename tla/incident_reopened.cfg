SPECIFICATION IncidentSpec
CONSTANTS
  Incidents = {n1}
  Requests = {r1, r2}
PROPERTY LifecycleForward
CHECK_DEADLOCK FALSE
