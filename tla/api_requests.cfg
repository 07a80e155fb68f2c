SPECIFICATION ApiSpec
CONSTANTS
  Incidents = {n1, n2}
  Requests = {r1, r2, r3}
  Asks = {a1, a2, a3}
  Shapes <- MCShapes
  ForwardsSession = TRUE
  MaxTurns = 2
  Builtin = {"vacuum-maintenance"}
  CustomNames = {"nightly"}
  Uploads <- MCUploads
  BuiltinDocument <- MCBuiltin
  Executions = {x1}
  Confidences = {0, 1}
  MaxUploads = 2
  SettingKeys <- TwoKeys
  SettingValues = {"a", "b"}
  Updates = {u1, u2}
  MaxRestarts = 1
  Questions = {q1}
  Providers = {"anthropic", "ollama"}
  MaxIterations = 2
  RcaAttempts = 2
  MaxRetries = 3
  BranchAnswers <- MCAnswers
  AutonomyLevels = {0, 2, 3}
  PoolRequests = {p1, p2, p3}
  MaxRotations = 2
  Runners = {c1, c2}
  Targets = {0, 1, 3, 6}
  MaxMigrations = 4
SYMMETRY Symmetry
INVARIANTS
  TypeOK
  CriticalNeedsHuman
  TimesFitStatus
  BuiltinsNotShadowed
  RunsNeedTheirLevel
  SettingsSurviveRestart
  CallsBounded
  DiagnosisEarnsStatus
  PoolFitsRequest
  LeaksNeedOverlap
  AloneNeverRefused
PROPERTIES
  DecisionMonotone
  UpdatesKeepHistory
  SavesLoseOnlyRaces
  MigrationsAreAtomic
CHECK_DEADLOCK FALSE
