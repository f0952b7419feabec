\* Two events of two templates, one request by the hour.
CONSTANTS
  e1 = e1
  e2 = e2
  t1 = t1
  t2 = t2
  Events = {e1, e2}
  TemplateOf <- Template
  ServiceOf <- Service
  LevelOf <- Level
  TraceOf <- Trace
  Five = 2
  Hour = 4
  Day = 8
  Ttl = 16
  FiveTtl = 16
  Retentions = {16}
  MaxRetention = 16
  MinResolved = 1
  Sparse = 2
  Threshold = 1
  MinBaseline = 0
  NoisePct = 5
  ReviewPct = 10
  Nulls = {FALSE}
  Start = 5
  MaxTime = 8
  MaxRepeats = 0
  MaxAsks = 1
  MaxDeploys = 0
  Lateness = {0}
  DeployTimes = {}
  Asks <- ByHours
SPECIFICATION Spec
CHECK_DEADLOCK FALSE
INVARIANT NewIsReported
