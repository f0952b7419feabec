\* Two services; two rules and two evaluations at a time; one channel of each sort.
CONSTANTS
  t1 = t1
  t2 = t2
  s1 = s1
  s2 = s2
  Templates = {t1, t2}
  Services = {s1, s2}
  ServiceOf <- Service
  Hours = {0, 1}
  HourOf <- Hour
  Baselines <- BaselineSet
  Watched = {t1}
  ColdStart = 1
  Warmup = 2
  Forgotten = 2
  WarmupThreshold = 2
  SteadyThreshold = 1
  NewTemplateThreshold = 1
  DropThreshold = 2
  MinExpectedForSilence = 2
  Cooldown = 2
  MaxTime = 5
  MaxCount = 2
  MaxRestarts = 1
  Rules = {r1, r2}
  GroupOf <- OwnGroup
  Cooldowns = {0, 4}
  Default = 1
  Evaluations = {e1, e2}
  MaxMinutes = 4
  MaxChanges = 1
  Slack = {slack}
  Pager = {pager}
  Generic = {web}
  AlertKinds = {"breach", "resolved", "silent", "recovered"}
  MaxRetries = 1
  MaxAlerts = 2
  MaxExits = 1
  RuleChannels = {{slack, pager, web}, {pager, web}, {}}
SPECIFICATION AlertingSpec
SYMMETRY AlertingSymmetry
CHECK_DEADLOCK FALSE
INVARIANT EventsSound
PROPERTY ToldWithReason
PROPERTY BreachesSound
PROPERTY DeliverySound
