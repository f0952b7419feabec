\* Two entries and a limit of one, three requests at a time; two processes
\* that start three times in all; two calls open while one shuts down.
CONSTANTS
  Entries = {a, b}
  Values = {v, w}
  None = None
  Requests = {r1, r2, r3}
  MaxPerTenant = 1
  MaxOps = 3
  MaxFaults = 1
  MaxRestarts = 1
  Calls = {c1, c2}
  MaxSweeps = 3
  Boots = {b1, b2}
  MaxAttempts = 2
  MaxStarts = 3
  MaxFailedCalls = 1
SPECIFICATION ProcessSpec
SYMMETRY ProcessSymmetry
CHECK_DEADLOCK FALSE
INVARIANT LimitsSound
INVARIANT FailureContained
INVARIANT SchemaSound
INVARIANT LifecycleSound
