\* Two concurrent requests for a batch with event ids, one without and one of which
\* nothing is left; two faults (the clusterer goes down, an INSERT or a DELETE fails)
\* and a process exit.
SPECIFICATION FairSpec
CONSTANTS
  Batches = {b1, b2, d}
  Stable = {b1}
  Dropped = {d}
  Requests = {r1, r2}
  CircuitThreshold = 2
  ProbeInterval = 2
  PageSize = 1
  SweepMaxRows = 2
  DeleteThreshold = 2
  MaxSends = 2
  MaxFaults = 2
  MaxCrashes = 1
CHECK_DEADLOCK FALSE
 
 
PROPERTY UnclusteredIsRecovered
