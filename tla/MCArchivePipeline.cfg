\* Two objects of one hour, a queue of one, a failed call and a restart.
CONSTANTS
  NumKeys = 2
  Events = {1, 2}
  Content <- Distinct
  Partition <- OneHour
  MaxQueue = 1
  BatchSize = 1
  MaxAttempts = 2
  MaxKeys = 2
  Quarantine = 2
  InOrder = TRUE
  Compacting = TRUE
  OtherCallers = TRUE
  Paced = FALSE
  Settled = TRUE
  MaxNotifies = 1
  MaxFaults = 1
  MaxCrashes = 1
SPECIFICATION FairSpec
CHECK_DEADLOCK FALSE
 
INVARIANT QueuesSound
 
