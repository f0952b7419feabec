\* Two tenants where one is admitted, three changes each, so that one falls into
\* a save, and one each of reset, kill, shutdown and refused save.
CONSTANTS
  Tenants = {t1, t2}
  MaxTenants = 1
  None = None
  MaxChanges = 3
  MaxResets = 1
  MaxCrashes = 1
  MaxStops = 1
  MaxFaults = 1
SPECIFICATION FairSpec
CHECK_DEADLOCK FALSE
INVARIANT CleanSound
 
PROPERTY LearntIsSaved
