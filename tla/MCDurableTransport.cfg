\* Safety: four calls, a spool of three rows, batches of two.
CONSTANTS
  Events = {e1, e2, e3, e4}
  Cap = 3
  BatchSize = 2
  BlockPolls = 2
  MaxCrashes = 2
  MaxFaults = 1
SYMMETRY Symmetry
SPECIFICATION Spec
INVARIANT NoSilentLoss
INVARIANT SpoolWithinCap
INVARIANT DeliveredInOrder
PROPERTY ImplementsOutbox
CHECK_DEADLOCK FALSE
