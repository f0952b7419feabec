CONSTANTS
  Events = {e1, e2, e3, e4}
  BufferSize = 2
  MaxRetained = 3
  MaxRetries = 1
  Calls = {c1, c2}
SPECIFICATION TransportsSpec
CHECK_DEADLOCK FALSE
INVARIANT MemorySound
 
PROPERTY Settles
PROPERTY DurableServes
