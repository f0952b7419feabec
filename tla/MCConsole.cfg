SPECIFICATION ConsoleSpec
CONSTANTS
  t1 = t1
  t2 = t2
  Tenants = {t1, t2}
  Pollers = {p1}
  Streams = {s1, s2}
  Home <- FirstTenant
  BufferSize = 2
  MaxEvents = 3
  Limit = 1
  MaxPending = 2
  Idles = TRUE
  Expires = TRUE
  MaxPushes = 4
  MaxConnects = 2
  Visits = {v1, v2}
  Sources = {x1, x2, x3}
  Filters = {f1, f2}
  f1 = f1
  Ids = {i1, i2}
CHECK_DEADLOCK FALSE
INVARIANT TailSound
INVARIANT PollSkipsNothing
INVARIANT ConsoleSound
INVARIANT SimulatorSound
