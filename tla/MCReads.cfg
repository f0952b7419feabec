\* One request to each of four connectors; two events of one template.
CONSTANTS
  a1 = a1
  a2 = a2
  k1 = k1
  k2 = k2
  k3 = k3
  s3 = s3
  fs = fs
  es = es
  loki = loki
  e1 = e1
  e2 = e2
  t1 = t1
  t2 = t2
SPECIFICATION ReadsSpec
CHECK_DEADLOCK FALSE
INVARIANT DrillDownSound
 
INVARIANT InsightsSound
