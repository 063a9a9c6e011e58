SPECIFICATION Spec
CONSTANTS
  n1 = n1  n2 = n2
  CNs = {n1, n2}
  global_burst = 2
  global_rps = 2
  publish_burst = 1
  publish_rps = 1
  MaxTime = 3
INVARIANT TypeOK
INVARIANT RateBound
