SPECIFICATION Spec
CONSTANTS
  r1 = r1  r2 = r2  k1 = k1  k2 = k2  k3 = k3
  Receivers = {r1, r2}
  Keys = {k1, k2, k3}
  NoKey = NoKey
  max_retries = 2
  Faults = {"reply"}
  MaxFaults = 1
  MaxRuns = 2
SYMMETRY Symmetry
INVARIANT AddressesAll
