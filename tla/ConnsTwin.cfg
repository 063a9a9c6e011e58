SPECIFICATION Spec
CONSTANTS
  a1 = a1  a2 = a2  b1 = b1  u1 = u1  x1 = x1
  alice = alice  bob = bob  carol = carol  ip1 = ip1  ip2 = ip2
  NoCN = NoCN
  Conns = {a1, a2}
  CNs = {alice, bob, carol}
  IPs = {ip1, ip2}
  CnOf <- MCCnOf
  IpOf <- MCIpOf
  Known = {alice, bob}
  max_connections_per_cn = 0
  max_connections_per_ip = 0
  Width = 3
  Stale = FALSE
  Signals = FALSE
CHECK_DEADLOCK FALSE
INVARIANT LiveIsTracked
