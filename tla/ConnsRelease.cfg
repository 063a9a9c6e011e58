SPECIFICATION Spec
CONSTANTS
  a1 = a1  a2 = a2  b1 = b1  u1 = u1  x1 = x1
  alice = alice  bob = bob  carol = carol  ip1 = ip1  ip2 = ip2
  NoCN = NoCN
  Conns = {a1, x1}
  CNs = {alice, bob, carol}
  IPs = {ip1, ip2}
  CnOf <- MCCnOf
  IpOf <- MCIpOf
  Known = {alice, bob}
  max_connections_per_cn = 1
  max_connections_per_ip = 1
  Width = 3
  Stale = FALSE
  Signals = FALSE
CHECK_DEADLOCK FALSE
INVARIANT ReleasedOnClose
