SPECIFICATION Spec
CONSTANTS
  Profiles <- MCTtlProfiles
  Ports = {1001}
  Servers <- MCServers
  Resolver = r
  Conns <- MCOneConn
  Ttls = {54, 61}
  Packets <- MCTtlPackets
  Interval = 2
  s1 = s1
  s2 = s2
  r = r
INVARIANT FakesExpire
CHECK_DEADLOCK FALSE
