SPECIFICATION FairSpec
CONSTANTS
  Profiles <- MCProfiles
  Ports = {1001}
  Servers <- MCServers
  Resolver = r
  Conns <- MCConns
  Ttls = {54, 61}
  Packets <- MCPackets
  Interval = 2
  s1 = s1
  s2 = s2
  r = r
 
INVARIANT OldRecordsGone
INVARIANT StreamPreserved
INVARIANT DivertedAreServed
 
PROPERTY OwnDistance
PROPERTY PortRecovers
CHECK_DEADLOCK FALSE
