SPECIFICATION FairSpec
CONSTANTS
  h1 = h1
  h2 = h2
  h3 = h3
  a1 = a1
  a2 = a2
  Handlers = {h1, h2, h3}
  Addrs = {a1, a2}
  Nobody = Nobody
  NoConn = NoConn
  MaxGen = 2
INVARIANTS ChannelsOpen WorkersMatch NoConnectionLeak CallsLeaderLookedUp ClosesAlone
PROPERTY ShutdownCompletes
CHECK_DEADLOCK FALSE
