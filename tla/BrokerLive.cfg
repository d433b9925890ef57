SPECIFICATION FairSpec
CONSTANTS
  a = a
  k1 = k1
  k2 = k2
  s1 = s1
  Clients = {a}
  Conns = {k1, k2}
  Shards = {s1}
  ClientOf <- OneClient
  ShardOf <- OneShard
  MaxSend = 1
  Sends = {"bad"}
  Endings = {"fin"}
  NoConn = NoConn
  NoClient = NoClient
PROPERTIES HandOverEnds ClosedIsReleased CloseReturns
