SPECIFICATION FairSpec
CONSTANTS
  c1 = c1
  c2 = c2
  Conns = {c1, c2}
  NoConn = NoConn
  Fds = {1, 2}
  NoFd = NoFd
  Ips = {1, 2}
  max_conn_per_ip = 1
  OrderIds = {1, 2, 3}
  NoOrder = NoOrder
  Scripts <- MCScripts
  Addresses <- MCAddresses
  MaxTicks = 2
INVARIANTS TypeOK RightPeer MarketDataInOrder RegistryCovers OrdersKept
PROPERTY NobodyWaitsForever
CHECK_DEADLOCK FALSE
