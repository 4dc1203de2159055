SPECIFICATION Spec
CONSTANTS
  c1 = c1
  c2 = c2
  Conns = {c1, c2}
  NoConn = NoConn
  Protocols = {"tcp", "rpc", "grpc", "http", "websocket", "tcp_client", "rpc_client", "grpc_client", "http_client", "websocket_client"}
  Sizes = {0, 2, 3}
  HeaderBytes = 2
  Wrap = 8
  MaxLength = 2
  LongSize = 2
  Capacity = 1
  Rate = 1
  MaxFrames <- MCFrames
  MaxTicks = 1
  MaxDisorder = 2
INVARIANTS TypeOK MessagesDelivered RateHeld
CHECK_DEADLOCK FALSE
