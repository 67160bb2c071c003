CONSTANTS
  Tags <- MCTags
  Proto <- MCProto
  Unknown = "unknown"
  Target = "target"
  NoAddr = "none"
  MaxChain = 4
SPECIFICATION Spec
INVARIANTS
  TcpRoute
  UdpRouteOneHop
  StreamsNest
CHECK_DEADLOCK FALSE
