CONSTANTS
  Kinds = {"trojan", "ss"}
  Addrs = {"ip", "name"}
  AddrType <- MCAddrType
  Sizes = {0, 1, 2}
  Room = 2
  MaxPackets = 2
  MaxGot = 3
SPECIFICATION FairSpec
INVARIANTS
  DatagramsAreWhole
  PacketsInOrder
PROPERTIES
  PacketArrives
CHECK_DEADLOCK FALSE
