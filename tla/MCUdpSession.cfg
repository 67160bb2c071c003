CONSTANTS
  Targets = {"t1", "t2", "t3"}
  Outbounds = {"direct", "trojan"}
  Route <- MCRoute
  Fixed = {"direct"}
  Pends = {"trojan"}
  MaxSent = 2
  MaxReplies <- MCReplies
  Capacity = 1
SPECIFICATION FairSpec
INVARIANTS
  RouteRespected
  RepliesInOrder
PROPERTIES
  DatagramIsSentUnlessBlocked
  SessionEnds
CHECK_DEADLOCK FALSE
