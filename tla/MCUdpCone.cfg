CONSTANTS
  Targets = {"t1", "t2", "t3"}
  Outbounds = {"direct", "trojan"}
  Route <- MCRoute
  Fixed = {"direct"}
  Pends = {"trojan"}
  MaxSent = 2
  MaxReplies <- MCReplies
  Capacity = 1
SPECIFICATION Spec
INVARIANTS
  FullCone
CHECK_DEADLOCK FALSE
