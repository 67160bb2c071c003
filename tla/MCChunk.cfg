CONSTANTS
  PreLen = 3
  MaxPacket = 2
  NonceSpace = 2
  MaxOffer = 3
  MaxRoom = 2
  MaxBytes = 4
SPECIFICATION FairSpec
INVARIANTS
  DeliveredIsPrefix
  NoFalseAlarm
  EofMeansAccepted
PROPERTIES
  CallReturns
  AcceptedIsDelivered
CHECK_DEADLOCK FALSE
