CONSTANTS
  Kinds = {"h2", "grpc", "ws", "ws0", "obfs"}
  Window = 4
  MaxFrame = 3
  MaxOffer = 2
  MaxRoom = 2
  MaxEarly = 1
  MaxOut = 3
  MaxIn = 3
SPECIFICATION FairSpec
INVARIANTS
  WriteFaithful
  ReadFaithful
  WindowReturned
  EofIsComplete
PROPERTIES
  SentIsRead
  EndIsSeen
CHECK_DEADLOCK FALSE
