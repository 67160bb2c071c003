CONSTANTS
  c1 = c1
  c2 = c2
  Conns <- MCConns
  InTag <- MCInTag
  OutTag <- MCOutTag
  Counted <- MCConns
  Queried <- MCQueried
  Buffering <- MCBuffering
  Capacity = 2
  MaxBytes <- MCMaxBytes
SPECIFICATION FairSpec
INVARIANTS
  TypeOK
  ByteFidelity
  CleanEndComplete
  StatsConserved
PROPERTIES
  ImplementsPipe
  ReadIsDelivered
  EofEndsRelay
CHECK_DEADLOCK FALSE
