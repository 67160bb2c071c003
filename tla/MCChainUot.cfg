CONSTANTS
  Tags <- MCTags
  Proto <- MCProto
  Unknown = "unknown"
  Target = "target"
  NoAddr = "none"
  MaxChain = 3
SPECIFICATION Spec
INVARIANTS
  UotHasStream
CHECK_DEADLOCK FALSE
