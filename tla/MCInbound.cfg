SPECIFICATION FairSpec
CONSTANTS
  Covers <- MCCovers
  Regexes <- MCRegexes
  BadRegex <- MCBadRegex
  IpVal <- MCIpVal
  Width = 2
  Cases <- MCCases
INVARIANTS
  RoutedByRules
  NothingLost
  MethodWasOffered
PROPERTIES
  ServiceEnds
  ClientIsServed
CHECK_DEADLOCK FALSE
