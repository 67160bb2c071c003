CONSTANTS
  Width <- MCWidth
  Tags = {a, b}
  Default = default
  MaxNodes = 6
  MaxRules <- MCRules6
SPECIFICATION TrieSpec
INVARIANTS
  LongestPrefix6
