CONSTANTS
  Width <- MCWidth
  Tags = {a, b}
  Default = default
  MaxNodes = 6
  MaxRules <- MCRules
SPECIFICATION TrieSpec
SYMMETRY Symmetry
INVARIANTS
  TrieIsTree
  LongestPrefix4
