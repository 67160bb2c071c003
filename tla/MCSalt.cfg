CONSTANTS
  Streams = {s1, s2, s3}
  Salts = {a, b, c, d, e}
  ItemCount = 2
  Unlocked = Unlocked
SPECIFICATION Spec
SYMMETRY Symmetry
INVARIANTS
  TypeOK
  NoReuse
  WindowRemembered
  CheckedIsFresh
  FiltersHold
CHECK_DEADLOCK FALSE
