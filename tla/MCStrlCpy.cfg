\* Sources shorter than, as long as and longer than the destination.
CONSTANTS
  Char = {"a", "b"}
  NUL = "NUL"
  Junk = "Junk"
  Source <- AllSource
  Size = {0, 1, 2, 3, 4, 5, 6}
SPECIFICATION Spec
INVARIANTS
  TypeOK
  InBounds
  CopiesWhatFits
PROPERTIES
  Terminates
