SPECIFICATION Spec
CONSTANTS
  k1 = k1
  k2 = k2
  a = a
  b = b
  Keys = {k1, k2}
  Texts = {a, b}
  Versions <- MCVersions
  Near <- MCNear
  Matching <- MCMatching
  Verbatim <- MCVerbatim
  K = 2
  MaxWrites = 5
INVARIANTS
  IndexIsContent
  ReadersSeeWholes
