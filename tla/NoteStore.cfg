SPECIFICATION HSpec
CONSTANTS
  MaxWrites = 3
  MaxOps = 2
  Near <- MCNear
INVARIANTS
  StatusAgrees
  SupersessionForward
  NoDanglingSupersession
  QuietOperationIsExact
  MergedStaysRetired
  VectorMatchesText
