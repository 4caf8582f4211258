SPECIFICATION FairSpec
CONSTANTS
  Procs = {"p", "q"}
  Spaces = {"e", "f"}
  Releases = {0, 3, 5, 6, 7}
  Resets = TRUE
  MaxNotes = 2
  MaxUid = 2
  MaxCrash = 1
CHECK_DEADLOCK FALSE
INVARIANTS
  OpenMeansWhole
PROPERTIES
  WholeStaysWhole
  EventuallyOpens
