SPECIFICATION FairSpec
CONSTANTS
  Projects = {"p", "q"}
  Files = {"f"}
  Home <- MCHome
  Kin <- MCKin
  Pages <- MCPages
  Models = {"m1", "m2", "m3"}
  Dim <- MCDim
  MaxFaults = 2
INVARIANTS
  OwnLedgerIsTrue
  FamilyVectorsFit
PROPERTIES
  OnlyWipesLose
  EventuallySearchable
