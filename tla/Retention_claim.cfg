SPECIFICATION Spec
CONSTANTS
  Projects = {"p", "q"}
  Pruners = {"p"}
  Notes <- MCBoth
  Policies <- MCPolicies
  MaxSnaps = 2
  MaxRuns = 1
INVARIANTS
  ReferencedSnapshotsStay
