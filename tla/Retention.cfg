SPECIFICATION Spec
CONSTANTS
  Projects = {"p", "q"}
  Pruners = {"p"}
  Notes <- MCNotes
  Policies <- MCPolicies
  MaxSnaps = 2
  MaxRuns = 1
PROPERTIES
  LiveNotesStay
  NothingUnprotectedMidRun
  AuditIsTrue
