SPECIFICATION SkillFairSpec
CONSTANTS
  Sources = {"f", "g"}
  Bodies = {1, 2}
  MaxTime = 2
  MaxAppends = 2
  MaxHarms = 2
INVARIANTS
  ConvergesOnCanonical
PROPERTIES
  EventuallyCanonical
