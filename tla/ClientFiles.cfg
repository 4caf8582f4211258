SPECIFICATION FairSpec
CONSTANTS
  Edits = {e1}
  MaxCommands = 2
  MaxFaults = 1
INVARIANTS
  UsersWorkStays
  SkillIsWhole
  HookNeedsConsent
PROPERTIES
  EventuallySetUp
