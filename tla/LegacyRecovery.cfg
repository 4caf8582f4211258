SPECIFICATION RecoveryFairSpec
CONSTANTS
  Projects = {1, 2}
  Legacies <- MCLegacies
  Stores <- MCStores
  Locals = {"l"}
  Hashes = {"g"}
  MaxEdits = 1
  MaxFaults = 1
PROPERTIES
  OnlyApprovedRowsArrive
  RetrySparesEdits
  RecoveredIsSafe
  
  
