SPECIFICATION Spec
CONSTANTS
  Procs = {s, t}
  Paths = {a, b}
  Ids = {i, j}
  Names = {n}
  Harms = {"death", "outage", "damage"}
  MaxWrites = 3
  MaxHarm = 1
SYMMETRY MCSymmetry
CHECK_DEADLOCK FALSE
INVARIANTS
  ReturnedIsDurable
PROPERTIES
  NothingIsLost
  RegistryIsAtomic
