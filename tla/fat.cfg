SPECIFICATION Spec
CONSTANTS
  Size = 3
  Media = 3
  NameCount = 4
  MaxLen = 3
  Slots = 2
  PerSector = 2
INVARIANTS SingleOwner NamesUnique TableHolds
PROPERTIES ClustersKept ImplementsFileMap
CHECK_DEADLOCK FALSE
