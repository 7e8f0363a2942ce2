CONSTANTS
  Drives <- MCDrives
  Kind <- MCKind
  Geometry <- MCGeometry
  Padding <- MCPadding
  ReadOnly <- MCReadOnly
  Segment = 6
  Offsets <- MCOffsets
  Counts <- MCCounts
  MaxCalls = 2

SPECIFICATION Spec
INVARIANT WorkSaved
PROPERTY TransfersExact
