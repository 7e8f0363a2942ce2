SPECIFICATION Spec
CONSTANTS
  ShiftCodes = {"shift"}
  SidedCodes = {"ctrl"}
  LockCodes = {"caps"}
  PlainCodes = {}
  HostKeys = {"x"}
  Sessions <- Both
  Interruptible = FALSE
  MaxQueue = 2
INVARIANTS SnapshotsCurrent
PROPERTY DataReachesItsTarget
