SPECIFICATION FairSpec
CONSTANTS
  ShiftCodes = {}
  SidedCodes = {}
  LockCodes = {}
  PlainCodes = {"a"}
  HostKeys = {"x"}
  Width = 3
  CascadeIRQ = 2
  Bases = {8}
  Modes <- OrderlyModes
  IdleLimit = 1
  MaxKeys = 2
  MaxDepth = 2
INVARIANTS OneKeyboardHandler
PROPERTIES KeysInOrder WaitEnds
