SPECIFICATION FairSpec
CONSTANTS
  Width = 3
  CascadeIRQ = 2
  Bases = {8}
  DeviceIRQs = {0, 1}
  GuestMasks <- EachMask
  EarlySti = FALSE
  MaxDepth = 3
INVARIANTS TypeOK ServiceOwned
PROPERTIES ReturnsEnabled HaltWakes TimerServed OnlyTimerStarves
