\* Requests, claims and both kinds of EOI while the guest masks lines and
\* reprograms either chip at any point of an interrupt's life.
SPECIFICATION Spec
CONSTANTS
  Width = 3
  CascadeIRQ = 1
  Bases = {8}
  DeviceIRQs <- SomeIRQs
  InitWords <- ShortAndLong
  MasterMasks <- SomeMasterMasks
  SlaveMasks <- SomeSlaveMasks
INVARIANTS TypeOK ServiceRequested InitWordsAreNotMasks
PROPERTY ImplementsLatch
