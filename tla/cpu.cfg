CONSTANTS
  LDT <- MCLDT
  GDT <- MCGDT
  IDT <- MCIDT
  Stacks <- MCStacks
  Images <- MCImages
  InnerStack <- MCInnerStack
  Programs <- MCPrograms
  Paras <- MCParas
  StackLimit = 2
  AnyRPL = FALSE

SPECIFICATION Spec
CHECK_DEADLOCK FALSE
INVARIANT RingsAgree
INVARIANT DataReachable
INVARIANT BusyTasks
PROPERTY ReturnsRestore
