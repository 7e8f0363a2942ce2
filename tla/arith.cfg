CONSTANTS
  W = 8
  N = 8
  Jobs <- MCJobs

SPECIFICATION Spec
CHECK_DEADLOCK FALSE
INVARIANT ChainsExact
INVARIANT RotatesInvert
INVARIANT JumpsDecide
INVARIANT DivisionsExact
INVARIANT StringsExact
