CONSTANTS
  Installs <- MCInstalls
  MaxDepth = 3
  MaxKeys = 2
  MaxResets = 1
  NestedWaits = FALSE
  Interrupted = FALSE

SPECIFICATION Spec
INVARIANT RecordMeansWaiting
PROPERTY WaitKeepsFlags
PROPERTY ChainedResult
