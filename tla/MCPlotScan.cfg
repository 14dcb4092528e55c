SPECIFICATION Spec
\* Deadlock: the reader returns.
CHECK_DEADLOCK FALSE
CONSTANTS
  NumScoops = 4
  Sector = 2
  BfsSector = 2
  MaxFiles = 2
  cache_size1 = 4
  cache_size2 = 5
  ScanUnits = 4
  Directories <- Plots
  MaxFaults = 2
INVARIANTS
  RightScoops OnlyOwnNonces EachNonceOnce ReadsInsideFile ProgressSent
PROPERTY
  ReaderReturns
