CONSTANTS
    NWorker = 2
    MaxCalls = 2
    MaxBlocks = 1
    Closes = TRUE
SPECIFICATION Spec
INVARIANTS TypeOK Exclusive OwnResults
PROPERTIES CallsEnd CloseReturns
