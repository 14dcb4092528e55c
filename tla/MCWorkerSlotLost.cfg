CONSTANTS
    NCache = 2
    CacheSizes = {1}
    Block = {c1, c2, c3}
    MaxJobs = 3
    MaxStarts = 1
    Straddle = FALSE
SPECIFICATION Spec
INVARIANT SlotsReturned
