CONSTANTS
    NCache = 2
    CacheSizes = {1, 2}
    Block = {c1, c2, c3}
    MaxJobs = 3
    MaxStarts = 2
    Straddle = TRUE
SPECIFICATION Spec
INVARIANTS TypeOK HashSeesItsJob SlotsNeverMultiply CacheEnough
PROPERTIES HashedInOrder StopDrains 
