CONSTANTS
    Worker = {w1}
    Deadline = {0, 1, 2}
    Rounds <- SameHeight
    MaxBlocks = 2
SPECIFICATION Spec
\* Deadlock: the rounds are used up and every block is hashed.
CHECK_DEADLOCK FALSE
INVARIANT NoBetterSuppressed
