CONSTANTS
    Worker = {w1, w2}
    Deadline = {0, 1, 2}
    Rounds <- HeightAgain
    MaxBlocks = 1
SPECIFICATION Spec
SYMMETRY Workers
\* Deadlock: the rounds are used up and every block is hashed.
CHECK_DEADLOCK FALSE
INVARIANTS TypeOK OnlyOvertakenLost FilterJustified
