SPECIFICATION Spec
\* Deadlock: nothing left to send.
CHECK_DEADLOCK FALSE
CONSTANTS
  Blocks <- FourBlocks
  Deadlines = {4, 6}
  BaseTarget = 2
  Miners = {"own", "other"}
  Self = "own"
  Budgets <- SmallBudgets
  UdpRoom = 2
  SubmitLen = 1
  LocalLen = 1
  Chlen = 1
INVARIANT TypeOK
PROPERTIES BestKept 
