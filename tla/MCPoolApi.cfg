SPECIFICATION Spec
CONSTANTS
  Coins <- ThreeCoins
  PoolCoins = {"BHD", "BURST", "LHD", "OTHER"}
  Modes = {TRUE, FALSE}
  RescanRate = 1
  Whole = 1
  MaxNews = 1
  MaxBreaks = 1
  WsRoom = 2
INVARIANT StatusAgrees
PROPERTIES Settles 
