CONSTANTS
  Terms = {"t0", "t1"}
  MaxDepth <- Depths
  Rates = {2, 4}
  MaxRtcFds = 2
  TickPoints = {"store", "mark", "forget", "spin", "clear"}
SPECIFICATION FairSpec
INVARIANTS TypeOK RateOnlyWhileOpen ReadWaitsForInterrupt
PROPERTIES SwitchRestoresRate RateIsRestored LoneReadReturns
