SPECIFICATION Spec
CONSTANTS
  MaxTime = 9
  MaxGap = 2
  MaxTrades = 3
  Sizes = {1, 2}
  Hold = 5
  Cooldown = 2
  GateAge = 0
  Day = 12
  Dawn = 8
  TicksPerMinute = 1
  SessionOpens = 8
  SessionCloses = 4
  ExitBuffer = 1
  AllowFallback = TRUE
  Stacking = TRUE
  HazardExit = FALSE
  Candles <- MCCandles
  StopLoss = 2
  TakeProfit = 3
  Breakeven = 1
  Trailing = 0
  MaxNetUnits = 5
  MaxPositions = 3
  MaxPositionSize = 4
  MaxExposure = 4
INVARIANTS LedgersAgree FullHold
PROPERTIES EntriesKeepClear
CHECK_DEADLOCK FALSE
