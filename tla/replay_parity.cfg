SPECIFICATION Spec
CONSTANTS
  MaxTrades = 2
  StopLoss = 3
  TakeProfit = 4
  Breakeven = 1
  Trailing = 2
  Hold = 3
  Cooldown = 2
  HazardExit = 300
  HazardLimit = 600
  MeanReversion = TRUE
  RequireStPeak = TRUE
  UseRegime = FALSE
  Candles <- MCCandles
  Gates <- MCGates
  Hazards <- MCHazards
INVARIANTS SameTrades
PROPERTIES SweepContract ParityContract
