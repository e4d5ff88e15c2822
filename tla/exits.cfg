SPECIFICATION Spec
CONSTANTS
  MaxTime = 6
  MaxPass = 2
  MaxTickets = 2
  Prices <- MCPrices
  EntryPrice = 100
  StopLoss = 2
  TakeProfit = 4
  Breakeven = 1
  Trailing = 1
  Hold = 5
  StackTick = 2
  ReconcileEvery = 3
  BrokerRefuses = TRUE
  ReconcileFails = TRUE
  KillSwitch = TRUE
INVARIANTS StopsProtect ClockBounded NoOverstay
CHECK_DEADLOCK FALSE
