SPECIFICATION Spec
CONSTANTS
  NumInstruments = 1
  Sizes <- OneTwo
  Replies <- AllReplies
  Reconciles <- AllReconciles
  ApiUnits <- Somebody
  CanCrash = TRUE
  Attempts = 2
  MaxBroker = 4
  MaxBook = 2
  MaxGate = 2
  MaxNetUnits = 3
  MaxPositions = 2
  MaxPositionSize = 3
  MaxExposure = 0
  MaxPerPair = 2
INVARIANTS TypeOK RiskMatchesTickets LedgersAgree ExitsInRange BooksOneSided OneTradePerSignal
PROPERTIES AllocationOnlyEnters KeepsAccount
