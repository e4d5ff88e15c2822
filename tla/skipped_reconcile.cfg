SPECIFICATION Spec
CONSTANTS
  NumInstruments = 1
  Sizes <- One
  Replies <- AnsweredReplies
  Reconciles <- AllReconciles
  ApiUnits <- Nobody
  CanCrash = FALSE
  Attempts = 1
  MaxBroker = 2
  MaxBook = 1
  MaxGate = 2
  MaxNetUnits = 2
  MaxPositions = 2
  MaxPositionSize = 2
  MaxExposure = 0
  MaxPerPair = 2
PROPERTIES SkippedReconcileKeepsTrades
