SPECIFICATION Spec
CONSTANTS
  NumInstruments = 2
  Sizes <- Two
  Replies <- AnsweredReplies
  Reconciles <- Answered
  ApiUnits <- Nobody
  CanCrash = TRUE
  Attempts = 1
  MaxBroker = 4
  MaxBook = 1
  MaxGate = 2
  MaxNetUnits = 4
  MaxPositions = 2
  MaxPositionSize = 4
  MaxExposure = 5
  MaxPerPair = 2
INVARIANTS BrokerWithinLimits
PROPERTIES RejectionKeepsSignal KeepsAccount
