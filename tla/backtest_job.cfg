SPECIFICATION FairSpec
CONSTANTS
  MaxTime = 3
  Traded <- OneQuiet
  Chunk = 2
  SigWindow = 2
  SigStride = 1
  StoreFaults <- AllStoreFaults
  MaxFaults = 1
  LookBack = 2
  Asked <- SomeWindows
  MaxJobs = 3
  JobFaults <- AllJobFaults
INVARIANTS TradedKept AnswerComplete CompletedIsShown
PROPERTIES JobEnds
