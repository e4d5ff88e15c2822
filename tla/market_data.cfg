SPECIFICATION FairSpec
CONSTANTS
  MaxTime = 5
  Bootstrap = 3
  Incremental = 2
  MaxEntries = 4
  Latency = 0
  Stale = 1
  StreamFaults <- AllStreamFaults
  MaxFaults = 1
  Window = 2
  GateTtl = 2
  Retention = 3
  MaxSamples = 2
  Percentile = 80
  AdmitRegimes <- Bulls
  Signature <- Pairs
  Hazard <- RiseAndFall
  Regime <- OneNeutral
  GateFaults <- AllGateFaults
INVARIANTS FinalCandlesOnly NoHole CountedOnce
PROPERTIES GatesMoveForward VerdictsMoveForward CatchesUp GateFollows
