SPECIFICATION Spec
CONSTANTS
  Kinds <- AllKinds
  Volumes <- Level
  MaxCandles = 5
  MaxLapses = 2
  LookBack = 3
  HazardCap = 100
  AdmitRegimes <- Trends
  MinConfidence = 55
  Decay <- Decays
  Profiles <- ThreeProfiles
  Retention = 2
  MaxSamples = 3
  Percentile = 80
INVARIANTS GateMirrored RepetitionsHeal PeaksHeal FilterMatchesGpu
CHECK_DEADLOCK FALSE
