SPECIFICATION FairSpec
CONSTANTS
  Navs <- TwoNavs
  Exposures <- TwoExposures
  DailyLossPct = 3
  MaxDrawdownPct = 10
  RapidChangePct = 50
  Failures <- AllFailures
INVARIANTS TripHasCause
PROPERTIES ResumesByOperator DrawdownKeepsEngaging
