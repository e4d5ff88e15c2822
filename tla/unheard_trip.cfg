SPECIFICATION FairSpec
CONSTANTS
  Navs <- TwoNavs
  Exposures <- OneExposure
  DailyLossPct = 3
  MaxDrawdownPct = 10
  RapidChangePct = 50
  Failures <- NoFailures
PROPERTIES TripStopsService
