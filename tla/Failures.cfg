SPECIFICATION Spec
CONSTANTS
  JitterDraws = 4
  MaxSeconds = 400
  Strategies <- MCStrategies
  Reasons <- MCReasons
  Arrivals <- MCArrivals
  MaxLayers = 3
INVARIANT TypeOK
PROPERTIES
  SameOnReplay
  DataSurvives
  RecordsRebuild
  RetriesAsConfigured
