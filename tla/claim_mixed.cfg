SPECIFICATION FairSpec
CONSTANTS
  Threshold <- MCThreshold
  DistPps = 300
  MinSources = 5
  LowSlowFlows = 20
  Places <- MCPlaces
  Home <- MCHome
  Stalled <- NoneStalled
  Nowhere = "nowhere"
  Floods <- Mixed
PROPERTY
  FloodsEnd
