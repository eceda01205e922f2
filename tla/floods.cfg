SPECIFICATION FairSpec
CONSTANTS
  Threshold <- MCThreshold
  DistPps = 300
  MinSources = 5
  LowSlowFlows = 20
  Places <- MCPlaces
  Home <- MCHome
  Stalled <- NoneStalled
  Nowhere = "nowhere"
  Floods <- Apart
INVARIANT
  TypeOK
PROPERTIES
  FloodsEnd
  CountedFloodsStayDropped
