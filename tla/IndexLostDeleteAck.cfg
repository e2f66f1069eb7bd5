SPECIFICATION FairSpec
CONSTANTS
  s1 = s1  s2 = s2  r1 = r1  r2 = r2  l1 = l1  l2 = l2
  NoSeries = NoSeries
  Series <- OneSeries
  Receivers <- OneReceiver
  Loops <- OneLoop
  Rejects <- NoRejects
  HoursLog = 2
  DiscoveredBatchSize = 1
  KnownBatchSize = 1
  CorrIds = {1, 2}
  MaxWire = 1
  MaxFaults = 1
  MaxRestarts = 0
PROPERTY IndexedUnlessRaced
