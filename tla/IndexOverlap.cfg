SPECIFICATION Spec
CONSTANTS
  s1 = s1  s2 = s2  r1 = r1  r2 = r2  l1 = l1  l2 = l2
  NoSeries = NoSeries
  Series <- OneSeries
  Receivers <- OneReceiver
  Loops <- TwoLoops
  Rejects <- CreateRejects
  HoursLog = 2
  DiscoveredBatchSize = 1
  KnownBatchSize = 1
  CorrIds = {1, 2, 3}
  MaxWire = 2
  MaxFaults = 1
  MaxRestarts = 1
INVARIANT FirstReport
SYMMETRY Symmetry
