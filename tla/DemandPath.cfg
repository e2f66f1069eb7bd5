SPECIFICATION FairPathSpec
CONSTANTS
  x = x  y = y  n = n  a = a  b = b
  selA = selA  selB = selB  selBad = selBad
  f1 = f1  f2 = f2  w1 = w1  w2 = w2
  NoDemand = 0
  NoRule = NoRule
  SetIds = {1, 2, 3, 4}
  Series <- TwoSeries
  Names <- OneName
  NameOf <- SameName
  Resources <- TwoResources
  Selectors <- ThreeSelectors
  Matching <- TwoParse
  Rules <- TwoRules
  Content <- FourSets
  Hashed <- ThreeLists
  Workers <- OneWorker
  MaxChanges = 1
  MaxFaults = 1
  MaxWire = 1
  MaxErrors = 1
INVARIANT DemandedOnly
INVARIANT OneSetPerBatch
INVARIANT NoSilentLoss
PROPERTY Converges
PROPERTY SpansSettle
