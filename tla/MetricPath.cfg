SPECIFICATION Spec
CONSTANTS
  Lang <- SomeLang
  Letters <- letters
  Digits <- digits
  promotedResourceAttributes <- promoted
  Metrics <- SomeMetrics
  DemandSets <- SomeDemands
  MaxMetrics = 2
INVARIANT DemandedSeries
INVARIANT NamesAreSelectors
INVARIANT NeverUndercounted
INVARIANT MissingIsNotForwarded
INVARIANT ViewsAgree
INVARIANT SignalsAgree
