SPECIFICATION Spec
CONSTANTS
  Prefixes <- SomePrefixes
  MaxMore = 7
INVARIANT OnlySelectors
INVARIANT AllSelectors
INVARIANT InBounds
CHECK_DEADLOCK FALSE
