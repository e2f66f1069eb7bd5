SPECIFICATION FairSpec
CONSTANTS
  r1 = r1  r2 = r2
  Regions <- TwoRegions
  Domain = domain
  NoRegion = none
  domain = domain  none = none
  resolveRetries = 3
  Envs <- SomeEnvs
  MaxStreams = 2
  MaxRequests = 1
  MaxActive = 1
  MaxQueries = 1
  Enabled = {"vm"}
  QueryInputs <- Inputs
INVARIANT OneRegion
INVARIANT PinnedIsOffline
PROPERTY ShutdownReturns
PROPERTY Answered
PROPERTY Greets
PROPERTY ComesUp
