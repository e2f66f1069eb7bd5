SPECIFICATION TunnelSpec
CONSTANTS
  MaxStreams = 2
  MaxRequests = 2
  MaxActive = 2
  MaxQueries = 1
  Enabled = {"vm"}
  QueryInputs <- Inputs
INVARIANT SlotsHeld
INVARIANT Counted
INVARIANT QuietAfterShutdown
PROPERTY AddsBeforeWait
CHECK_DEADLOCK FALSE
