SPECIFICATION MCSpec
CONSTANTS
  main = main  overlay = overlay  old = old  new = new  u1 = u1  u2 = u2
  Refused = Refused
  Torn = Torn
  NoUpdate = NoUpdate
  Files <- TwoFiles
  Versions <- TwoVersions
  Valid <- NotBothNew
  Updates <- TwoUpdates
  Sources <- MainFirst
  WriteEnabled = TRUE
  MaxFaults = 2
INVARIANT OnDiskValid
INVARIANT AckedIsDurable
INVARIANT NoLitter
INVARIANT OneConfigSnapshot
PROPERTY AnsweredUnlessEnded
PROPERTY ReloadApplies
CHECK_DEADLOCK FALSE
