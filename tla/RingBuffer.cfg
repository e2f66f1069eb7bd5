SPECIFICATION Spec
CONSTANTS
  HoursLog = 4
  MaxHour = 10
  MaxSamples = 2
  MaxCount = 3
CONSTRAINT Bounded
INVARIANT SilentExactly
PROPERTY KeepsWindow
