SPECIFICATION FairSpec
CONSTANTS
  w1 = w1  w2 = w2
  Workers <- TwoWorkers
  RetryInterval = 3
  MaxErrors = 1
PROPERTY QuietPeriod
PROPERTY Resumes
