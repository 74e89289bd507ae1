SPECIFICATION FairSpec
CONSTANTS
  RetryLimit = 1
  MaxGeneration = 1
  MaxFaults = 1
  MaxEpoch = 2
PROPERTIES
  HandoffSettles
  AbortedEnds
