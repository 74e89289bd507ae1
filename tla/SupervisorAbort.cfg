SPECIFICATION Spec
CONSTANTS
  RetryLimit = 1
  MaxGeneration = 1
  MaxFaults = 0
  MaxEpoch = 2
PROPERTY
  AbortSparesTheSession
