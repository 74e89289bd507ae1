SPECIFICATION Spec
CONSTANTS
  RetryLimit = 1
  MaxGeneration = 1
  MaxFaults = 2
  MaxEpoch = 2
PROPERTY
  RotatedOutIsNeverDetached
