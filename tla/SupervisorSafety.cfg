SPECIFICATION Spec
CONSTANTS
  RetryLimit = 1
  MaxGeneration = 2
  MaxFaults = 2
  MaxEpoch = 2
INVARIANTS
  TypeOK
  NoOverlap
  PredecessorGone
  LaunchBudget
  CompletedLeavesNothing
PROPERTIES
  ReleasedOnlyWhenGone
  LaunchedWithCapsule
  RotatesOnlyWithCapsule
  DispatchedOnlyAccepted
  KeepsTheSession
  HaltIsFinal
  ImplementsHandoff
