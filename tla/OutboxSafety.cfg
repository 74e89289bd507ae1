SPECIFICATION Spec
CONSTANTS
  Supervisor = Supervisor
  Operator = Operator
  beads = beads
  linear = linear
  MirrorAdapters <- BeadsFirst
  Served = {beads}
  Stripe <- TwoStripes
  Failures <- EitherWay
  QueueMax = 2
  DeadMax = 2
  MaxEntries = 4
  MaxVersion = 2
  MaxGen = 2
  MaxAttempts = 1
  MaxCommands = 1
  MaxCrashes = 1
  MaxFailures = 1
INVARIANTS
  TypeOK
  NothingLost
  ClaimedOnce
  DeadLetteredOnce
PROPERTIES
  ImplementsMailbox
  QueueDrains
CHECK_DEADLOCK FALSE
