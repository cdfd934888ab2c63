CONSTANTS
  MaxInstances = 2
  MaxGeneration = 3
SPECIFICATION FairSpec
CHECK_DEADLOCK FALSE
INVARIANTS
  TypeOK
  StopIsFinal
  DescriptorsOwned
  OneAttempt
  ConnectedHasWorker
  StopIsSaved
PROPERTY BrokenTunnelRetried
