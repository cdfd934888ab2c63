CONSTANTS
  Capacity = 4
  MaxDatagramLength = 2
  BlockHeader = 2
  Payload = {11, 12}
  IdleTimeout = 0
SPECIFICATION FairFlowSpec
INVARIANTS
  FlowTypeOK
  DatagramsAreWhole
  AsksForWhatItNeeds
PROPERTIES
  
  QueuedIsSent
  IdleFlowReclaimed
CHECK_DEADLOCK FALSE
