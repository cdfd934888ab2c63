CONSTANTS
  Capacity = 9
  MaxDatagramLength = 2
  BlockHeader = 1
  Payload = {11}
  IdleTimeout = 1
SPECIFICATION FlowSpec
INVARIANT WriteFindsDatagram
CHECK_DEADLOCK FALSE
