CONSTANTS
  Capacity = 7
  MaxDatagramLength = 3
  BlockHeader = 2
  Payload = {11, 12, 13}
SPECIFICATION Spec
PROPERTY ImplementsFifo
