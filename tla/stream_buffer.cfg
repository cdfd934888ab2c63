CONSTANTS
  Capacity = 4
  Byte = {b1, b2}
SPECIFICATION Spec
PROPERTIES
  ImplementsFifo
