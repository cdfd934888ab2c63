CONSTANTS
  Modulus = 16
  HeaderLength = 1
  MaxPayload = 2
  UpCapacity = 2
  LinkCapacity = 3
  ClientIsns = {14}
  RelayIsns = {13}
  Windows = {0, 2}
  AckLags = {0, 1}
  MaxSegment = 1
  MaxUp = 3
  MaxDown = 2
  MaxFins = 1
  ConnectTimeout = 0
  IdleTimeout = 0
  SpuriousEvents = FALSE
  ClientConforms = TRUE
SPECIFICATION Spec
CHECK_DEADLOCK FALSE
INVARIANT StreamsAreExact
