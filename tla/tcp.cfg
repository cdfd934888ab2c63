CONSTANTS
  Modulus = 16
  HeaderLength = 1
  MaxPayload = 1
  UpCapacity = 2
  LinkCapacity = 2
  ClientIsns = {14}
  RelayIsns = {13}
  Windows = {0, 3}
  AckLags = {0}
  MaxSegment = 1
  MaxUp = 2
  MaxDown = 1
  MaxFins = 1
  ConnectTimeout = 1
  IdleTimeout = 0
  SpuriousEvents = TRUE
  ClientConforms = FALSE
SPECIFICATION FairSpec
CHECK_DEADLOCK FALSE
INVARIANTS
  AckCountsWrittenBytes
  NoLostWakeup
  PendingRegisteredOnce
  ClosedOnceAndUnrouted
PROPERTIES
  FlowsAreReaped
  HalfOpenRefusedIfRoom
  NothingFollowsFin
