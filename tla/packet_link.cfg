CONSTANTS
  Kinds = {"v4", "unsupported", "bad", "v6", "junk"}
  Lengths = {2, 3}
  Modes = {"proxy", "blackhole"}
  IdLength = 2
  TunHeader = 2
  RelayHeader = 1
  ReplyLength = 2
  MaxPacket = 3
  MaxQueue = 6
  MaxIpPacket = 3
  RingCapacity = 3
  SocketCapacity = 2
  MaxUp = 2
  MaxDown = 2
  MaxTraffic = 3
SPECIFICATION FairSpec
CHECK_DEADLOCK FALSE
INVARIANTS
  TypeOK
  StreamsKept
  FramingHolds
  EofIsReal
  QueuesBounded
PROPERTIES
  LinkDelivers
  EndReachesBoth
