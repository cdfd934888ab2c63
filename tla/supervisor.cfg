CONSTANTS
  MaxFaults = 2
  MaxUnplugs = 2
SPECIFICATION FairSpec
CHECK_DEADLOCK FALSE
INVARIANTS
  NoRelayLeftBehind
  OnlyFailedCommandsLeave
PROPERTIES
  ForeignRulesKept
  StopEnds
  PhoneIsServed
