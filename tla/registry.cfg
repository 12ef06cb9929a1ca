SPECIFICATION RegFairSpec
CONSTANTS
  MaxConns = 2
  MaxBreaks = 1
  MaxCommands = 2
  MaxTime = 2
  ChannelCap = 1
  InactiveAfter = 1
  CleanupAfter = 1
INVARIANTS
  RegTypeOK
  RegisteredStreamIsOpen
  CommandsAreNotDuplicated
PROPERTIES
  StreamSettles
CHECK_DEADLOCK FALSE
